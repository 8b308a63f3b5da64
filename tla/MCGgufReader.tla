----------------------------- MODULE MCGgufReader -----------------------------
(***************************************************************************)
(* Words of eight bits, so that sums and products of fields do overflow;   *)
(* files that end in the table, in the data and behind it.                 *)
(***************************************************************************)
EXTENDS GgufReader

MCTextBytes == [t \in ValidKey \cup Name |-> IF t = "general.alignment" THEN 3 ELSE 1]
=============================================================================
