-------------------------- MODULE MCExecutorDriver --------------------------
(***************************************************************************)
(* The executor driven directly, on a small instance.                      *)
(***************************************************************************)
EXTENDS ExecutorDriver

\* A next token that depends on both contexts and on the order within them.
MCArgmax(l) ==
  LET n == Len(l.recurrent) + Len(l.cache) IN
  IF n > 0 /\ l.cache = l.recurrent /\ l.recurrent[Len(l.recurrent)] = "a"
    THEN "b" ELSE "a"
=============================================================================
