---------------------------- MODULE MCGeneration ----------------------------
(***************************************************************************)
(* Generation on a small instance: continuations of different lengths, one *)
(* that stops at once, and some that never stop.                           *)
(***************************************************************************)
EXTENDS Generation

MCPredict(log) ==
  LET last == log[Len(log)] IN
  CASE last = "a" -> "b"
    [] last = "b" -> IF Len(log) > 2 THEN "stop" ELSE "a"
    [] OTHER      -> IF log[1] = "a" THEN "stop" ELSE "a"

MCAnswers == UpTo(1, Token)
=============================================================================
