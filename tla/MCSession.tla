------------------------------ MODULE MCSession -----------------------------
(***************************************************************************)
(* A session on a small instance: three graph variants, chunks of one and  *)
(* two tokens, a model context one token longer than the session's.        *)
(***************************************************************************)
EXTENDS Session

\* A next token that depends on both contexts and on the order within them.
MCArgmax(l) ==
  IF l.cache = l.recurrent /\ l.recurrent # <<>>
       /\ l.recurrent[Len(l.recurrent)] = "a"
    THEN "b" ELSE "a"
=============================================================================
