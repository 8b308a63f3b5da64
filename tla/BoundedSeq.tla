----------------------------- MODULE BoundedSeq -----------------------------
(***************************************************************************)
(* Sequences of bounded length: the requests and answers of the system.    *)
(***************************************************************************)
EXTENDS Naturals, Sequences

\* Sequences over S of at most n elements.
UpTo(n, S) == UNION {[1 .. m -> S] : m \in 0 .. n}
=============================================================================
