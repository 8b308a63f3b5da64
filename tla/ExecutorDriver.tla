--------------------------- MODULE ExecutorDriver ---------------------------
(***************************************************************************)
(* A program that drives an executor directly, as the logits probe and the *)
(* executor tests do: it calls in any order, switches tracing on and off,  *)
(* and keeps within the session context itself.                            *)
(***************************************************************************)
EXTENDS Qwen35Executor

DriverCollect == pc \in {"returned", "threw"} /\ EndCall

DriverCall ==
  \/ \E tokens \in UpTo(MaxContext, Token) \ {<<>>} :
       Len(tokens) <= MaxContext - position /\ Prefill(tokens)
  \/ \E token \in Token : position < MaxContext /\ Decode(token)
  \/ \E token \in Token, n \in 1 .. MaxContext : DecodeGreedy(token, n)

DriverNext ==
  \/ DriverCall
  \/ ExecutorStep
  \/ ExecutorFailure
  \/ DriverCollect
  \/ Reset
  \/ ResetFails
  \/ EnableTrace

DriverSpec ==
  /\ InitExecutor /\ [][DriverNext]_execVars
  /\ WF_execVars(ExecutorStep \/ DriverCollect)
=============================================================================
