------------------------------ MODULE Session -------------------------------
(***************************************************************************)
(* A session: the logical state of the sequence on the host, on top of the *)
(* executor that holds the tensors.  It validates a request against its    *)
(* own position, runs the executor, and commits the tokens only once the   *)
(* executor has returned.                                                  *)
(***************************************************************************)
EXTENDS Qwen35Executor

CONSTANT FullLayer    \* the full-attention layers of the model

VARIABLES
  sessionPosition,    \* state_.position()
  kvLength,           \* full_kv_lengths_, one per full-attention layer
  want,               \* tokens the call in progress will commit
  status,             \* status of the last call that ended
  reply               \* tokens returned by the last call that succeeded

hostVars == <<sessionPosition, kvLength, want, status, reply>>
vars == <<execVars, hostVars>>

Status == {"none", "ok", "invalid_argument", "cuda_error"}

Init ==
  /\ InitExecutor
  /\ sessionPosition = 0
  /\ kvLength = [l \in FullLayer |-> 0]
  /\ want = 0
  /\ status = "none"
  /\ reply = <<>>

-----------------------------------------------------------------------------
(* Requests *)

Request == UpTo(MaxContext, Token)

\* validate_request: a request that is empty or longer than the rest of the
\* context is refused before the executor sees it.
HasRoom(n) == n > 0 /\ n <= MaxContext - sessionPosition

\* Mutation: the tokens are committed when the call starts.
MutStart(n) ==
  /\ want' = 0
  /\ sessionPosition' = sessionPosition + n
  /\ kvLength' = [l \in FullLayer |-> kvLength[l] + n]
  /\ UNCHANGED <<status, reply>>

Start(n) ==
  /\ want' = n
  /\ UNCHANGED <<sessionPosition, kvLength, status, reply>>

CallPrefill(tokens) == HasRoom(Len(tokens)) /\ Prefill(tokens) /\ Start(Len(tokens))

CallDecode(token) == HasRoom(1) /\ Decode(token) /\ Start(1)

CallDecodeGreedy(token, n) == HasRoom(n) /\ DecodeGreedy(token, n) /\ Start(n)

Answer(s) ==
  /\ status' = s
  /\ UNCHANGED <<execVars, sessionPosition, kvLength, want, reply>>

\* So is one with a token outside the vocabulary; no such token reaches Token.
RefuseInvalid ==
  /\ pc = "idle"
  /\ \E n \in 0 .. ContextLength + 1 : ~HasRoom(n)
  /\ Answer("invalid_argument")

\* The executor's own checks throw before anything has changed.
RefusePoisoned ==
  /\ pc = "idle"
  /\ \E n \in 1 .. MaxContext : HasRoom(n) /\ ~Accepts(n)
  /\ Answer("cuda_error")

-----------------------------------------------------------------------------
(* Ends of calls *)

CommitFits ==
  /\ want <= MaxContext
  /\ sessionPosition <= MaxContext - want
  /\ \A l \in FullLayer : kvLength[l] <= MaxContext - want

\* commit_tokens checks every length before it changes one.
Commit ==
  /\ pc = "returned"
  /\ IF CommitFits
       THEN /\ sessionPosition' = sessionPosition + want
            /\ kvLength' = [l \in FullLayer |-> kvLength[l] + want]
            /\ reply' = out
            /\ status' = "ok"
       ELSE /\ status' = "cuda_error"
            /\ UNCHANGED <<sessionPosition, kvLength, reply>>
  /\ want' = 0
  /\ EndCall

Surface ==
  /\ pc = "threw"
  /\ status' = "cuda_error"
  /\ want' = 0
  /\ EndCall
  /\ UNCHANGED <<sessionPosition, kvLength, reply>>

\* Mutation: the layer lengths are not reset.
MutCallReset ==
  /\ Reset
  /\ sessionPosition' = 0
  /\ status' = "ok"
  /\ UNCHANGED <<kvLength, want, reply>>

\* The executor is reset first; the logical state follows only if that worked.
CallReset ==
  /\ Reset
  /\ sessionPosition' = 0
  /\ kvLength' = [l \in FullLayer |-> 0]
  /\ status' = "ok"
  /\ UNCHANGED <<want, reply>>

\* Mutation: the logical state is reset before the executor.
MutCallResetFails ==
  /\ ResetFails
  /\ sessionPosition' = 0
  /\ kvLength' = [l \in FullLayer |-> 0]
  /\ status' = "cuda_error"
  /\ UNCHANGED <<want, reply>>

CallResetFails ==
  /\ ResetFails
  /\ status' = "cuda_error"
  /\ UNCHANGED <<sessionPosition, kvLength, want, reply>>

-----------------------------------------------------------------------------

Run == (ExecutorStep \/ ExecutorFailure) /\ UNCHANGED hostVars

Next ==
  \/ \E tokens \in Request : CallPrefill(tokens)
  \/ \E token \in Token : CallDecode(token)
  \/ \E token \in Token, n \in 1 .. MaxContext : CallDecodeGreedy(token, n)
  \/ RefuseInvalid
  \/ RefusePoisoned
  \/ Run
  \/ Commit
  \/ Surface
  \/ CallReset
  \/ CallResetFails

\* The calling thread goes on with a call it is in; nobody has to call.
InCall == (ExecutorStep /\ UNCHANGED hostVars) \/ Commit \/ Surface

Spec == Init /\ [][Next]_vars /\ WF_vars(InCall)

-----------------------------------------------------------------------------
(* Properties *)

TypeOK ==
  /\ ExecutorTypeOK
  /\ sessionPosition \in 0 .. MaxContext
  /\ kvLength \in [FullLayer -> 0 .. MaxContext]
  /\ want \in 0 .. MaxContext
  /\ status \in Status
  /\ reply \in UpTo(MaxContext, Token \union {Blank})

\* Between calls host bookkeeping, every layer's length and the executor agree
\* on how many tokens have been consumed, unless the executor is poisoned and
\* refuses to go on from where it is.
PositionsAgree ==
  /\ (pc = "idle" /\ ~poisoned) => sessionPosition = position
  /\ \A l \in FullLayer : kvLength[l] = sessionPosition

\* A call the executor has carried out is never lost at the commit.
CommitAlwaysFits == pc = "returned" => CommitFits

\* A call that fails, at whatever step, leaves the logical state where it was.
OnlySuccessCommits ==
  [][sessionPosition' # sessionPosition =>
       /\ status' = "ok"
       /\ ~poisoned'
       /\ sessionPosition' = position']_vars

\* What a call in progress will have consumed is what it will commit.
CallAccounted ==
  /\ pc = "idle" => want = 0
  /\ pc \notin {"idle", "threw"} => at + left = sessionPosition + want

\* The inductive invariant of a session.
SessionInv ==
  /\ ExecInv
  /\ TypeOK
  /\ PositionsAgree
  /\ CallAccounted

-----------------------------------------------------------------------------
(* The session as a token log *)

Predict(log) == Argmax([cache |-> log, recurrent |-> log])

\* What the call in progress has produced, the results that a run of replays
\* has left on the device included, and the token it will consume next.
Produced == IF pc = "replay" THEN out \o RunResults ELSE out

NextToken == IF pc = "replay" THEN deviceToken ELSE input[1]

\* Answers p given behind the first s tokens of a log r: each is the model's
\* prediction for the log up to there, and all but the last are in the log.
Predicted(p, r, s) == \A i \in 1 .. Len(p) : p[i] = Predict(SubSeq(r, 1, s + i))

FedBack(p, r, s) == \A i \in 1 .. Len(p) - 1 : r[s + i + 1] = p[i]

\* A decode call has one such answer for each token consumed, and goes on with
\* the last one.
ChainsAnswers ==
  /\ Len(Produced) = at - sessionPosition
  /\ Predicted(Produced, recurrent, sessionPosition)
  /\ FedBack(Produced, recurrent, sessionPosition)
  /\ pc # "returned" /\ Len(Produced) > 0 => NextToken = Produced[Len(Produced)]

\* What a call in progress has answered, and with which of its local variables.
CallAnswers ==
  (Trusted /\ pc \notin {"idle", "threw"}) =>
    /\ sessionPosition <= at /\ want > 0
    /\ op \in {"prefill", "decode", "greedy"}
    /\ op = "prefill" => /\ pc \in {"chunk", "sync", "returned"}
                         /\ pc # "chunk" => out = <<Predict(recurrent)>>
    /\ op # "prefill" => pc \notin {"chunk", "sync"} /\ ChainsAnswers
    /\ op = "decode" => want = 1
    /\ pc = "replay" => from = sessionPosition + Len(out)

Mode == IF poisoned THEN "failed" ELSE IF torn THEN "torn" ELSE "ok"

History == IF Mode = "ok" THEN SubSeq(recurrent, 1, sessionPosition) ELSE <<>>

Log == INSTANCE TokenLog WITH
  Capacity <- MaxContext,
  Answers  <- UpTo(MaxContext, Token \union {Blank}),
  mode     <- Mode,
  history  <- History

\* A session is a token log: every answer is the model's prediction for
\* exactly the tokens consumed since the last reset, whether they came by
\* chunks, eager steps or graph replays, and a failed call answers nothing.
ImplementsTokenLog == Log!Spec
=============================================================================
