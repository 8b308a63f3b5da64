------------------------------ MODULE TokenLog ------------------------------
(***************************************************************************)
(* What a session promises.  It is a log of tokens and a model: prefill    *)
(* and decode append to the log and answer with the model's prediction for *)
(* the whole log; greedy decode appends its own answers.  A call that      *)
(* fails loses the log, and every call is refused until a reset succeeds.  *)
(* After a reset that failed on a healthy session nothing is promised      *)
(* about the tokens returned.                                              *)
(***************************************************************************)
EXTENDS Naturals, Sequences

CONSTANTS
  Token,
  Capacity,     \* the most tokens a log may hold
  Answers,      \* whatever a session may return, meaningful or not
  Predict(_)    \* the model: the next token after a log

VARIABLES
  history,      \* tokens consumed since the last reset
  mode,         \* "ok", "failed" until reset, or "torn" by a failed reset
  reply         \* tokens returned by the last call that succeeded

logVars == <<history, mode, reply>>

Requests == UNION {[1 .. n -> Token] : n \in 1 .. Capacity}

Init == history = <<>> /\ mode = "ok" /\ reply = <<>>

\* prefill, and decode as its one-token case.
Consume(tokens) ==
  /\ mode = "ok"
  /\ history' = history \o tokens
  /\ reply' = <<Predict(history')>>
  /\ UNCHANGED mode

\* n answers, each the prediction for the log extended by those before it;
\* the last one is returned and not yet consumed.
Greedy(token, n) ==
  /\ mode = "ok"
  /\ reply' \in [1 .. n -> Token]
  /\ \A i \in 1 .. n :
       reply'[i] = Predict(history \o <<token>> \o SubSeq(reply', 1, i - 1))
  /\ history' = history \o <<token>> \o SubSeq(reply', 1, n - 1)
  /\ UNCHANGED mode

Fail == mode' = "failed" /\ history' = <<>> /\ UNCHANGED reply

Reset == mode' = "ok" /\ history' = <<>> /\ UNCHANGED reply

Tear ==
  /\ mode = "ok"
  /\ mode' = "torn" /\ history' = <<>>
  /\ UNCHANGED reply

AnswerTorn == mode = "torn" /\ reply' \in Answers /\ UNCHANGED <<history, mode>>

Next ==
  \/ \E tokens \in Requests : Consume(tokens)
  \/ \E token \in Token, n \in 1 .. Capacity : Greedy(token, n)
  \/ Fail
  \/ Reset
  \/ Tear
  \/ AnswerTorn

\* The log never outgrows the context it was created for.
Bounded == Len(history) <= Capacity

Spec == Init /\ [][Next]_logVars /\ []Bounded
=============================================================================
