----------------------------- MODULE Generation -----------------------------
(***************************************************************************)
(* The runtime's two programs over a session: the generation loop and the  *)
(* benchmark.  They own the session while they run; before and after, its  *)
(* owner may have used it in any way.  The session is the abstract token   *)
(* log, so each call is one step that answers, is refused, or fails.       *)
(***************************************************************************)
EXTENDS BoundedSeq

CONSTANTS
  Token,
  Capacity,    \* context_tokens, with which the session was created as well
  Answers,     \* answers of a session after a failed reset
  Predict(_),  \* the model: the next token after a log
  StopToken,   \* tokens for which is_stop_token holds
  Warmups,     \* warmup_iterations
  Measured     \* measured_iterations

ASSUME GenerationAssumption ==
  /\ Capacity \in Nat \ {0}
  /\ StopToken \subseteq Token
  /\ Warmups \in Nat \ {0} /\ Measured \in Nat \ {0}

ASSUME PredictAssumption ==
  \A log \in UpTo(Capacity, Token) \ {<<>>} : Predict(log) \in Token

VARIABLES
  history, mode, reply,  \* the session
  pc,                    \* the call the program makes next
  program,               \* "generate" or "benchmark"
  prompt,                \* prompt_tokens
  maxNew,                \* max_new_tokens, or generated_tokens of a benchmark
  generated,             \* tokens collected so far
  iteration,             \* iterations of the benchmark completed
  timings,               \* measurements taken
  outcome                \* how the program ended

Log == INSTANCE TokenLog

logVars == <<history, mode, reply>>
frame == <<program, prompt, maxNew>>
vars == <<logVars, pc, frame, generated, iteration, timings, outcome>>

TypeOK ==
  /\ history \in UpTo(Capacity, Token)
  /\ mode \in {"ok", "failed", "torn"}
  /\ pc \in {"idle", "reset", "prefill", "loop", "decode", "greedy", "done"}
  /\ program \in {"none", "generate", "benchmark"}
  /\ prompt \in UpTo(Capacity + 1, Token)
  /\ maxNew \in 0 .. Capacity + 1
  /\ generated \in UpTo(maxNew, Token)
  /\ iteration \in 0 .. Warmups + Measured
  /\ timings \in 0 .. Measured
  /\ outcome \in {"none", "ok", "invalid_input", "refused", "failed"}

Init ==
  /\ Log!Init
  /\ pc = "idle"
  /\ program = "none"
  /\ prompt = <<>>
  /\ maxNew = 0
  /\ generated = <<>>
  /\ iteration = 0
  /\ timings = 0
  /\ outcome = "none"

-----------------------------------------------------------------------------
(* Starting *)

\* Bound: prompts and requests at most one token longer than the context.
Prompts == UpTo(Capacity + 1, Token)
Lengths == 0 .. Capacity + 1

Start(name, tokens, n, step) ==
  /\ program' = name
  /\ prompt' = tokens
  /\ maxNew' = n
  /\ pc' = step
  /\ UNCHANGED <<logVars, generated, iteration, timings>>

\* Mutation: only the prompt is compared with the context.
MutFits(tokens, n) == n > 0 /\ tokens # <<>> /\ Len(tokens) <= Capacity

\* The checks of generate_token_ids, all made before the session is touched.
Fits(tokens, n) == n > 0 /\ tokens # <<>> /\ Len(tokens) + n <= Capacity

Generate(tokens, n) ==
  /\ Fits(tokens, n)
  /\ Start("generate", tokens, n, "reset")
  /\ UNCHANGED outcome

GenerateInvalid(tokens, n) ==
  /\ ~Fits(tokens, n)
  /\ Start("generate", tokens, n, "done")
  /\ outcome' = "invalid_input"

\* benchmark_session does not know the context: the session may refuse.
Benchmark(tokens, n) ==
  /\ n > 0 /\ tokens # <<>>
  /\ Start("benchmark", tokens, n, "reset")
  /\ UNCHANGED outcome

BenchmarkInvalid(tokens, n) ==
  /\ n = 0 \/ tokens = <<>>
  /\ Start("benchmark", tokens, n, "done")
  /\ outcome' = "invalid_input"

-----------------------------------------------------------------------------
(* Calls *)

Result == reply[Len(reply)]

\* Mutation: a benchmark resets the session once.
MutResetSession ==
  /\ pc = "reset"
  /\ IF iteration = 0 THEN Log!Reset ELSE UNCHANGED logVars
  /\ pc' = "prefill"
  /\ UNCHANGED <<frame, generated, iteration, timings, outcome>>

\* Mutation: a session that is in order is not reset.
MutResetWhenFailed ==
  /\ pc = "reset"
  /\ IF mode = "ok" THEN UNCHANGED logVars ELSE Log!Reset
  /\ pc' = "prefill"
  /\ UNCHANGED <<frame, generated, iteration, timings, outcome>>

ResetSession ==
  /\ pc = "reset"
  /\ Log!Reset
  /\ pc' = "prefill"
  /\ UNCHANGED <<frame, generated, iteration, timings, outcome>>

\* The session's own check of what a call asks for.
Room(n) == n <= Capacity - Len(history)

PrefillPrompt ==
  /\ pc = "prefill"
  /\ Room(Len(prompt))
  /\ Log!Consume(prompt)
  /\ pc' = IF program = "generate" THEN "loop" ELSE "greedy"
  /\ UNCHANGED <<frame, generated, iteration, timings, outcome>>

\* Mutation: the last token is decoded too.
MutMoreToDecode == Len(generated) < maxNew

MoreToDecode == Len(generated) + 1 < maxNew

\* Mutation: a token is collected before it is looked at.
MutTakeResult ==
  /\ pc = "loop"
  /\ generated' = Append(generated, Result)
  /\ IF Result \notin StopToken /\ MoreToDecode
       THEN pc' = "decode" /\ UNCHANGED outcome
       ELSE pc' = "done" /\ outcome' = "ok"
  /\ UNCHANGED <<logVars, frame, iteration, timings>>

\* A round of the loop up to the next call: a stop token is not collected, and
\* the last token is not decoded.
TakeResult ==
  /\ pc = "loop"
  /\ generated' = IF Result \in StopToken THEN generated
                  ELSE Append(generated, Result)
  /\ IF Result \notin StopToken /\ MoreToDecode
       THEN pc' = "decode" /\ UNCHANGED outcome
       ELSE pc' = "done" /\ outcome' = "ok"
  /\ UNCHANGED <<logVars, frame, iteration, timings>>

DecodeResult ==
  /\ pc = "decode"
  /\ Room(1)
  /\ Log!Consume(<<Result>>)
  /\ pc' = "loop"
  /\ UNCHANGED <<frame, generated, iteration, timings, outcome>>

\* Mutation: warmup iterations are not counted.
MutDecodeBatch ==
  /\ pc = "greedy"
  /\ Room(maxNew)
  /\ Log!Greedy(Result, maxNew)
  /\ iteration' = IF iteration >= Warmups THEN iteration + 1 ELSE iteration
  /\ timings' = IF iteration >= Warmups THEN timings + 1 ELSE timings
  /\ IF iteration' = Warmups + Measured
       THEN pc' = "done" /\ outcome' = "ok"
       ELSE pc' = "reset" /\ UNCHANGED outcome
  /\ UNCHANGED <<frame, generated>>

\* The timed batch of an iteration, and the end of the iteration.
DecodeBatch ==
  /\ pc = "greedy"
  /\ Room(maxNew)
  /\ Log!Greedy(Result, maxNew)
  /\ iteration' = iteration + 1
  /\ timings' = IF iteration >= Warmups THEN timings + 1 ELSE timings
  /\ IF iteration + 1 = Warmups + Measured
       THEN pc' = "done" /\ outcome' = "ok"
       ELSE pc' = "reset" /\ UNCHANGED outcome
  /\ UNCHANGED <<frame, generated>>

-----------------------------------------------------------------------------
(* Calls that do not answer *)

Asked == CASE pc = "prefill" -> Len(prompt)
           [] pc = "greedy"  -> maxNew
           [] OTHER          -> 1

GiveUp(how) ==
  /\ pc' = "done"
  /\ outcome' = how
  /\ UNCHANGED <<frame, generated, iteration, timings>>

\* The session refuses what it has no room for and, once it has failed,
\* everything.
Refused ==
  /\ pc \in {"prefill", "decode", "greedy"}
  /\ ~Room(Asked) \/ mode = "failed"
  /\ GiveUp("refused")
  /\ UNCHANGED logVars

CallFails ==
  /\ \/ pc \in {"prefill", "decode", "greedy"} /\ Room(Asked) /\ Log!Fail
     \/ pc = "reset" /\ (Log!Tear \/ UNCHANGED logVars)
  /\ GiveUp("failed")

\* The program has returned; its tokens are the caller's now.
Return ==
  /\ pc = "done"
  /\ pc' = "idle"
  /\ program' = "none" /\ prompt' = <<>> /\ maxNew' = 0
  /\ generated' = <<>>
  /\ iteration' = 0 /\ timings' = 0
  /\ outcome' = "none"
  /\ UNCHANGED logVars

\* The owner of the session uses it directly between two programs.
OtherUse ==
  /\ pc = "idle"
  /\ Log!Next
  /\ Log!Bounded'
  /\ UNCHANGED <<pc, frame, generated, iteration, timings, outcome>>

-----------------------------------------------------------------------------

Program ==
  \/ ResetSession \/ PrefillPrompt \/ TakeResult \/ DecodeResult \/ DecodeBatch
  \/ Refused \/ CallFails \/ Return

Next ==
  \/ /\ pc = "idle"
     /\ \E tokens \in Prompts, n \in Lengths :
          \/ Generate(tokens, n) \/ GenerateInvalid(tokens, n)
          \/ Benchmark(tokens, n) \/ BenchmarkInvalid(tokens, n)
  \/ Program
  \/ OtherUse

\* A program that runs goes on running; nobody has to start one.
Spec == Init /\ [][Next]_vars /\ WF_vars(Program)

-----------------------------------------------------------------------------
(* Properties *)

\* Each token follows from the prompt and the tokens before it.
IsGreedy(s) ==
  \A i \in 1 .. Len(s) : s[i] = Predict(prompt \o SubSeq(s, 1, i - 1))

NoStop(s) == \A i \in 1 .. Len(s) : s[i] \notin StopToken

\* What generate_token_ids returns is the greedy continuation of its prompt,
\* cut before the first stop token or at the length asked for, whatever the
\* session had been through before.
GreedyContinuation ==
  (program = "generate" /\ outcome = "ok") =>
     /\ IsGreedy(generated)
     /\ NoStop(generated)
     /\ \/ Len(generated) = maxNew
        \/ Predict(prompt \o generated) \in StopToken

\* A request that passed the checks is never refused by the session: there is
\* room for every call of the loop, and no earlier failure is left to answer
\* for.
ValidatedIsNeverRefused == program = "generate" => outcome # "refused"

\* A generation consumes its prompt and those tokens it needs to know the next
\* one for, and no other: the last token of a full generation is not decoded.
NoExtraDecode ==
  (program = "generate" /\ outcome = "ok") =>
     history = prompt \o SubSeq(generated, 1,
                 IF Len(generated) = maxNew THEN maxNew - 1 ELSE Len(generated))

\* Every iteration of a benchmark, warmup or measured, does the same work: it
\* decodes the tokens that follow the prompt's own prediction.
IterationsRepeat ==
  (program = "benchmark" /\ iteration > 0 /\ (pc = "reset" \/ outcome = "ok")) =>
     /\ Len(reply) = maxNew
     /\ IsGreedy(<<Predict(prompt)>> \o reply)

\* If a benchmark asks for more than the session holds, it is refused in its
\* first iteration; measurements are never cut short by a refusal.
RefusedAtOnce == outcome = "refused" => iteration = 0

\* Every program ends.
ProgramsEnd == (pc = "reset") ~> (pc = "idle")

-----------------------------------------------------------------------------
(* The inductive invariant behind these properties *)

Running == {"reset", "prefill", "loop", "decode", "greedy"}

\* The local variables of a program at each of its calls.
CallOK ==
  /\ pc # "done" => outcome = "none"
  /\ pc = "idle" => program = "none"
  /\ pc \in {"idle", "reset", "prefill", "greedy"} => generated = <<>>
  /\ pc \in {"idle", "loop", "decode"} => iteration = 0
  /\ pc \in {"loop", "decode"} => program = "generate"
  /\ pc = "greedy" => program = "benchmark"
  /\ pc \in Running =>
       /\ program # "none"
       /\ prompt # <<>> /\ maxNew > 0
       /\ program = "generate" => iteration = 0 /\ Fits(prompt, maxNew)
       /\ iteration < Warmups + Measured
  /\ iteration > 0 => Len(prompt) + maxNew <= Capacity
  /\ timings = IF iteration > Warmups THEN iteration - Warmups ELSE 0

\* What the session holds at each call is what this program has fed it since
\* its reset, and the session's last answer follows from just that.
FedByProgram ==
  /\ pc \in Running \ {"reset"} => mode = "ok"
  /\ pc = "prefill" => history = <<>>
  /\ pc = "greedy" => history = prompt
  /\ pc = "loop" => history = prompt \o generated
  /\ pc \in {"loop", "greedy"} => reply = <<Predict(history)>>
  /\ pc = "decode" =>
       /\ generated # <<>>
       /\ history = prompt \o SubSeq(generated, 1, Len(generated) - 1)
       /\ reply = <<generated[Len(generated)]>>
  /\ pc \in {"loop", "decode"} =>
       Len(generated) < maxNew /\ IsGreedy(generated) /\ NoStop(generated)

GenInv ==
  /\ TypeOK
  /\ CallOK
  /\ FedByProgram
  /\ GreedyContinuation
  /\ ValidatedIsNeverRefused
  /\ NoExtraDecode
  /\ IterationsRepeat
  /\ RefusedAtOnce
=============================================================================
