---------------------------- MODULE DeltaTuning ----------------------------
(***************************************************************************)
(* How the executor chooses a schedule of the gated delta kernels.  While  *)
(* it is constructed it runs, for each bucket that is tuned, the current   *)
(* schedule and a candidate in the session's own buffers and in the state  *)
(* of the first linear layer, compares what they left, times both, and     *)
(* remembers its choice; then everything is reset.  A chunk later looks    *)
(* its schedule up by its number of tokens.                                *)
(*                                                                         *)
(* Whether a candidate computes what the current schedule computes is a    *)
(* fact about the device, and how long a run takes is not up to the code.  *)
(***************************************************************************)
EXTENDS DeltaPolicy, Sequences, FiniteSets

CONSTANTS
  TunedBucket,   \* the buckets tuned, in order: 1, 128 and 512
  Chunk,         \* the numbers of tokens of chunks: kBuckets
  Context,       \* contexts sessions ask for
  Dim,           \* linear_head_dimension, of keys and of values
  LinearLayers,  \* numbers of linear layers
  Median,        \* medians
  SpeedupPercent \* kMeaningfulSpeedup

TunedAssumption == TunedBucket \in Seq(Chunk) /\ 1 \in Chunk
ChunkAssumption == Chunk \subseteq Nat \ {0}
SpeedupAssumption == SpeedupPercent \in 1..100
LayersAssumption == LinearLayers \subseteq Nat

VARIABLES
  layer,       \* dimension, context and number of linear layers
  right,       \* tuned buckets whose candidate computes the same
  step,        \* the step of tune_delta_schedule, or how construction ended
  recurrent,   \* the state of each linear layer: "zero", or the run that left it
  buffers,     \* what attention_out_ and mixer_projected_ hold
  downloaded,  \* host copies of the outputs and states of the two runs
  verdict,     \* the verdict and the medians so far
  diagnostics  \* gated_delta_schedule_diagnostics_

tuningVars == <<layer, right, step, recurrent, buffers, downloaded, verdict, diagnostics>>

-----------------------------------------------------------------------------
Shape == [keyDim |-> layer.dim, valueDim |-> layer.dim]

\* The tuned buckets a context reaches.
Reached == [c \in Context |-> SelectSeq(TunedBucket, LAMBDA b : b <= c)]
Todo == Reached[layer.context]
TrialBucket == Todo[Len(diagnostics) + 1]
AllTuned == Len(diagnostics) = Len(Todo)

CandidateFor(bucket) ==
  [Current EXCEPT !.schedule = IF bucket = 1 THEN "decode_sm120" ELSE "prefill_sm120"]

Supported == Shape.keyDim \in {SmallDim, LargeDim} /\ Shape.valueDim = Shape.keyDim

NoVerdict == [passed |-> FALSE, current |-> 0, candidate |-> 0]
NoCopies == [current |-> <<>>, candidate |-> <<>>]

TuningInit ==
  /\ layer \in [dim : Dim, context : Context, linear : LinearLayers]
  /\ right \in SUBSET {TunedBucket[i] : i \in DOMAIN TunedBucket}
  /\ step = "next"
  /\ recurrent = [l \in 1..layer.linear |-> "zero"]
  /\ buffers = [attention_out |-> <<>>, mixer_projected |-> <<>>]
  /\ downloaded = NoCopies
  /\ verdict = NoVerdict
  /\ diagnostics = <<>>

Proceed(p) == step' = p

\* What a diagnostic says when the candidate is not taken.
Kept(passed) == [bucket |-> TrialBucket, dims |-> Shape, schedule |-> "current", passed |-> passed]

Conclude(diagnostic) ==
  /\ diagnostics' = Append(diagnostics, diagnostic)
  /\ verdict' = NoVerdict /\ downloaded' = NoCopies
  /\ Proceed("next")

-----------------------------------------------------------------------------
(* Tuning *)

\* A model without linear layers, or of dimensions the candidates do not know,
\* is not tuned.
BeginBucket ==
  /\ step = "next" /\ ~AllTuned
  /\ IF layer.linear = 0 \/ ~Supported
     THEN Conclude(Kept(FALSE))
     ELSE Proceed("current") /\ UNCHANGED <<verdict, downloaded, diagnostics>>
  /\ UNCHANGED <<layer, right, recurrent, buffers>>

\* Mutation: the candidate starts from what the current schedule left.
MutCleared(policy) ==
  IF policy = Current THEN [recurrent EXCEPT ![1] = "zero"] ELSE recurrent

\* reset_delta_tuning_buffers
Cleared(policy) == [recurrent EXCEPT ![1] = "zero"]

\* run_delta_tuning_once: a run of the bucket leaves its mark in the state of
\* the first linear layer and in the output it is given.
After(policy, from) == <<"run", policy.schedule, TrialBucket, from>>

TrialRun(policy, target) ==
  /\ recurrent' = [Cleared(policy) EXCEPT ![1] = After(policy, Cleared(policy)[1])]
  /\ buffers' = [buffers EXCEPT ![target] = After(policy, Cleared(policy)[1])]

RunCurrent ==
  /\ step = "current"
  /\ TrialRun(Current, "attention_out")
  /\ Proceed("download")
  /\ UNCHANGED <<layer, right, downloaded, verdict, diagnostics>>

DownloadCurrent ==
  /\ step = "download"
  /\ downloaded' = [downloaded EXCEPT !.current = <<buffers.attention_out, recurrent[1]>>]
  /\ Proceed("candidate")
  /\ UNCHANGED <<layer, right, recurrent, buffers, verdict, diagnostics>>

RunCandidate ==
  /\ step = "candidate"
  /\ TrialRun(CandidateFor(TrialBucket), "mixer_projected")
  /\ Proceed("compare")
  /\ UNCHANGED <<layer, right, downloaded, verdict, diagnostics>>

\* close_enough, of two runs: the same run, or a candidate that is right for
\* the bucket, and both from the same state.
CloseEnough(a, b) ==
  /\ a[3] = b[3] /\ a[4] = b[4]
  /\ a[2] = b[2] \/ a[3] \in right

\* Outputs and states are compared float by float.
Compare ==
  /\ step = "compare"
  /\ LET candidate == <<buffers.mixer_projected, recurrent[1]>> IN
       /\ downloaded' = [downloaded EXCEPT !.candidate = candidate]
       /\ verdict' = [verdict EXCEPT !.passed =
            \A i \in 1..2 : CloseEnough(candidate[i], downloaded.current[i])]
  /\ Proceed("time")
  /\ UNCHANGED <<layer, right, recurrent, buffers, diagnostics>>

\* time_delta_policy clears the buffers before each of its runs.
TimeCurrent ==
  /\ step = "time"
  /\ TrialRun(Current, "attention_out")
  /\ \E median \in Median : verdict' = [verdict EXCEPT !.current = median]
  /\ Proceed(IF verdict.passed THEN "time_candidate" ELSE "decide")
  /\ UNCHANGED <<layer, right, downloaded, diagnostics>>

TimeCandidate ==
  /\ step = "time_candidate"
  /\ TrialRun(CandidateFor(TrialBucket), "attention_out")
  /\ \E median \in Median : verdict' = [verdict EXCEPT !.candidate = median]
  /\ Proceed("decide")
  /\ UNCHANGED <<layer, right, downloaded, diagnostics>>

\* A candidate is taken if it is right and meaningfully faster.
Decide ==
  /\ step = "decide"
  /\ Conclude(
       IF verdict.passed /\ verdict.candidate * 100 < verdict.current * SpeedupPercent
       THEN [Kept(TRUE) EXCEPT !.schedule = CandidateFor(TrialBucket).schedule]
       ELSE Kept(verdict.passed))
  /\ UNCHANGED <<layer, right, recurrent, buffers>>

\* Mutation: construction ends without a reset.
MutFinish ==
  /\ step = "next" /\ AllTuned
  /\ Proceed("ready")
  /\ UNCHANGED <<layer, right, recurrent, buffers, downloaded, verdict, diagnostics>>

\* The constructor's reset of every state.
Finish ==
  /\ step = "next" /\ AllTuned
  /\ recurrent' = [l \in DOMAIN recurrent |-> "zero"]
  /\ Proceed("ready")
  /\ UNCHANGED <<layer, right, buffers, downloaded, verdict, diagnostics>>

\* A launch, a copy, an event or the last reset fails, and with it the
\* construction.
Fail ==
  /\ step \notin {"ready", "failed"} /\ ~(step = "next" /\ ~AllTuned) /\ step # "decide"
  /\ Proceed("failed")
  /\ UNCHANGED <<layer, right, recurrent, buffers, downloaded, verdict, diagnostics>>

TuningNext ==
  \/ BeginBucket \/ RunCurrent \/ DownloadCurrent \/ RunCandidate \/ Compare
  \/ TimeCurrent \/ TimeCandidate \/ Decide \/ Finish \/ Fail

TuningSpec == TuningInit /\ [][TuningNext]_tuningVars

-----------------------------------------------------------------------------
(* Properties *)

\* Mutation: the diagnostic of the largest bucket within the tokens.
MutPolicyFor(tokens) ==
  LET reached == {i \in DOMAIN diagnostics : diagnostics[i].bucket <= tokens}
  IN IF reached = {} THEN Current
     ELSE [Current EXCEPT !.schedule =
            diagnostics[CHOOSE i \in reached : \A j \in reached : j <= i].schedule]

\* delta_policy_for_bucket: the first diagnostic of the bucket, or else the
\* current schedule.
PolicyFor(tokens) ==
  LET known == {i \in DOMAIN diagnostics :
                  diagnostics[i].bucket = tokens /\ diagnostics[i].dims = Shape}
  IN IF known = {} THEN Current
     ELSE [Current EXCEPT !.schedule =
            diagnostics[CHOOSE i \in known : \A j \in known : i <= j].schedule]

\* Whatever tuning found, the policy a chunk looks up passes the kernels' check
\* for its number of tokens: no chunk is refused half way through the layers.
ChunksAreAllowed ==
  step = "ready" => \A n \in Chunk : Allowed(PolicyFor(n), Shape, n)

\* A chunk is only run by a schedule that computes for its number of tokens
\* what the current one does.
ChunksAreRight ==
  step = "ready" => \A n \in Chunk : PolicyFor(n) # Current => n \in right

\* The verdict on a candidate is about the candidate: outputs and states of two
\* runs of the same input from the same state, each of its own schedule.
VerdictIsTrue ==
  \A i \in DOMAIN diagnostics :
    diagnostics[i].passed <=> layer.linear > 0 /\ Supported /\ diagnostics[i].bucket \in right

\* The session starts with the states of a fresh one, although tuning ran in
\* them.
StartsClean == step = "ready" => \A l \in DOMAIN recurrent : recurrent[l] = "zero"

TunedSchedulesServe == ChunksAreAllowed /\ ChunksAreRight /\ VerdictIsTrue /\ StartsClean
=============================================================================
