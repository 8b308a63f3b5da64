--------------------------- MODULE Qwen35Executor ---------------------------
(***************************************************************************)
(* The CUDA executor of one session: prefill by chunks, decode by eager    *)
(* launches or by replaying a captured graph, greedy decode that keeps     *)
(* token and position on the device, and reset.  The caller's thread runs  *)
(* one call at a time; a call is a sequence of steps, each of which may    *)
(* fail after having changed part of the device state.                     *)
(*                                                                         *)
(* What the layers compute is abstracted: a cache cell holds the token it  *)
(* was written for, the linear-attention state is the sequence of tokens   *)
(* folded into it, and the logits are the two contexts they were computed  *)
(* from.  Argmax turns logits into the next token.                         *)
(***************************************************************************)
EXTENDS DecodePlan, BoundedSeq

CONSTANTS
  Token,          \* the vocabulary
  Blank,          \* content of a zeroed cell
  ContextLength,  \* context_length of the model, at least MaxContext
  ChunkSizes,     \* token buckets with matmul plans: {1, 2, 4, 17, 128, 512}
  DecodeGraph,    \* the resolved policy allows decode graphs
  Argmax(_)       \* the token a logits vector selects

ASSUME ExecutorAssumption ==
  /\ Token # {}
  /\ Blank \notin Token
  /\ ContextLength \in Nat /\ ContextLength >= MaxContext
  /\ ChunkSizes \subseteq Nat \ {0} /\ 1 \in ChunkSizes
  /\ DecodeGraph \in BOOLEAN

ASSUME ArgmaxAssumption ==
  \A c \in UpTo(MaxContext, Token \union {Blank}), s \in UpTo(MaxContext, Token) :
    Argmax([cache |-> c, recurrent |-> s]) \in Token

VARIABLES
  position,        \* position_
  poisoned,        \* poisoned_
  trace,           \* trace_enabled_
  replayed,        \* decode_graph_replayed_
  captured,        \* graph variants that hold an instantiated graph
  devicePosition,  \* *device_decode_position_
  deviceToken,     \* *device_decode_token_
  deviceResults,   \* device_decode_results_
  kvCache,         \* key/value cache of the full-attention layers
  recurrent,       \* convolution and recurrent state of the linear layers
  logits,          \* logits_
  torn,            \* history: a reset failed and none has succeeded since
  pc,              \* step the current call is at
  op,              \* the current call
  input,           \* tokens still to be fed by the host, in order
  at,              \* position of the next token of the call
  left,            \* tokens the call still has to consume
  from,            \* position of the first token of the current replay run
  out              \* tokens the call has produced for the caller

device == <<devicePosition, deviceToken, deviceResults, kvCache, recurrent, logits>>
frame  == <<op, input, at, left, from, out>>
execVars == <<position, poisoned, trace, replayed, captured, device, torn, pc, frame>>

NoToken == Blank
BlankCache == [p \in Position |-> Blank]
NoLogits == [cache |-> <<>>, recurrent |-> <<>>]

InitExecutor ==
  /\ position = 0
  /\ poisoned = FALSE
  /\ trace = FALSE
  /\ replayed = FALSE
  /\ captured = {}
  /\ devicePosition = 0
  /\ deviceToken = NoToken
  /\ deviceResults = BlankCache
  /\ kvCache = BlankCache
  /\ recurrent = <<>>
  /\ logits = NoLogits
  /\ torn = FALSE
  /\ pc = "idle"
  /\ op = "none"
  /\ input = <<>>
  /\ at = 0
  /\ left = 0
  /\ from = 0
  /\ out = <<>>

-----------------------------------------------------------------------------
(* What a chunk of tokens does to the device state *)

Written(cache, p, tokens) ==
  [q \in Position |-> IF q \in p .. p + Len(tokens) - 1
                      THEN tokens[q - p + 1] ELSE cache[q]]

\* The last token of a chunk that ends before position `end` attends to the
\* cells below `end` and to the recurrent state.
LogitsOver(cache, end, state) ==
  [cache |-> [i \in 1 .. end |-> cache[i - 1]], recurrent |-> state]

\* run_chunk: every layer consumes the tokens at their positions.
RunChunk(p, tokens) ==
  /\ kvCache' = Written(kvCache, p, tokens)
  /\ recurrent' = recurrent \o tokens

\* A chunk that stops half way: some layers have consumed it, some have not.
PartOfChunk(p, tokens) ==
  /\ kvCache' \in {kvCache, Written(kvCache, p, tokens)}
  /\ recurrent' \in {recurrent, recurrent \o tokens}

Chunk(n) == CHOOSE c \in ChunkSizes :
              c <= n /\ \A d \in ChunkSizes : d <= n => d <= c

-----------------------------------------------------------------------------
(* Graph variants *)

CanReplay(p)  == ~trace /\ DecodeGraph /\ VariantIndex[p] \in captured
CanCapture(p) == ~trace /\ DecodeGraph /\ VariantIndex[p] \notin captured

-----------------------------------------------------------------------------
(* prefill *)

\* validate_request and ensure_healthy: outside the guarded region, so a
\* refused call changes nothing.
Accepts(n) == /\ pc = "idle"
              /\ n > 0 /\ n <= ContextLength - position
              /\ ~poisoned

Begin(name, step, tokens, n) ==
  /\ op' = name
  /\ pc' = step
  /\ input' = tokens
  /\ at' = position
  /\ left' = n
  /\ from' = position
  /\ out' = <<>>
  /\ UNCHANGED <<position, poisoned, trace, replayed, captured, device, torn>>

Prefill(tokens) ==
  /\ Accepts(Len(tokens))
  /\ Begin("prefill", "chunk", tokens, Len(tokens))

\* Mutation: the first chunk computes the logits.
MutProducesLogits(n) == at = from

ProducesLogits(n) == n = left

\* One round of the chunk loop; only the last chunk computes logits, and the
\* position moves once the loop is over.
PrefillChunk ==
  LET n == Chunk(left)
      chunk == SubSeq(input, 1, n)
  IN  /\ pc = "chunk"
      /\ RunChunk(at, chunk)
      /\ at' = at + n
      /\ left' = left - n
      /\ input' = SubSeq(input, n + 1, Len(input))
      /\ logits' = IF ProducesLogits(n)
                      THEN LogitsOver(kvCache', at + n, recurrent') ELSE logits
      /\ IF n = left
           THEN /\ out' = <<Argmax(logits')>>
                /\ position' = at + n
                /\ pc' = "sync"
           ELSE UNCHANGED <<out, position, pc>>
      /\ UNCHANGED <<poisoned, trace, replayed, captured, devicePosition,
                     deviceToken, deviceResults, torn, op, from>>

\* Mutation: the position after the next token.
MutPrefillSync ==
  /\ pc = "sync"
  /\ devicePosition' = position + 1
  /\ pc' = "returned"
  /\ UNCHANGED <<position, poisoned, trace, replayed, captured, deviceToken,
                 deviceResults, kvCache, recurrent, logits, torn, frame>>

PrefillSync ==
  /\ pc = "sync"
  /\ devicePosition' = position
  /\ pc' = "returned"
  /\ UNCHANGED <<position, poisoned, trace, replayed, captured, deviceToken,
                 deviceResults, kvCache, recurrent, logits, torn, frame>>

-----------------------------------------------------------------------------
(* decode and decode_greedy *)

Decode(token) ==
  /\ Accepts(1)
  /\ Begin("decode", "dispatch", <<token>>, 1)

DecodeGreedy(token, n) ==
  /\ Accepts(1)
  /\ n > 0 /\ n <= MaxContext - position
  /\ Begin("greedy", "dispatch", <<token>>, n)

\* Both calls first ask whether the variant at the position can be replayed.
\* A greedy call whose first step ran eagerly asks again here for the second.
Dispatch ==
  /\ pc = "dispatch"
  /\ at < MaxContext
  /\ pc' = IF CanReplay(at) THEN "upload" ELSE "eager"
  /\ UNCHANGED <<position, poisoned, trace, replayed, captured, device, torn, frame>>

DecodeEager ==
  /\ pc = "eager"
  /\ RunChunk(at, input)
  /\ logits' = LogitsOver(kvCache', at + 1, recurrent')
  /\ out' = Append(out, Argmax(logits'))
  /\ input' = <<Argmax(logits')>>
  /\ position' = at + 1
  /\ at' = at + 1
  /\ left' = left - 1
  /\ pc' = "prepare"
  /\ UNCHANGED <<poisoned, trace, replayed, captured, devicePosition,
                 deviceToken, deviceResults, torn, op, from>>

\* Mutation: a graph captured by an earlier run is taken as ready.
MutPrepareNext ==
  /\ pc = "prepare"
  /\ IF position < MaxContext /\ CanCapture(position)
       THEN /\ captured' = captured \union {VariantIndex[position]}
            /\ devicePosition' = position
       ELSE UNCHANGED <<captured, devicePosition>>
  /\ pc' = IF left = 0 THEN "returned" ELSE "dispatch"
  /\ UNCHANGED <<position, poisoned, trace, replayed, deviceToken,
                 deviceResults, kvCache, recurrent, logits, torn, frame>>

\* After an eager step the graph of the next position is made ready: captured
\* now, or, if an earlier run captured it, given the device position it needs.
PrepareNext ==
  /\ pc = "prepare"
  /\ IF position < MaxContext /\ CanCapture(position)
       THEN /\ captured' = captured \union {VariantIndex[position]}
            /\ devicePosition' = position
     ELSE IF position < MaxContext /\ DecodeGraph
               /\ VariantIndex[position] \in captured
       THEN devicePosition' = position /\ UNCHANGED captured
     ELSE UNCHANGED <<captured, devicePosition>>
  /\ pc' = IF left = 0 THEN "returned" ELSE "dispatch"
  /\ UNCHANGED <<position, poisoned, trace, replayed, deviceToken,
                 deviceResults, kvCache, recurrent, logits, torn, frame>>

UploadToken ==
  /\ pc = "upload"
  /\ deviceToken' = Head(input)
  /\ from' = at
  /\ pc' = "replay"
  /\ UNCHANGED <<position, poisoned, trace, replayed, captured, devicePosition,
                 deviceResults, kvCache, recurrent, logits, torn, op, input, at,
                 left, out>>

\* Mutation: captures the variant the run started in.
MutCaptureInRun ==
  /\ pc = "replay" /\ left > 0
  /\ at < MaxContext
  /\ CanCapture(at)
  /\ captured' = captured \union {VariantIndex[from]}
  /\ devicePosition' = at
  /\ UNCHANGED <<position, poisoned, trace, replayed, deviceToken,
                 deviceResults, kvCache, recurrent, logits, torn, pc, frame>>

\* A greedy run that crosses into a variant nobody captured captures it first.
CaptureInRun ==
  /\ pc = "replay" /\ left > 0
  /\ at < MaxContext
  /\ CanCapture(at)
  /\ captured' = captured \union {VariantIndex[at]}
  /\ devicePosition' = at
  /\ UNCHANGED <<position, poisoned, trace, replayed, deviceToken,
                 deviceResults, kvCache, recurrent, logits, torn, pc, frame>>

\* A replay knows nothing of the host: token and position are the device's,
\* and the last node of the graph stores the result, feeds it back and moves
\* the device position.
Replay ==
  /\ pc = "replay" /\ left > 0
  /\ at < MaxContext
  /\ CanReplay(at)
  /\ RunChunk(devicePosition, <<deviceToken>>)
  /\ logits' = LogitsOver(kvCache', devicePosition + 1, recurrent')
  /\ deviceResults' = [deviceResults EXCEPT ![devicePosition] = Argmax(logits')]
  /\ deviceToken' = Argmax(logits')
  /\ devicePosition' = devicePosition + 1
  /\ at' = at + 1
  /\ left' = left - 1
  /\ UNCHANGED <<position, poisoned, trace, replayed, captured, torn, pc, op,
                 input, from, out>>

\* Mutation: the result buffer is read from its start.
MutRunResults == [i \in 1 .. at - from |-> deviceResults[i - 1]]

RunResults == [i \in 1 .. at - from |-> deviceResults[from + i - 1]]

\* decode downloads the argmax result, decode_greedy the results of its run.
Download ==
  /\ pc = "replay" /\ left = 0
  /\ out' = out \o IF op = "decode" THEN <<Argmax(logits)>> ELSE RunResults
  /\ position' = at
  /\ replayed' = TRUE
  /\ pc' = "returned"
  /\ UNCHANGED <<poisoned, trace, captured, device, torn, op, input, at, left, from>>

-----------------------------------------------------------------------------
(* Failures: the exception leaves the call and the executor is poisoned *)

\* Mutation: the exception passes without poisoning the executor.
MutThrow ==
  /\ pc' = "threw"
  /\ UNCHANGED <<position, poisoned, trace, replayed, captured, torn, frame>>

Throw ==
  /\ poisoned' = TRUE
  /\ pc' = "threw"
  /\ UNCHANGED <<position, trace, replayed, captured, torn, frame>>

FailInChunk ==
  /\ pc = "chunk"
  /\ PartOfChunk(at, SubSeq(input, 1, Chunk(left)))
  /\ Throw
  /\ UNCHANGED <<devicePosition, deviceToken, deviceResults, logits>>

FailInEager ==
  /\ pc = "eager"
  /\ PartOfChunk(at, input)
  /\ Throw
  /\ UNCHANGED <<devicePosition, deviceToken, deviceResults, logits>>

FailInReplay ==
  /\ pc = "replay" /\ left > 0
  /\ PartOfChunk(devicePosition, <<deviceToken>>)
  /\ Throw
  /\ UNCHANGED <<devicePosition, deviceToken, deviceResults, logits>>

\* The upload of the position, or the capture behind it, fails: the position
\* may have arrived.
FailInSync ==
  /\ pc \in {"sync", "prepare"}
  /\ devicePosition' \in {devicePosition, position}
  /\ Throw
  /\ UNCHANGED <<deviceToken, deviceResults, kvCache, recurrent, logits>>

\* Token upload and result download; dispatch when the position has no variant.
FailInTransfer ==
  /\ \/ pc = "upload"
     \/ pc = "replay" /\ left = 0
     \/ pc \in {"dispatch", "replay"} /\ at >= MaxContext
  /\ Throw
  /\ UNCHANGED device

-----------------------------------------------------------------------------
(* reset, trace *)

Cleared(cleanCache, cleanState, cleanPosition) ==
  /\ kvCache' = IF cleanCache THEN BlankCache ELSE kvCache
  /\ recurrent' = IF cleanState THEN <<>> ELSE recurrent
  /\ devicePosition' = IF cleanPosition THEN 0 ELSE devicePosition
  /\ UNCHANGED <<deviceToken, deviceResults>>

\* The captured graphs survive a reset.  So do the old logits, which must not
\* be read any more and are not told apart from none.
Reset ==
  /\ pc = "idle"
  /\ Cleared(TRUE, TRUE, TRUE)
  /\ logits' = NoLogits
  /\ position' = 0
  /\ poisoned' = FALSE
  /\ replayed' = FALSE
  /\ torn' = FALSE
  /\ UNCHANGED <<trace, captured, pc, frame>>

\* Mutation: the poison flag is lowered before the memsets.
MutResetFails ==
  /\ pc = "idle"
  /\ Cleared(TRUE, FALSE, FALSE) /\ torn' = TRUE
  /\ poisoned' = FALSE
  /\ UNCHANGED <<position, trace, replayed, captured, logits, pc, frame>>

\* The memsets run in order; the one that fails ends the reset, and neither
\* the position nor the poison flag has been touched.
ResetFails ==
  /\ pc = "idle"
  /\ \/ Cleared(FALSE, FALSE, FALSE) /\ UNCHANGED torn
     \/ Cleared(TRUE, FALSE, FALSE) /\ torn' = TRUE
     \/ Cleared(TRUE, TRUE, FALSE) /\ torn' = TRUE
     \/ Cleared(TRUE, TRUE, TRUE) /\ torn' = TRUE
  /\ UNCHANGED <<position, poisoned, trace, replayed, captured, logits, pc, frame>>

EnableTrace ==
  /\ pc = "idle"
  /\ trace' = ~trace
  /\ UNCHANGED <<position, poisoned, replayed, captured, device, torn, pc, frame>>

-----------------------------------------------------------------------------

\* Steps of a call in progress.
ExecutorStep ==
  \/ PrefillChunk \/ PrefillSync
  \/ Dispatch \/ DecodeEager \/ PrepareNext
  \/ UploadToken \/ CaptureInRun \/ Replay \/ Download

ExecutorFailure ==
  \/ FailInChunk \/ FailInEager \/ FailInReplay
  \/ FailInSync \/ FailInTransfer

\* The call is over and its local variables are gone.  What it left in the
\* device token and result buffers is not told apart: a later call that read
\* it, instead of what it wrote there itself, would find Blank.
EndCall ==
  /\ pc' = "idle"
  /\ op' = "none"
  /\ input' = <<>>
  /\ at' = 0 /\ left' = 0 /\ from' = 0
  /\ out' = <<>>
  /\ deviceToken' = Blank
  /\ deviceResults' = BlankCache
  /\ UNCHANGED <<position, poisoned, trace, replayed, captured, torn,
                 devicePosition, kvCache, recurrent, logits>>

-----------------------------------------------------------------------------
(* Properties *)

Logits == [cache : UpTo(MaxContext, Token \union {Blank}),
           recurrent : UpTo(MaxContext, Token)]

Steps == {"idle", "chunk", "sync", "dispatch", "eager", "prepare", "upload",
          "replay", "returned", "threw"}

ExecutorTypeOK ==
  /\ position \in 0 .. MaxContext
  /\ poisoned \in BOOLEAN
  /\ trace \in BOOLEAN
  /\ replayed \in BOOLEAN
  /\ captured \subseteq Variants
  /\ devicePosition \in 0 .. MaxContext
  /\ deviceToken \in Token \union {Blank}
  /\ deviceResults \in [Position -> Token \union {Blank}]
  /\ kvCache \in [Position -> Token \union {Blank}]
  /\ recurrent \in UpTo(MaxContext, Token)
  /\ logits \in Logits
  /\ torn \in BOOLEAN
  /\ pc \in Steps
  /\ op \in {"none", "prefill", "decode", "greedy"}
  /\ input \in UpTo(MaxContext, Token)
  /\ at \in 0 .. MaxContext
  /\ left \in 0 .. MaxContext
  /\ from \in 0 .. MaxContext
  /\ out \in UpTo(MaxContext, Token \union {Blank})

\* The executor vouches for its device state: no call failed since the last
\* reset, and no reset stopped half way.
Trusted == ~poisoned /\ ~torn

\* Tokens consumed so far, the call in progress included.
Consumed == IF pc = "idle" THEN position ELSE at

\* A call never runs past the session's context, whatever the model's own
\* context length is.
StaysInContext == at + left <= MaxContext

\* The two kinds of layer state always stand for the same tokens: the cache
\* holds in its first cells, and nowhere else, what the linear layers have
\* folded in, and that is as many tokens as host bookkeeping says.
LayersAgree ==
  Trusted => /\ Len(recurrent) = Consumed
             /\ kvCache = [p \in Position |->
                            IF p < Consumed THEN recurrent[p + 1] ELSE Blank]

\* Whenever a graph may be launched, the position it will read on the device
\* is the position the host means.
ReplayPositionAgrees ==
  Trusted /\ pc = "replay" => devicePosition = at

\* Logits that can be read (copy_last_logits) are those of the last token
\* consumed, over the whole context.
LogitsAreCurrent ==
  (Trusted /\ pc \in {"idle", "returned"} /\ position > 0) =>
     logits = LogitsOver(kvCache, position, recurrent)

\* ensure_healthy: an executor that is not poisoned may be reused as it is.
HealthyStateIsWhole ==
  (pc = "idle" /\ ~poisoned) => Len(recurrent) = position

\* Once poisoned, only a completed reset makes the executor usable again: the
\* flag falls only together with every piece of per-sequence state.
PoisonHoldsUntilReset ==
  [][poisoned /\ ~poisoned' =>
       /\ position' = 0 /\ devicePosition' = 0
       /\ kvCache' = BlankCache /\ recurrent' = <<>>]_execVars

\* A call that was accepted returns or throws.
CallsEnd == (pc # "idle") ~> (pc = "idle")

-----------------------------------------------------------------------------
(* The inductive invariant behind these properties *)

\* The local variables of a call at each of its steps.
FrameOK ==
  /\ pc = "idle" => at = 0 /\ left = 0
  /\ pc = "chunk" => left > 0 /\ Len(input) = left /\ out = <<>>
  /\ pc \in {"dispatch", "eager", "upload"} => left > 0
  /\ pc \in {"dispatch", "eager", "upload", "prepare"} => Len(input) = 1
  /\ pc \in {"sync", "dispatch", "eager", "prepare", "upload", "returned"} =>
       at = position
  /\ pc \in {"sync", "returned"} => left = 0
  /\ pc = "replay" => from <= at /\ at - from + left > 0 /\ deviceToken \in Token
  /\ pc \notin {"idle", "threw"} => ~poisoned
  /\ pc = "threw" => poisoned
  /\ StaysInContext
  /\ pc \in {"dispatch", "eager", "upload", "prepare"} =>
       Len(out) + left <= MaxContext
  /\ pc = "replay" => Len(out) + (at - from) + left <= MaxContext

\* Without poison the device has never consumed more than the host counts.
DeviceNeverAhead ==
  ~poisoned => devicePosition <= Consumed /\ Len(recurrent) <= Consumed

\* The device position is right wherever a captured graph could be replayed
\* next: this is what makes a later replay start at the host's position.
ReadyToReplay ==
  /\ (/\ Trusted /\ pc \in {"idle", "returned", "dispatch"}
      /\ DecodeGraph /\ position < MaxContext
      /\ VariantIndex[position] \in captured) => devicePosition = position
  /\ (Trusted /\ pc \in {"upload", "replay"}) => devicePosition = at

\* The logits follow every step but those inside a prefill.
LogitsFollow ==
  (Trusted /\ pc # "chunk" /\ Consumed > 0) =>
     logits = LogitsOver(kvCache, Consumed, recurrent)

ExecInv ==
  /\ ExecutorTypeOK
  /\ FrameOK
  /\ DeviceNeverAhead
  /\ LayersAgree
  /\ ReadyToReplay
  /\ LogitsFollow
=============================================================================
