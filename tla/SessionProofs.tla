---------------------------- MODULE SessionProofs ---------------------------
(***************************************************************************)
(* The executor and the session on top of it, for every context length,    *)
(* vocabulary, chunk sizes and policy.                                     *)
(*                                                                         *)
(* The executor: what its operators compute, that each of its actions      *)
(* preserves ExecInv, and that ExecInv holds, and with it the properties   *)
(* the runs check, under any driver that keeps within the session context. *)
(*                                                                         *)
(* The session: its positions agree, its commits always fit, only calls    *)
(* that succeed commit, poison holds until a reset; and, with what a call  *)
(* has answered so far related to what it was asked, every step of it is a *)
(* step of a log of tokens, or none.                                       *)
(***************************************************************************)
EXTENDS Session, ExecutorDriver, BoundedSeqLemmas

-----------------------------------------------------------------------------
(* Bounded sequences *)

\* A sequence no longer than the context is one of them.
LEMMA SeqFits ==
  ASSUME NEW S, NEW s \in Seq(S), Len(s) <= MaxContext
  PROVE  s \in UpTo(MaxContext, S)
BY UpToIsSeq, DecodePlanAssumption

\* A chunk is never empty and never longer than what is left of the request.
LEMMA ChunkBounds ==
  ASSUME NEW n \in Nat, n > 0
  PROVE  Chunk(n) \in 1 .. n /\ Chunk(n) \in ChunkSizes
<1> DEFINE T == {n - c : c \in {d \in ChunkSizes : d <= n}}
<1>1. T \in SUBSET Nat /\ T # {}
  BY ExecutorAssumption
<1>2. PICK x \in T : \A y \in T : x <= y
  BY <1>1, LeastNatural
<1>3. PICK c \in ChunkSizes : c <= n /\ x = n - c
  BY <1>2
<1>4. \A d \in ChunkSizes : d <= n => d <= c
  <2> SUFFICES ASSUME NEW d \in ChunkSizes, d <= n PROVE d <= c
    OBVIOUS
  <2>1. n - d \in T
    OBVIOUS
  <2>2. n - c <= n - d
    BY <2>1, <1>2, <1>3
  <2> QED BY <2>2, ExecutorAssumption
<1>5. \E e \in ChunkSizes : e <= n /\ \A d \in ChunkSizes : d <= n => d <= e
  BY <1>3, <1>4
<1>6. Chunk(n) \in ChunkSizes /\ Chunk(n) <= n
  BY <1>5, Zenon DEF Chunk
<1>7. \A d \in ChunkSizes : d \in Nat /\ d > 0
  BY ExecutorAssumption
<1> QED BY <1>6, <1>7

-----------------------------------------------------------------------------
(* Logits and chunks *)

\* Every logits vector selects a token of the vocabulary.
LEMMA ArgmaxTyped ==
  ASSUME NEW l \in Logits
  PROVE  Argmax(l) \in Token
<1>1. l = [cache |-> l.cache, recurrent |-> l.recurrent]
  BY DEF Logits
<1>2. /\ l.cache \in UpTo(MaxContext, Token \union {Blank})
      /\ l.recurrent \in UpTo(MaxContext, Token)
  BY DEF Logits
<1>3. Argmax([cache |-> l.cache, recurrent |-> l.recurrent]) \in Token
  BY <1>2, ArgmaxAssumption
<1> QED BY <1>1, <1>3

\* Logits computed over a context that fits are well formed.
LEMMA LogitsTyped ==
  ASSUME NEW c \in [Position -> Token \union {Blank}],
         NEW e \in 0 .. MaxContext,
         NEW s \in UpTo(MaxContext, Token)
  PROVE  LogitsOver(c, e, s) \in Logits
<1>1. [i \in 1 .. e |-> c[i - 1]] \in [1 .. e -> Token \union {Blank}]
  BY DecodePlanAssumption DEF Position
<1>2. [i \in 1 .. e |-> c[i - 1]] \in UpTo(MaxContext, Token \union {Blank})
  BY <1>1 DEF UpTo
<1> QED BY <1>2 DEF LogitsOver, Logits

\* A cache stays a cache when tokens are written to it.
LEMMA WrittenTyped ==
  ASSUME NEW c \in [Position -> Token \union {Blank}],
         NEW p \in Nat, NEW t \in Seq(Token)
  PROVE  Written(c, p, t) \in [Position -> Token \union {Blank}]
BY DecodePlanAssumption DEF Written, Position

\* Tokens folded into a recurrent state that leaves room for them.
LEMMA FoldTyped ==
  ASSUME NEW r \in UpTo(MaxContext, Token), NEW t \in Seq(Token),
         Len(r) + Len(t) <= MaxContext
  PROVE  /\ r \o t \in UpTo(MaxContext, Token)
         /\ Len(r \o t) = Len(r) + Len(t)
<1>1. r \in Seq(Token)
  BY UpToIsSeq, DecodePlanAssumption
<1>2. r \o t \in Seq(Token) /\ Len(r \o t) = Len(r) + Len(t)
  BY <1>1, ConcatProperties
<1> QED BY <1>2, UpToIsSeq, DecodePlanAssumption

\* A chunk written right behind what has been consumed keeps the cache and the
\* recurrent state in step.
LEMMA ChunkKeepsLayers ==
  ASSUME NEW r \in Seq(Token), NEW t \in Seq(Token)
  PROVE  Written([p \in Position |-> IF p < Len(r) THEN r[p + 1] ELSE Blank],
                 Len(r), t)
           = [p \in Position |-> IF p < Len(r) + Len(t)
                                 THEN (r \o t)[p + 1] ELSE Blank]
<1>1. Len(r) \in Nat /\ Len(t) \in Nat
  BY LenProperties
<1>2. \A i \in 1 .. Len(r) + Len(t) :
        (r \o t)[i] = IF i <= Len(r) THEN r[i] ELSE t[i - Len(r)]
  BY ConcatProperties
<1>3. ASSUME NEW p \in Position
      PROVE  (IF p \in Len(r) .. Len(r) + Len(t) - 1 THEN t[p - Len(r) + 1]
              ELSE IF p < Len(r) THEN r[p + 1] ELSE Blank)
               = IF p < Len(r) + Len(t) THEN (r \o t)[p + 1] ELSE Blank
  <2> DEFINE i == p + 1
  <2>1. p \in Nat /\ i \in Nat /\ p - Len(r) + 1 = i - Len(r)
    BY <1>1, DecodePlanAssumption DEF Position
  <2>2. i \in 1 .. Len(r) + Len(t) =>
          (r \o t)[i] = IF i <= Len(r) THEN r[i] ELSE t[i - Len(r)]
    BY <1>2, Zenon
  <2>3. CASE p < Len(r)
    <3>1. i \in 1 .. Len(r) + Len(t) /\ i <= Len(r)
      BY <1>1, <2>1, <2>3
    <3>2. (r \o t)[i] = r[i]
      BY <2>2, <3>1, Zenon
    <3> QED BY <1>1, <2>1, <2>3, <3>2
  <2>4. CASE p >= Len(r) /\ p < Len(r) + Len(t)
    <3>1. i \in 1 .. Len(r) + Len(t) /\ ~(i <= Len(r))
      BY <1>1, <2>1, <2>4
    <3>2. (r \o t)[i] = t[i - Len(r)]
      BY <2>2, <3>1, Zenon
    <3> QED BY <1>1, <2>1, <2>4, <3>2
  <2>5. CASE p >= Len(r) + Len(t)
    BY <1>1, <2>1, <2>5
  <2> QED BY <1>1, <2>1, <2>3, <2>4, <2>5
<1> QED BY <1>3 DEF Written

-----------------------------------------------------------------------------
(* Steps that leave the layers alone *)

\* The layers stay in step when neither they nor the count of consumed tokens
\* change and the executor vouches for no more than it did.
LEMMA SameLayers ==
  ASSUME LayersAgree, Trusted' => Trusted, Trusted' => Consumed' = Consumed,
         UNCHANGED <<kvCache, recurrent>>
  PROVE  LayersAgree'
<1> SUFFICES ASSUME Trusted'
             PROVE  /\ Len(recurrent') = Consumed'
                    /\ kvCache' = [p \in Position |-> IF p < Consumed'
                                     THEN recurrent'[p + 1] ELSE Blank]
  BY DEF LayersAgree
<1>1. Trusted /\ Consumed' = Consumed
  OBVIOUS
<1> QED BY <1>1 DEF LayersAgree

\* So do the logits.
LEMMA SameLogits ==
  ASSUME LogitsFollow, Trusted' => Trusted,
         Trusted' /\ pc' # "chunk" => Consumed' = Consumed /\ pc # "chunk",
         UNCHANGED <<kvCache, recurrent, logits>>
  PROVE  LogitsFollow'
<1> SUFFICES ASSUME Trusted', pc' # "chunk", Consumed' > 0
             PROVE  logits' = LogitsOver(kvCache', Consumed', recurrent')
  BY DEF LogitsFollow
<1>1. Trusted /\ pc # "chunk" /\ Consumed' = Consumed
  OBVIOUS
<1> QED BY <1>1 DEF LogitsFollow

\* A new executor satisfies the invariant.
LEMMA InitEstablishes == InitExecutor => ExecInv
<1> SUFFICES ASSUME InitExecutor PROVE ExecInv
  OBVIOUS
<1> USE DecodePlanAssumption
<1>1. <<>> \in UpTo(MaxContext, Token) /\ <<>> \in UpTo(MaxContext, Token \union {Blank})
  BY EmptyFits
<1>2. ExecutorTypeOK
  <2>1. NoLogits \in Logits
    BY <1>1 DEF Logits, NoLogits
  <2>2. BlankCache \in [Position -> Token \union {Blank}]
    BY DEF BlankCache
  <2>3. /\ position \in 0 .. MaxContext /\ devicePosition \in 0 .. MaxContext
        /\ at \in 0 .. MaxContext /\ left \in 0 .. MaxContext
        /\ from \in 0 .. MaxContext
    BY DEF InitExecutor
  <2>4. /\ poisoned \in BOOLEAN /\ trace \in BOOLEAN /\ replayed \in BOOLEAN
        /\ torn \in BOOLEAN /\ captured \subseteq Variants /\ pc \in Steps
        /\ op \in {"none", "prefill", "decode", "greedy"}
    BY Zenon DEF InitExecutor, Steps
  <2> QED BY <1>1, <2>1, <2>2, <2>3, <2>4 DEF InitExecutor, ExecutorTypeOK, NoToken
<1>3. FrameOK
  BY DEF InitExecutor, FrameOK, StaysInContext
<1>4. DeviceNeverAhead
  BY DEF InitExecutor, DeviceNeverAhead, Consumed
<1>5. LayersAgree
  BY DEF InitExecutor, LayersAgree, Consumed, BlankCache, Position
<1>6. ReadyToReplay
  BY DEF InitExecutor, ReadyToReplay
<1>7. LogitsFollow
  BY DEF InitExecutor, LogitsFollow, Consumed
<1> QED BY <1>2, <1>3, <1>4, <1>5, <1>6, <1>7 DEF ExecInv

\* Accepting a call whose tokens fit the context.
LEMMA BeginKeeps ==
  ASSUME ExecInv, pc = "idle", ~poisoned,
         NEW name \in {"prefill", "decode", "greedy"},
         NEW step \in {"chunk", "dispatch"},
         NEW tokens \in UpTo(MaxContext, Token),
         NEW n \in 1 .. MaxContext,
         position + n <= MaxContext,
         step = "chunk" => Len(tokens) = n,
         step = "dispatch" => Len(tokens) = 1,
         Begin(name, step, tokens, n)
  PROVE  ExecInv'
<1> USE DecodePlanAssumption
<1>1. <<>> \in UpTo(MaxContext, Token \union {Blank}) /\ Len(<<>>) = 0
  BY EmptyFits
<1>2. ExecutorTypeOK'
  BY <1>1 DEF ExecInv, ExecutorTypeOK, Begin, device, Steps
<1>3. FrameOK'
  BY <1>1 DEF ExecInv, ExecutorTypeOK, Begin, FrameOK, StaysInContext
<1>4. Consumed' = Consumed /\ (Trusted' => Trusted)
  BY DEF Begin, Consumed, Trusted
<1>5. DeviceNeverAhead'
  BY <1>4 DEF ExecInv, Begin, device, DeviceNeverAhead
<1>6. LayersAgree'
  BY <1>4, SameLayers DEF ExecInv, Begin, device
<1>7. ReadyToReplay'
  BY DEF ExecInv, Begin, device, ReadyToReplay, Trusted
<1>8. LogitsFollow'
  BY <1>4, SameLogits DEF ExecInv, Begin, device
<1> QED BY <1>2, <1>3, <1>5, <1>6, <1>7, <1>8 DEF ExecInv

-----------------------------------------------------------------------------
(* Steps that feed tokens to the layers *)

\* The layer state stays well formed when a chunk that fits runs, wholly or
\* in part.
LEMMA ChunkTyped ==
  ASSUME ExecutorTypeOK, NEW p \in Nat, NEW t \in Seq(Token),
         Len(recurrent) + Len(t) <= MaxContext,
         RunChunk(p, t) \/ PartOfChunk(p, t)
  PROVE  /\ kvCache' \in [Position -> Token \union {Blank}]
         /\ recurrent' \in UpTo(MaxContext, Token)
         /\ Len(recurrent') <= Len(recurrent) + Len(t)
<1>1. kvCache \in [Position -> Token \union {Blank}] /\ recurrent \in UpTo(MaxContext, Token)
  BY DEF ExecutorTypeOK
<1>2. Written(kvCache, p, t) \in [Position -> Token \union {Blank}]
  BY <1>1, WrittenTyped
<1>3. /\ recurrent \o t \in UpTo(MaxContext, Token)
      /\ Len(recurrent \o t) = Len(recurrent) + Len(t)
  BY <1>1, FoldTyped
<1>4. Len(recurrent) \in Nat /\ Len(t) \in Nat
  BY <1>1, UpToIsSeq, LenProperties, DecodePlanAssumption
<1>5. kvCache' \in {kvCache, Written(kvCache, p, t)} /\ recurrent' \in {recurrent, recurrent \o t}
  BY DEF RunChunk, PartOfChunk
<1>6. kvCache' \in [Position -> Token \union {Blank}]
  BY <1>1, <1>2, <1>5, Zenon
<1>7. recurrent' \in UpTo(MaxContext, Token)
  BY <1>1, <1>3, <1>5, Zenon
<1>8. Len(recurrent') \in {Len(recurrent), Len(recurrent) + Len(t)}
  BY <1>3, <1>5, Zenon
<1> QED BY <1>4, <1>6, <1>7, <1>8

\* A chunk that runs at the position consumed so far keeps the layers in step.
LEMMA ChunkAgrees ==
  ASSUME ExecutorTypeOK, LayersAgree, Trusted, NEW t \in Seq(Token),
         RunChunk(Consumed, t)
  PROVE  /\ Len(recurrent') = Consumed + Len(t)
         /\ kvCache' = [q \in Position |-> IF q < Consumed + Len(t)
                          THEN recurrent'[q + 1] ELSE Blank]
<1>1. recurrent \in Seq(Token)
  BY UpToIsSeq, DecodePlanAssumption DEF ExecutorTypeOK
<1>2. /\ Len(recurrent) = Consumed
      /\ kvCache = [q \in Position |-> IF q < Len(recurrent)
                      THEN recurrent[q + 1] ELSE Blank]
  BY DEF LayersAgree
<1>3. recurrent' = recurrent \o t /\ kvCache' = Written(kvCache, Len(recurrent), t)
  BY <1>2 DEF RunChunk
<1>4. Len(recurrent') = Len(recurrent) + Len(t)
  BY <1>1, <1>3, ConcatProperties
<1>5. kvCache' = [q \in Position |-> IF q < Len(recurrent) + Len(t)
                    THEN (recurrent \o t)[q + 1] ELSE Blank]
  BY <1>1, <1>2, <1>3, ChunkKeepsLayers
<1> QED BY <1>2, <1>3, <1>4, <1>5

\* One round of the prefill loop.
LEMMA PrefillChunkKeeps ==
  ASSUME ExecInv, PrefillChunk
  PROVE  ExecInv'
<1> DEFINE n == Chunk(left)
           chunk == SubSeq(input, 1, n)
           rest == SubSeq(input, n + 1, Len(input))
<1> USE DecodePlanAssumption
<1>1. /\ pc = "chunk" /\ left > 0 /\ Len(input) = left /\ ~poisoned
      /\ out = <<>> /\ at + left <= MaxContext
      /\ at \in Nat /\ left \in Nat /\ input \in UpTo(MaxContext, Token)
  BY DEF ExecInv, ExecutorTypeOK, FrameOK, StaysInContext, PrefillChunk
<1>2. n \in 1 .. left
  BY <1>1, ChunkBounds
<1>3. input \in Seq(Token)
  BY <1>1, UpToIsSeq
<1>4. chunk \in Seq(Token) /\ Len(chunk) = n
  BY <1>1, <1>2, <1>3, SubSeqProperties
<1>5. rest \in Seq(Token) /\ Len(rest) = left - n
  BY <1>1, <1>2, <1>3, SubSeqProperties
<1>6. rest \in UpTo(MaxContext, Token)
  <2>1. Len(rest) <= MaxContext
    BY <1>1, <1>2, <1>5
  <2> QED BY <1>5, <2>1, SeqFits, Zenon
<1> HIDE DEF n, chunk, rest
<1>7. /\ RunChunk(at, chunk) /\ at' = at + n /\ left' = left - n /\ input' = rest
      /\ logits' = IF n = left THEN LogitsOver(kvCache', at + n, recurrent') ELSE logits
      /\ n = left => out' = <<Argmax(logits')>> /\ position' = at + n /\ pc' = "sync"
      /\ n # left => UNCHANGED <<out, position, pc>>
      /\ UNCHANGED <<poisoned, trace, replayed, captured, devicePosition,
                     deviceToken, deviceResults, torn, op, from>>
  BY DEF PrefillChunk, ProducesLogits, n, chunk, rest
<1>8. Len(recurrent) <= at /\ devicePosition <= at /\ Len(recurrent) \in Nat
      /\ Consumed = at /\ Consumed' = at'
  <2>1. recurrent \in Seq(Token)
    BY UpToIsSeq DEF ExecInv, ExecutorTypeOK
  <2>2. pc' # "idle"
    BY <1>1, <1>7
  <2> QED BY <1>1, <2>1, <2>2, LenProperties DEF ExecInv, DeviceNeverAhead, Consumed
<1>9. /\ kvCache' \in [Position -> Token \union {Blank}]
      /\ recurrent' \in UpTo(MaxContext, Token)
      /\ Len(recurrent') <= Len(recurrent) + n
  BY <1>1, <1>2, <1>4, <1>7, <1>8, ChunkTyped DEF ExecInv
<1>10. logits' \in Logits
  <2>1. LogitsOver(kvCache', at + n, recurrent') \in Logits
    BY <1>1, <1>2, <1>9, LogitsTyped
  <2> QED BY <1>7, <2>1 DEF ExecInv, ExecutorTypeOK
<1>11. out' \in UpTo(MaxContext, Token \union {Blank})
  <2>1. Argmax(logits') \in Token
    BY <1>10, ArgmaxTyped
  <2>2. <<Argmax(logits')>> \in Seq(Token \union {Blank}) /\ Len(<<Argmax(logits')>>) = 1
    BY <2>1
  <2>3. Len(<<Argmax(logits')>>) <= MaxContext
    BY <2>2
  <2>4. <<Argmax(logits')>> \in UpTo(MaxContext, Token \union {Blank})
    BY <2>2, <2>3, SeqFits, Zenon
  <2> QED BY <1>7, <2>4 DEF ExecInv, ExecutorTypeOK
<1>12. ExecutorTypeOK'
  <2>1. position' \in 0 .. MaxContext /\ at' \in 0 .. MaxContext /\ left' \in 0 .. MaxContext
    BY <1>1, <1>2, <1>7 DEF ExecInv, ExecutorTypeOK
  <2>2. pc' \in Steps
    BY <1>7 DEF ExecInv, ExecutorTypeOK, Steps
  <2> QED BY <1>6, <1>7, <1>9, <1>10, <1>11, <2>1, <2>2 DEF ExecInv, ExecutorTypeOK
<1>13. FrameOK'
  BY <1>1, <1>2, <1>5, <1>7 DEF FrameOK, StaysInContext
<1>14. DeviceNeverAhead'
  <2>1. Len(recurrent') \in Nat
    BY <1>9, UpToIsSeq, LenProperties
  <2> QED BY <1>1, <1>2, <1>7, <1>8, <1>9, <2>1 DEF DeviceNeverAhead, ExecInv, ExecutorTypeOK
<1>15. LayersAgree'
  <2>1. ASSUME Trusted'
        PROVE  /\ Len(recurrent') = at + n
               /\ kvCache' = [q \in Position |-> IF q < at + n
                                THEN recurrent'[q + 1] ELSE Blank]
    <3>1. Trusted
      BY <1>7, <2>1 DEF Trusted
    <3> QED BY <1>4, <1>7, <1>8, <3>1, ChunkAgrees DEF ExecInv
  <2> QED BY <2>1, <1>7, <1>8 DEF LayersAgree
<1>16. ReadyToReplay'
  BY <1>1, <1>7 DEF ReadyToReplay
<1>17. LogitsFollow'
  BY <1>1, <1>7, <1>8 DEF LogitsFollow
<1> QED BY <1>12, <1>13, <1>14, <1>15, <1>16, <1>17 DEF ExecInv

\* The position upload at the end of a prefill.
LEMMA PrefillSyncKeeps ==
  ASSUME ExecInv, PrefillSync
  PROVE  ExecInv'
<1> USE DecodePlanAssumption
<1>1. pc = "sync" /\ pc' = "returned" /\ at = position /\ left = 0 /\ ~poisoned
  BY DEF ExecInv, FrameOK, PrefillSync
<1>2. ExecutorTypeOK'
  BY DEF ExecInv, ExecutorTypeOK, PrefillSync, frame, Steps
<1>3. FrameOK'
  BY <1>1 DEF ExecInv, FrameOK, PrefillSync, frame, StaysInContext
<1>4. Consumed' = Consumed /\ Consumed = position /\ (Trusted' => Trusted)
  BY <1>1 DEF PrefillSync, frame, Consumed, Trusted
<1>5. DeviceNeverAhead'
  BY <1>4 DEF ExecInv, ExecutorTypeOK, PrefillSync, DeviceNeverAhead
<1>6. LayersAgree'
  BY <1>4, SameLayers DEF ExecInv, PrefillSync
<1>7. ReadyToReplay'
  BY <1>1 DEF PrefillSync, ReadyToReplay
<1>8. LogitsFollow'
  BY <1>1, <1>4, SameLogits DEF ExecInv, PrefillSync
<1> QED BY <1>2, <1>3, <1>5, <1>6, <1>7, <1>8 DEF ExecInv

\* The choice between replay and eager launches.
LEMMA DispatchKeeps ==
  ASSUME ExecInv, Dispatch
  PROVE  ExecInv'
<1> USE DecodePlanAssumption
<1>1. /\ pc = "dispatch" /\ pc' \in {"upload", "eager"}
      /\ at = position /\ at < MaxContext
      /\ pc' = "upload" => DecodeGraph /\ VariantIndex[at] \in captured
      /\ UNCHANGED <<position, poisoned, trace, replayed, captured, device, torn, frame>>
  BY DEF ExecInv, FrameOK, Dispatch, CanReplay
<1>2. ExecutorTypeOK'
  BY <1>1 DEF ExecInv, ExecutorTypeOK, device, frame, Steps
<1>3. FrameOK'
  BY <1>1 DEF ExecInv, FrameOK, device, frame, StaysInContext
<1>4. Consumed' = Consumed /\ (Trusted' => Trusted)
  BY <1>1 DEF frame, Consumed, Trusted
<1>5. DeviceNeverAhead'
  BY <1>1, <1>4 DEF ExecInv, device, DeviceNeverAhead
<1>6. LayersAgree'
  BY <1>1, <1>4, SameLayers DEF ExecInv, device
<1>7. ReadyToReplay'
  BY <1>1, <1>4 DEF ExecInv, device, frame, ReadyToReplay
<1>8. LogitsFollow'
  BY <1>1, <1>4, SameLogits DEF ExecInv, device
<1> QED BY <1>2, <1>3, <1>5, <1>6, <1>7, <1>8 DEF ExecInv

\* One token decoded by eager launches.
LEMMA DecodeEagerKeeps ==
  ASSUME ExecInv, DecodeEager
  PROVE  ExecInv'
<1> USE DecodePlanAssumption
<1>1. /\ pc = "eager" /\ left > 0 /\ Len(input) = 1 /\ ~poisoned
      /\ at + left <= MaxContext /\ Len(out) + left <= MaxContext
      /\ at \in Nat /\ left \in Nat
  BY DEF ExecInv, ExecutorTypeOK, FrameOK, StaysInContext, DecodeEager
<1>2. input \in Seq(Token) /\ recurrent \in Seq(Token) /\ out \in Seq(Token \union {Blank})
  BY UpToIsSeq DEF ExecInv, ExecutorTypeOK
<1>3. Len(recurrent) <= at /\ devicePosition <= at /\ Len(recurrent) \in Nat
      /\ Consumed = at /\ Consumed' = at' /\ (Trusted' => Trusted)
  BY <1>1, <1>2, LenProperties DEF ExecInv, DeviceNeverAhead, Consumed, DecodeEager, Trusted
<1>4. /\ RunChunk(at, input) /\ pc' = "prepare" /\ position' = at + 1
      /\ at' = at + 1 /\ left' = left - 1
      /\ logits' = LogitsOver(kvCache', at + 1, recurrent')
      /\ out' = Append(out, Argmax(logits')) /\ input' = <<Argmax(logits')>>
  BY DEF DecodeEager
<1>5. /\ kvCache' \in [Position -> Token \union {Blank}]
      /\ recurrent' \in UpTo(MaxContext, Token)
      /\ Len(recurrent') <= Len(recurrent) + 1
  <2>1. Len(recurrent) + Len(input) <= MaxContext
    BY <1>1, <1>3
  <2>2. /\ kvCache' \in [Position -> Token \union {Blank}]
        /\ recurrent' \in UpTo(MaxContext, Token)
        /\ Len(recurrent') <= Len(recurrent) + Len(input)
    BY <1>1, <1>2, <1>4, <2>1, ChunkTyped, Zenon DEF ExecInv
  <2> QED BY <1>1, <2>2
<1>6. logits' \in Logits
  BY <1>1, <1>4, <1>5, LogitsTyped
<1>7. Argmax(logits') \in Token
  BY <1>6, ArgmaxTyped
<1>8. input' \in UpTo(MaxContext, Token) /\ Len(input') = 1
  <2>1. input' \in Seq(Token) /\ Len(input') = 1
    BY <1>4, <1>7
  <2>2. Len(input') <= MaxContext
    BY <2>1
  <2> QED BY <2>1, <2>2, SeqFits, Zenon
<1>9. out' \in UpTo(MaxContext, Token \union {Blank}) /\ Len(out') = Len(out) + 1
  <2>1. out' \in Seq(Token \union {Blank}) /\ Len(out') = Len(out) + 1
    BY <1>2, <1>4, <1>7, AppendProperties
  <2>2. Len(out') <= MaxContext
    BY <1>1, <1>2, <2>1, LenProperties
  <2> QED BY <2>1, <2>2, SeqFits, Zenon
<1>10. ExecutorTypeOK'
  <2>1. position' \in 0 .. MaxContext /\ at' \in 0 .. MaxContext /\ left' \in 0 .. MaxContext
    BY <1>1, <1>4
  <2> QED BY <1>4, <1>5, <1>6, <1>8, <1>9, <2>1 DEF DecodeEager, ExecInv, ExecutorTypeOK, Steps
<1>11. FrameOK'
  <2>1. Len(out) \in Nat
    BY <1>2, LenProperties
  <2> QED BY <1>1, <1>4, <1>8, <1>9, <2>1 DEF DecodeEager, FrameOK, StaysInContext
<1>12. DeviceNeverAhead'
  <2>1. Len(recurrent') \in Nat
    BY <1>5, UpToIsSeq, LenProperties
  <2> QED BY <1>1, <1>3, <1>4, <1>5, <2>1
         DEF DecodeEager, DeviceNeverAhead, ExecInv, ExecutorTypeOK
<1>13. LayersAgree'
  <2>1. ASSUME Trusted'
        PROVE  /\ Len(recurrent') = at + 1
               /\ kvCache' = [q \in Position |-> IF q < at + 1
                                THEN recurrent'[q + 1] ELSE Blank]
    BY <1>1, <1>2, <1>3, <1>4, <2>1, ChunkAgrees DEF ExecInv
  <2> QED BY <2>1, <1>3, <1>4 DEF LayersAgree
<1>14. ReadyToReplay'
  BY <1>4 DEF ReadyToReplay
<1>15. LogitsFollow'
  BY <1>3, <1>4 DEF LogitsFollow
<1> QED BY <1>10, <1>11, <1>12, <1>13, <1>14, <1>15 DEF ExecInv

\* The graph of the next position is made ready.
LEMMA PrepareNextKeeps ==
  ASSUME ExecInv, PrepareNext
  PROVE  ExecInv'
<1> USE DecodePlanAssumption
<1>1. /\ pc = "prepare" /\ at = position /\ ~poisoned
      /\ pc' = IF left = 0 THEN "returned" ELSE "dispatch"
      /\ devicePosition' \in {devicePosition, position}
      /\ UNCHANGED <<position, poisoned, trace, replayed, deviceToken,
                     deviceResults, kvCache, recurrent, logits, torn, frame>>
  BY DEF ExecInv, FrameOK, PrepareNext
<1>2. captured' \subseteq Variants
  <2>1. position < MaxContext => VariantIndex[position] \in Variants
    BY DEF Variants, Position, ExecInv, ExecutorTypeOK
  <2>2. captured' = captured \/ (position < MaxContext /\ captured' = captured \union {VariantIndex[position]})
    BY DEF PrepareNext
  <2> QED BY <2>1, <2>2 DEF ExecInv, ExecutorTypeOK
<1>3. ExecutorTypeOK'
  BY <1>1, <1>2 DEF ExecInv, ExecutorTypeOK, frame, Steps
<1>4. FrameOK'
  BY <1>1 DEF ExecInv, ExecutorTypeOK, FrameOK, frame, StaysInContext
<1>5. Consumed' = Consumed /\ Consumed = position /\ (Trusted' => Trusted) /\ pc' # "idle"
  BY <1>1 DEF frame, Consumed, Trusted
<1>6. DeviceNeverAhead'
  BY <1>1, <1>5 DEF ExecInv, ExecutorTypeOK, DeviceNeverAhead
<1>7. LayersAgree'
  BY <1>1, <1>5, SameLayers DEF ExecInv
<1>8. ReadyToReplay'
  <2>1. (DecodeGraph /\ position < MaxContext /\ VariantIndex[position] \in captured') => devicePosition' = position
    BY DEF PrepareNext
  <2> QED BY <1>1, <2>1 DEF ReadyToReplay
<1>9. LogitsFollow'
  BY <1>1, <1>5, SameLogits DEF ExecInv
<1> QED BY <1>3, <1>4, <1>6, <1>7, <1>8, <1>9 DEF ExecInv

\* The first token of a replay run is uploaded.
LEMMA UploadTokenKeeps ==
  ASSUME ExecInv, UploadToken
  PROVE  ExecInv'
<1> USE DecodePlanAssumption
<1>1. /\ pc = "upload" /\ pc' = "replay" /\ at = position /\ left > 0
      /\ Len(input) = 1 /\ Len(out) + left <= MaxContext /\ from' = at
      /\ deviceToken' = Head(input) /\ ~poisoned
      /\ UNCHANGED <<position, poisoned, trace, replayed, captured, devicePosition,
                     deviceResults, kvCache, recurrent, logits, torn, op, input, at,
                     left, out>>
  BY DEF ExecInv, FrameOK, UploadToken
<1>2. deviceToken' \in Token
  <2>1. input \in Seq(Token)
    BY UpToIsSeq DEF ExecInv, ExecutorTypeOK
  <2> QED BY <1>1, <2>1
<1>3. ExecutorTypeOK'
  BY <1>1, <1>2 DEF ExecInv, ExecutorTypeOK, Steps
<1>4. FrameOK'
  <2>1. Len(out) \in Nat /\ at \in Nat /\ left \in Nat
    BY UpToIsSeq, LenProperties DEF ExecInv, ExecutorTypeOK
  <2> QED BY <1>1, <1>2, <2>1 DEF ExecInv, FrameOK, StaysInContext
<1>5. Consumed' = Consumed /\ (Trusted' => Trusted)
  BY <1>1 DEF Consumed, Trusted
<1>6. DeviceNeverAhead'
  BY <1>1, <1>5 DEF ExecInv, DeviceNeverAhead
<1>7. LayersAgree'
  BY <1>1, <1>5, SameLayers DEF ExecInv
<1>8. ReadyToReplay'
  BY <1>1, <1>5 DEF ExecInv, ReadyToReplay
<1>9. LogitsFollow'
  BY <1>1, <1>5, SameLogits DEF ExecInv
<1> QED BY <1>3, <1>4, <1>6, <1>7, <1>8, <1>9 DEF ExecInv

\* A run captures the variant it has come to.
LEMMA CaptureInRunKeeps ==
  ASSUME ExecInv, CaptureInRun
  PROVE  ExecInv'
<1> USE DecodePlanAssumption
<1>1. /\ pc = "replay" /\ at < MaxContext /\ devicePosition' = at
      /\ captured' = captured \union {VariantIndex[at]} /\ ~poisoned
      /\ UNCHANGED <<position, poisoned, trace, replayed, deviceToken,
                     deviceResults, kvCache, recurrent, logits, torn, pc, frame>>
  BY DEF ExecInv, FrameOK, CaptureInRun
<1>2. captured' \subseteq Variants
  <2>1. at \in Position
    BY <1>1 DEF Position, ExecInv, ExecutorTypeOK
  <2> QED BY <1>1, <2>1 DEF Variants, ExecInv, ExecutorTypeOK
<1>3. ExecutorTypeOK'
  BY <1>1, <1>2 DEF ExecInv, ExecutorTypeOK, frame, Steps
<1>4. FrameOK'
  BY <1>1 DEF ExecInv, FrameOK, frame, StaysInContext
<1>5. Consumed' = Consumed /\ Consumed = at /\ (Trusted' => Trusted)
  BY <1>1 DEF frame, Consumed, Trusted
<1>6. DeviceNeverAhead'
  BY <1>1, <1>5 DEF ExecInv, ExecutorTypeOK, DeviceNeverAhead
<1>7. LayersAgree'
  BY <1>1, <1>5, SameLayers DEF ExecInv
<1>8. ReadyToReplay'
  BY <1>1 DEF ReadyToReplay, frame
<1>9. LogitsFollow'
  BY <1>1, <1>5, SameLogits DEF ExecInv
<1> QED BY <1>3, <1>4, <1>6, <1>7, <1>8, <1>9 DEF ExecInv

\* One graph replay: it runs at the position the device holds, which is the
\* one the host means.
LEMMA ReplayKeeps ==
  ASSUME ExecInv, Replay
  PROVE  ExecInv'
<1> DEFINE t == <<deviceToken>>
<1> USE DecodePlanAssumption
<1>1. /\ pc = "replay" /\ left > 0 /\ at < MaxContext /\ ~poisoned
      /\ at + left <= MaxContext /\ from <= at
      /\ Len(out) + (at - from) + left <= MaxContext
      /\ at \in Nat /\ left \in Nat /\ from \in Nat /\ devicePosition \in Nat
      /\ deviceToken \in Token
  BY DEF ExecInv, ExecutorTypeOK, FrameOK, StaysInContext, Replay
<1>2. recurrent \in Seq(Token) /\ out \in Seq(Token \union {Blank})
      /\ t \in Seq(Token) /\ Len(t) = 1
  BY <1>1, UpToIsSeq DEF ExecInv, ExecutorTypeOK
<1> HIDE DEF t
<1>3. /\ Len(recurrent) <= at /\ devicePosition <= at /\ Len(recurrent) \in Nat
      /\ Consumed = at /\ Consumed' = at' /\ (Trusted' => Trusted)
  BY <1>1, <1>2, LenProperties DEF ExecInv, DeviceNeverAhead, Consumed, Replay, Trusted
<1>4. /\ RunChunk(devicePosition, t) /\ pc' = "replay"
      /\ at' = at + 1 /\ left' = left - 1 /\ devicePosition' = devicePosition + 1
      /\ logits' = LogitsOver(kvCache', devicePosition + 1, recurrent')
      /\ deviceToken' = Argmax(logits')
      /\ deviceResults' = [deviceResults EXCEPT ![devicePosition] = Argmax(logits')]
  BY <1>1 DEF Replay, t
<1>5. /\ kvCache' \in [Position -> Token \union {Blank}]
      /\ recurrent' \in UpTo(MaxContext, Token)
      /\ Len(recurrent') <= Len(recurrent) + 1
  <2>1. Len(recurrent) + Len(t) <= MaxContext
    BY <1>1, <1>2, <1>3
  <2>2. /\ kvCache' \in [Position -> Token \union {Blank}]
        /\ recurrent' \in UpTo(MaxContext, Token)
        /\ Len(recurrent') <= Len(recurrent) + Len(t)
    BY <1>1, <1>2, <1>4, <2>1, ChunkTyped, Zenon DEF ExecInv
  <2> QED BY <1>2, <2>2
<1>6. logits' \in Logits
  BY <1>1, <1>3, <1>4, <1>5, LogitsTyped
<1>7. Argmax(logits') \in Token
  BY <1>6, ArgmaxTyped
<1>8. deviceResults' \in [Position -> Token \union {Blank}]
  BY <1>4, <1>7 DEF ExecInv, ExecutorTypeOK
<1>9. ExecutorTypeOK'
  <2>1. at' \in 0 .. MaxContext /\ left' \in 0 .. MaxContext /\ devicePosition' \in 0 .. MaxContext
    BY <1>1, <1>3, <1>4
  <2> QED BY <1>4, <1>5, <1>6, <1>7, <1>8, <2>1 DEF Replay, ExecInv, ExecutorTypeOK, Steps
<1>10. FrameOK'
  <2>1. Len(out) \in Nat
    BY <1>2, LenProperties
  <2> QED BY <1>1, <1>4, <1>7, <2>1 DEF Replay, FrameOK, StaysInContext
<1>11. DeviceNeverAhead'
  <2>1. Len(recurrent') \in Nat
    BY <1>5, UpToIsSeq, LenProperties
  <2> QED BY <1>1, <1>3, <1>4, <1>5, <2>1 DEF DeviceNeverAhead
<1>12. Trusted' => devicePosition = at
  BY <1>1, <1>3 DEF ExecInv, ReadyToReplay
<1>13. LayersAgree'
  <2>1. ASSUME Trusted'
        PROVE  /\ Len(recurrent') = at + 1
               /\ kvCache' = [q \in Position |-> IF q < at + 1
                                THEN recurrent'[q + 1] ELSE Blank]
    BY <1>2, <1>3, <1>4, <1>12, <2>1, ChunkAgrees DEF ExecInv
  <2> QED BY <2>1, <1>3, <1>4 DEF LayersAgree
<1>14. ReadyToReplay'
  BY <1>1, <1>4, <1>12 DEF ReadyToReplay
<1>15. LogitsFollow'
  BY <1>3, <1>4, <1>12 DEF LogitsFollow
<1> QED BY <1>9, <1>10, <1>11, <1>13, <1>14, <1>15 DEF ExecInv

\* The results of a run are downloaded and the position moves to its end.
LEMMA DownloadKeeps ==
  ASSUME ExecInv, Download
  PROVE  ExecInv'
<1> DEFINE got == IF op = "decode" THEN <<Argmax(logits)>> ELSE RunResults
<1> USE DecodePlanAssumption
<1>1. /\ pc = "replay" /\ pc' = "returned" /\ left = 0 /\ ~poisoned
      /\ from <= at /\ at - from > 0 /\ Len(out) + (at - from) <= MaxContext
      /\ at \in 0 .. MaxContext /\ from \in Nat
      /\ out' = out \o got /\ position' = at /\ replayed' = TRUE
      /\ UNCHANGED <<poisoned, trace, captured, device, torn, op, input, at, left, from>>
  BY DEF ExecInv, ExecutorTypeOK, FrameOK, Download
<1>2. got \in Seq(Token \union {Blank}) /\ Len(got) <= at - from
  <2>1. RunResults \in Seq(Token \union {Blank}) /\ Len(RunResults) = at - from
    <3>1. RunResults \in [1 .. at - from -> Token \union {Blank}]
      BY <1>1 DEF RunResults, ExecInv, ExecutorTypeOK, Position
    <3>2. RunResults \in Seq(Token \union {Blank})
      BY <1>1, <3>1, SeqDef
    <3> QED BY <1>1, <3>1, <3>2, LenProperties, SMTT(30)
  <2>2. <<Argmax(logits)>> \in Seq(Token \union {Blank}) /\ Len(<<Argmax(logits)>>) = 1
    <3>1. Argmax(logits) \in Token
      BY ArgmaxTyped DEF ExecInv, ExecutorTypeOK
    <3> QED BY <3>1
  <2>3. CASE op = "decode"
    <3>1. got = <<Argmax(logits)>>
      BY <2>3
    <3>2. Len(<<Argmax(logits)>>) <= at - from
      BY <1>1, <2>2
    <3> QED BY <2>2, <3>1, <3>2, Zenon
  <2>4. CASE op # "decode"
    <3>1. got = RunResults
      BY <2>4
    <3>2. Len(RunResults) <= at - from
      BY <1>1, <2>1
    <3> QED BY <2>1, <3>1, <3>2, Zenon
  <2> QED BY <2>3, <2>4
<1> HIDE DEF got
<1>3. out' \in UpTo(MaxContext, Token \union {Blank})
  <2>1. out \in Seq(Token \union {Blank})
    BY UpToIsSeq DEF ExecInv, ExecutorTypeOK
  <2>2. out' \in Seq(Token \union {Blank}) /\ Len(out') = Len(out) + Len(got)
    BY <1>1, <1>2, <2>1, ConcatProperties
  <2>3. Len(out') <= MaxContext
    BY <1>1, <1>2, <2>1, <2>2, LenProperties
  <2> QED BY <2>2, <2>3, SeqFits, Zenon
<1>4. ExecutorTypeOK'
  BY <1>1, <1>3 DEF ExecInv, ExecutorTypeOK, device, Steps
<1>5. FrameOK'
  BY <1>1 DEF ExecInv, FrameOK, device, StaysInContext
<1>6. Consumed' = Consumed /\ (Trusted' => Trusted)
  BY <1>1 DEF Consumed, Trusted
<1>7. DeviceNeverAhead'
  BY <1>1, <1>6 DEF ExecInv, device, DeviceNeverAhead
<1>8. LayersAgree'
  BY <1>1, <1>6, SameLayers DEF ExecInv, device
<1>9. ReadyToReplay'
  BY <1>1, <1>6 DEF ExecInv, device, ReadyToReplay
<1>10. LogitsFollow'
  BY <1>1, <1>6, SameLogits DEF ExecInv, device
<1> QED BY <1>4, <1>5, <1>7, <1>8, <1>9, <1>10 DEF ExecInv

-----------------------------------------------------------------------------
(* Failures, reset, trace and the end of a call *)

\* A step that throws leaves nothing to vouch for: the executor is poisoned,
\* and the device state is well formed however far the step came.
LEMMA FailureKeeps ==
  ASSUME ExecInv, ExecutorFailure
  PROVE  ExecInv'
<1> USE DecodePlanAssumption
<1>1. /\ Throw /\ UNCHANGED <<deviceToken, deviceResults, logits>>
      /\ devicePosition' \in {devicePosition, position}
  BY DEF ExecutorFailure, FailInChunk, FailInEager, FailInReplay, FailInSync,
         FailInTransfer, device
<1>2. /\ poisoned' = TRUE /\ pc' = "threw" /\ ~Trusted'
      /\ UNCHANGED <<position, trace, replayed, captured, torn, frame>>
  BY <1>1, Zenon DEF Throw, Trusted
<1>3. /\ kvCache' \in [Position -> Token \union {Blank}]
      /\ recurrent' \in UpTo(MaxContext, Token)
  <2>1. CASE FailInChunk
    <3> DEFINE t == SubSeq(input, 1, Chunk(left))
    <3>1. /\ left > 0 /\ Len(input) = left /\ ~poisoned
          /\ pc = "chunk" /\ at + left <= MaxContext /\ at \in Nat /\ left \in Nat
      BY <2>1 DEF ExecInv, ExecutorTypeOK, FrameOK, StaysInContext, FailInChunk
    <3>2. input \in Seq(Token) /\ recurrent \in Seq(Token)
      BY UpToIsSeq DEF ExecInv, ExecutorTypeOK
    <3>3. Chunk(left) \in 1 .. left
      BY <3>1, ChunkBounds
    <3>4. t \in Seq(Token) /\ Len(t) = Chunk(left)
      BY <3>1, <3>2, <3>3, SubSeqProperties
    <3>5. Len(recurrent) <= at
      BY <3>1 DEF ExecInv, DeviceNeverAhead, Consumed
    <3>6. PartOfChunk(at, t)
      BY <2>1 DEF FailInChunk
    <3> HIDE DEF t
    <3>7. Len(recurrent) + Len(t) <= MaxContext
      BY <3>1, <3>2, <3>3, <3>4, <3>5, LenProperties
    <3> QED BY <3>1, <3>4, <3>6, <3>7, ChunkTyped, Zenon DEF ExecInv
  <2>2. CASE FailInEager
    <3>1. /\ pc = "eager" /\ left > 0 /\ Len(input) = 1 /\ ~poisoned
          /\ at + left <= MaxContext /\ at \in Nat /\ left \in Nat
      BY <2>2 DEF ExecInv, ExecutorTypeOK, FrameOK, StaysInContext, FailInEager
    <3>2. input \in Seq(Token) /\ recurrent \in Seq(Token)
      BY UpToIsSeq DEF ExecInv, ExecutorTypeOK
    <3>3. Len(recurrent) <= at
      BY <3>1 DEF ExecInv, DeviceNeverAhead, Consumed
    <3>4. PartOfChunk(at, input)
      BY <2>2 DEF FailInEager
    <3>5. Len(recurrent) + Len(input) <= MaxContext
      BY <3>1, <3>2, <3>3, LenProperties
    <3> QED BY <3>1, <3>2, <3>4, <3>5, ChunkTyped, Zenon DEF ExecInv
  <2>3. CASE FailInReplay
    <3> DEFINE t == <<deviceToken>>
    <3>1. /\ pc = "replay" /\ left > 0 /\ ~poisoned /\ deviceToken \in Token
          /\ at + left <= MaxContext /\ at \in Nat /\ left \in Nat
          /\ devicePosition \in Nat
      BY <2>3 DEF ExecInv, ExecutorTypeOK, FrameOK, StaysInContext, FailInReplay
    <3>2. recurrent \in Seq(Token) /\ t \in Seq(Token) /\ Len(t) = 1
      BY <3>1, UpToIsSeq DEF ExecInv, ExecutorTypeOK
    <3>3. Len(recurrent) <= at
      BY <3>1 DEF ExecInv, DeviceNeverAhead, Consumed
    <3>4. PartOfChunk(devicePosition, t)
      BY <2>3 DEF FailInReplay
    <3> HIDE DEF t
    <3>5. Len(recurrent) + Len(t) <= MaxContext
      BY <3>1, <3>2, <3>3, LenProperties
    <3> QED BY <3>1, <3>2, <3>4, <3>5, ChunkTyped, Zenon DEF ExecInv
  <2>4. CASE FailInSync \/ FailInTransfer
    BY <2>4 DEF FailInSync, FailInTransfer, device, ExecInv, ExecutorTypeOK
  <2> QED BY <2>1, <2>2, <2>3, <2>4 DEF ExecutorFailure
<1>4. ExecutorTypeOK'
  <2>1. poisoned' \in BOOLEAN /\ pc' \in Steps
    BY <1>2, Zenon DEF Steps
  <2>2. devicePosition' \in 0 .. MaxContext
    BY <1>1 DEF ExecInv, ExecutorTypeOK
  <2> QED BY <1>1, <1>2, <1>3, <2>1, <2>2 DEF ExecInv, ExecutorTypeOK, frame
<1>5. FrameOK'
  BY <1>2 DEF ExecInv, FrameOK, frame, StaysInContext
<1>6. DeviceNeverAhead' /\ LayersAgree' /\ ReadyToReplay' /\ LogitsFollow'
  BY <1>2, Zenon DEF DeviceNeverAhead, LayersAgree, ReadyToReplay, LogitsFollow
<1> QED BY <1>4, <1>5, <1>6 DEF ExecInv

\* A reset that succeeds starts an empty sequence; the captured graphs stay.
LEMMA ResetKeeps ==
  ASSUME ExecInv, Reset
  PROVE  ExecInv'
<1> USE DecodePlanAssumption
<1>1. /\ pc = "idle" /\ kvCache' = BlankCache /\ recurrent' = <<>>
      /\ devicePosition' = 0 /\ logits' = NoLogits /\ position' = 0
      /\ poisoned' = FALSE /\ replayed' = FALSE /\ torn' = FALSE
      /\ UNCHANGED <<deviceToken, deviceResults, trace, captured, pc, frame>>
  BY DEF Reset, Cleared
<1>2. <<>> \in UpTo(MaxContext, Token) /\ <<>> \in UpTo(MaxContext, Token \union {Blank})
      /\ Len(<<>>) = 0
  BY EmptyFits
<1>3. Consumed' = 0
  BY <1>1 DEF Consumed
<1>4. ExecutorTypeOK'
  <2>1. NoLogits \in Logits
    BY <1>2 DEF Logits, NoLogits
  <2>2. BlankCache \in [Position -> Token \union {Blank}]
    BY DEF BlankCache
  <2>3. poisoned' \in BOOLEAN /\ replayed' \in BOOLEAN /\ torn' \in BOOLEAN
    BY <1>1, Zenon
  <2>4. position' \in 0 .. MaxContext /\ devicePosition' \in 0 .. MaxContext
    BY <1>1
  <2> QED BY <1>1, <1>2, <2>1, <2>2, <2>3, <2>4 DEF ExecInv, ExecutorTypeOK, frame
<1>5. FrameOK'
  BY <1>1 DEF ExecInv, FrameOK, frame, StaysInContext
<1>6. DeviceNeverAhead'
  BY <1>1, <1>2, <1>3 DEF DeviceNeverAhead
<1>7. LayersAgree'
  BY <1>1, <1>2, <1>3 DEF LayersAgree, BlankCache, Position
<1>8. ReadyToReplay'
  BY <1>1 DEF ReadyToReplay
<1>9. LogitsFollow'
  BY <1>3 DEF LogitsFollow
<1> QED BY <1>4, <1>5, <1>6, <1>7, <1>8, <1>9 DEF ExecInv

\* A reset that fails clears a prefix of the device state, and is recorded
\* as soon as it has cleared anything.
LEMMA ResetFailsKeeps ==
  ASSUME ExecInv, ResetFails
  PROVE  ExecInv'
<1> USE DecodePlanAssumption
<1>1. /\ pc = "idle"
      /\ kvCache' \in {kvCache, BlankCache} /\ recurrent' \in {recurrent, <<>>}
      /\ devicePosition' \in {devicePosition, 0}
      /\ UNCHANGED <<deviceToken, deviceResults, position, poisoned, trace,
                     replayed, captured, logits, pc, frame>>
  BY DEF ResetFails, Cleared
<1>2. torn' = TRUE \/ UNCHANGED <<kvCache, recurrent, devicePosition, torn>>
  BY DEF ResetFails, Cleared
<1>3. <<>> \in UpTo(MaxContext, Token) /\ Len(<<>>) = 0
  BY EmptyFits
<1>4. Consumed' = Consumed /\ Consumed \in Nat
  BY <1>1 DEF Consumed, ExecInv, ExecutorTypeOK
<1>5. ExecutorTypeOK'
  <2>1. BlankCache \in [Position -> Token \union {Blank}]
    BY DEF BlankCache
  <2>2. kvCache' \in [Position -> Token \union {Blank}] /\ recurrent' \in UpTo(MaxContext, Token)
    BY <1>1, <1>3, <2>1 DEF ExecInv, ExecutorTypeOK
  <2>3. torn' \in BOOLEAN
    BY <1>2, Zenon DEF ExecInv, ExecutorTypeOK
  <2>4. devicePosition' \in 0 .. MaxContext
    BY <1>1 DEF ExecInv, ExecutorTypeOK
  <2> QED BY <1>1, <2>2, <2>3, <2>4 DEF ExecInv, ExecutorTypeOK, frame
<1>6. FrameOK'
  BY <1>1 DEF ExecInv, FrameOK, frame, StaysInContext
<1>7. DeviceNeverAhead'
  BY <1>1, <1>3, <1>4 DEF ExecInv, ExecutorTypeOK, DeviceNeverAhead
<1>8. CASE torn' = TRUE
  <2>1. ~Trusted'
    BY <1>8, Zenon DEF Trusted
  <2> QED BY <1>5, <1>6, <1>7, <2>1, Zenon DEF ExecInv, LayersAgree, ReadyToReplay, LogitsFollow
<1>9. CASE UNCHANGED <<kvCache, recurrent, devicePosition, torn>>
  <2>1. Trusted' => Trusted
    BY <1>1, <1>9 DEF Trusted
  <2>2. LayersAgree'
    BY <1>4, <1>9, <2>1, SameLayers DEF ExecInv
  <2>3. ReadyToReplay'
    BY <1>1, <1>9, <2>1 DEF ExecInv, ReadyToReplay
  <2>4. LogitsFollow'
    BY <1>1, <1>4, <1>9, <2>1, SameLogits DEF ExecInv
  <2> QED BY <1>5, <1>6, <1>7, <2>2, <2>3, <2>4 DEF ExecInv
<1> QED BY <1>2, <1>8, <1>9

\* Tracing is switched between calls.
LEMMA EnableTraceKeeps ==
  ASSUME ExecInv, EnableTrace
  PROVE  ExecInv'
<1>1. /\ pc = "idle" /\ trace' = ~trace
      /\ UNCHANGED <<position, poisoned, replayed, captured, device, torn, pc, frame>>
  BY DEF EnableTrace
<1>2. ExecutorTypeOK'
  <2>1. trace' \in BOOLEAN
    BY <1>1, Zenon DEF ExecInv, ExecutorTypeOK
  <2> QED BY <1>1, <2>1 DEF ExecInv, ExecutorTypeOK, device, frame
<1>3. FrameOK'
  BY <1>1 DEF ExecInv, FrameOK, frame, device, StaysInContext
<1>4. Consumed' = Consumed /\ (Trusted' => Trusted)
  BY <1>1 DEF Consumed, Trusted, frame
<1>5. DeviceNeverAhead'
  BY <1>1, <1>4 DEF ExecInv, device, DeviceNeverAhead
<1>6. LayersAgree'
  BY <1>1, <1>4, SameLayers DEF ExecInv, device
<1>7. ReadyToReplay'
  BY <1>1, <1>4 DEF ExecInv, device, frame, ReadyToReplay
<1>8. LogitsFollow'
  BY <1>1, <1>4, SameLogits DEF ExecInv, device
<1> QED BY <1>2, <1>3, <1>5, <1>6, <1>7, <1>8 DEF ExecInv

\* A call that returned has its position committed, one that threw has left
\* the executor poisoned: either way nothing is lost with the local variables.
LEMMA EndCallKeeps ==
  ASSUME ExecInv, pc \in {"returned", "threw"}, EndCall
  PROVE  ExecInv'
<1> USE DecodePlanAssumption
<1>1. /\ pc' = "idle" /\ op' = "none" /\ input' = <<>> /\ at' = 0 /\ left' = 0
      /\ from' = 0 /\ out' = <<>> /\ deviceToken' = Blank
      /\ deviceResults' = BlankCache
      /\ UNCHANGED <<position, poisoned, trace, replayed, captured, torn,
                     devicePosition, kvCache, recurrent, logits>>
  BY DEF EndCall
<1>2. <<>> \in UpTo(MaxContext, Token) /\ <<>> \in UpTo(MaxContext, Token \union {Blank})
  BY EmptyFits
<1>3. ~poisoned' => pc = "returned" /\ Consumed' = Consumed
  BY <1>1 DEF ExecInv, FrameOK, Consumed
<1>4. Trusted' => Trusted /\ ~poisoned'
  BY <1>1 DEF Trusted
<1>5. ExecutorTypeOK'
  <2>1. BlankCache \in [Position -> Token \union {Blank}]
    BY DEF BlankCache
  <2> QED BY <1>1, <1>2, <2>1 DEF ExecInv, ExecutorTypeOK, Steps
<1>6. FrameOK'
  BY <1>1 DEF ExecInv, FrameOK, StaysInContext
<1>7. DeviceNeverAhead'
  BY <1>1, <1>3 DEF ExecInv, DeviceNeverAhead
<1>8. LayersAgree'
  BY <1>1, <1>3, <1>4, SameLayers DEF ExecInv
<1>9. ReadyToReplay'
  BY <1>1, <1>3, <1>4 DEF ExecInv, ReadyToReplay
<1>10. LogitsFollow'
  BY <1>1, <1>3, <1>4, SameLogits DEF ExecInv
<1> QED BY <1>5, <1>6, <1>7, <1>8, <1>9, <1>10 DEF ExecInv

-----------------------------------------------------------------------------

\* No step of a call, failing or not, breaks the invariant.
LEMMA StepKeeps ==
  ASSUME ExecInv, ExecutorStep \/ ExecutorFailure
  PROVE  ExecInv'
BY PrefillChunkKeeps, PrefillSyncKeeps, DispatchKeeps, DecodeEagerKeeps,
   PrepareNextKeeps, UploadTokenKeeps, CaptureInRunKeeps, ReplayKeeps,
   DownloadKeeps, FailureKeeps DEF ExecutorStep

\* Neither does leaving everything as it is.
LEMMA StutterKeeps ==
  ASSUME ExecInv, UNCHANGED execVars
  PROVE  ExecInv'
<1>1. UNCHANGED <<position, poisoned, trace, replayed, captured, device, torn, pc, frame>>
  BY DEF execVars
<1>2. Consumed' = Consumed /\ (Trusted' => Trusted)
  BY <1>1 DEF Consumed, Trusted, frame
<1>3. ExecutorTypeOK'
  BY <1>1 DEF ExecInv, ExecutorTypeOK, device, frame
<1>4. FrameOK'
  BY <1>1 DEF ExecInv, FrameOK, frame, device, StaysInContext
<1>5. DeviceNeverAhead'
  BY <1>1, <1>2 DEF ExecInv, device, DeviceNeverAhead
<1>6. LayersAgree'
  BY <1>1, <1>2, SameLayers DEF ExecInv, device
<1>7. ReadyToReplay'
  BY <1>1, <1>2 DEF ExecInv, device, frame, ReadyToReplay
<1>8. LogitsFollow'
  BY <1>1, <1>2, SameLogits DEF ExecInv, device
<1> QED BY <1>3, <1>4, <1>5, <1>6, <1>7, <1>8 DEF ExecInv

\* The invariant carries the properties that the runs check.
LEMMA InvariantImplies ==
  ExecInv => /\ LayersAgree /\ ReplayPositionAgrees
             /\ LogitsAreCurrent /\ StaysInContext
<1> SUFFICES ASSUME ExecInv
             PROVE  /\ LayersAgree /\ ReplayPositionAgrees
                    /\ LogitsAreCurrent /\ StaysInContext
  OBVIOUS
<1>1. LayersAgree /\ StaysInContext
  BY DEF ExecInv, FrameOK
<1>2. ReplayPositionAgrees
  BY DEF ExecInv, ReadyToReplay, ReplayPositionAgrees
<1>3. LogitsAreCurrent
  BY DEF ExecInv, FrameOK, LogitsFollow, LogitsAreCurrent, Consumed
<1> QED BY <1>1, <1>2, <1>3

-----------------------------------------------------------------------------
(* The executor under a driver *)

\* Every call the driver makes is one the executor has room for.
LEMMA DriverCallKeeps ==
  ASSUME ExecInv, DriverCall
  PROVE  ExecInv'
<1> USE DecodePlanAssumption
<1>1. position \in Nat
  BY DEF ExecInv, ExecutorTypeOK
<1>2. ASSUME NEW tokens \in UpTo(MaxContext, Token) \ {<<>>},
             Len(tokens) <= MaxContext - position, Prefill(tokens)
      PROVE  ExecInv'
  <2>1. tokens \in UpTo(MaxContext, Token)
    BY <1>2
  <2>2. pc = "idle" /\ ~poisoned /\ Begin("prefill", "chunk", tokens, Len(tokens))
        /\ Len(tokens) > 0
    BY <1>2 DEF Prefill, Accepts
  <2>3. tokens \in Seq(Token) /\ Len(tokens) <= MaxContext
    BY <2>1, UpToIsSeq
  <2>4. Len(tokens) \in 1 .. MaxContext /\ position + Len(tokens) <= MaxContext
    BY <1>1, <1>2, <2>2, <2>3, LenProperties
  <2> QED BY <2>1, <2>2, <2>4, BeginKeeps
<1>3. ASSUME NEW token \in Token
      PROVE  <<token>> \in UpTo(MaxContext, Token) /\ Len(<<token>>) = 1
  <2>1. <<token>> \in Seq(Token) /\ Len(<<token>>) = 1
    OBVIOUS
  <2>2. Len(<<token>>) <= MaxContext
    BY <2>1
  <2> QED BY <2>1, <2>2, SeqFits, Zenon
<1>4. ASSUME NEW token \in Token, position < MaxContext, Decode(token)
      PROVE  ExecInv'
  <2>1. pc = "idle" /\ ~poisoned /\ Begin("decode", "dispatch", <<token>>, 1)
    BY <1>4 DEF Decode, Accepts
  <2>2. 1 \in 1 .. MaxContext /\ position + 1 <= MaxContext
    BY <1>1, <1>4
  <2> QED BY <1>3, <2>1, <2>2, BeginKeeps
<1>5. ASSUME NEW token \in Token, NEW n \in 1 .. MaxContext, DecodeGreedy(token, n)
      PROVE  ExecInv'
  <2>1. pc = "idle" /\ ~poisoned /\ Begin("greedy", "dispatch", <<token>>, n)
    BY <1>5 DEF DecodeGreedy, Accepts
  <2>2. position + n <= MaxContext
    BY <1>1, <1>5 DEF DecodeGreedy
  <2> QED BY <1>3, <2>1, <2>2, BeginKeeps
<1> QED BY <1>2, <1>4, <1>5 DEF DriverCall

\* The executor's bookkeeping is an invariant: types, the call frame, and the
\* agreement of layer state, device position and logits with the host.
THEOREM ExecutorInvariant == DriverSpec => []ExecInv
<1>1. InitExecutor => ExecInv
  BY InitEstablishes
<1>2. ExecInv /\ [DriverNext]_execVars => ExecInv'
  <2> SUFFICES ASSUME ExecInv, [DriverNext]_execVars PROVE ExecInv'
    OBVIOUS
  <2>1. CASE DriverCall
    BY <2>1, DriverCallKeeps
  <2>2. CASE ExecutorStep \/ ExecutorFailure
    BY <2>2, StepKeeps
  <2>3. CASE DriverCollect
    BY <2>3, EndCallKeeps DEF DriverCollect
  <2>4. CASE Reset
    BY <2>4, ResetKeeps
  <2>5. CASE ResetFails
    BY <2>5, ResetFailsKeeps
  <2>6. CASE EnableTrace
    BY <2>6, EnableTraceKeeps
  <2>7. CASE UNCHANGED execVars
    BY <2>7, StutterKeeps
  <2> QED BY <2>1, <2>2, <2>3, <2>4, <2>5, <2>6, <2>7 DEF DriverNext
<1> QED BY <1>1, <1>2, PTL DEF DriverSpec

\* Full-attention cache, linear-layer state and position always stand for the
\* same tokens: no chunking, eager step, replay or capture tears them apart.
THEOREM LayersStayInStep == DriverSpec => []LayersAgree
BY ExecutorInvariant, InvariantImplies, PTL

\* A graph is never replayed at a position other than the host's, even one
\* captured before a reset or before tracing was switched on and off.
THEOREM ReplaysAreAligned == DriverSpec => []ReplayPositionAgrees
BY ExecutorInvariant, InvariantImplies, PTL

\* The logits a caller may copy belong to the last token consumed.
THEOREM LogitsStayCurrent == DriverSpec => []LogitsAreCurrent
BY ExecutorInvariant, InvariantImplies, PTL

-----------------------------------------------------------------------------
(* The session *)

\* A new session satisfies its invariant.
LEMMA InitSession == Init => SessionInv
<1> SUFFICES ASSUME Init PROVE SessionInv
  OBVIOUS
<1> USE DecodePlanAssumption
<1>1. ExecInv
  BY InitEstablishes DEF Init
<1>2. TypeOK
  <2>1. reply \in UpTo(MaxContext, Token \union {Blank})
    BY EmptyFits DEF Init
  <2>2. ExecutorTypeOK
    BY <1>1 DEF ExecInv
  <2> QED BY <2>1, <2>2 DEF Init, TypeOK, Status
<1>3. PositionsAgree
  BY DEF Init, InitExecutor, PositionsAgree
<1>4. CallAccounted
  BY DEF Init, InitExecutor, CallAccounted
<1> QED BY <1>1, <1>2, <1>3, <1>4 DEF SessionInv

\* A call that has started: the executor begins at the session's position.
LEMMA StartKeeps ==
  ASSUME SessionInv, NEW name \in {"prefill", "decode", "greedy"},
         NEW step \in {"chunk", "dispatch"},
         NEW tokens \in UpTo(MaxContext, Token), NEW n \in Nat,
         HasRoom(n), pc = "idle", ~poisoned,
         step = "chunk" => Len(tokens) = n,
         step = "dispatch" => Len(tokens) = 1,
         Begin(name, step, tokens, n), Start(n)
  PROVE  SessionInv'
<1> USE DecodePlanAssumption
<1>1. sessionPosition = position /\ position \in Nat
  BY DEF SessionInv, PositionsAgree, TypeOK
<1>2. n \in 1 .. MaxContext /\ position + n <= MaxContext
  BY <1>1 DEF HasRoom
<1>3. ExecInv'
  BY <1>2, BeginKeeps DEF SessionInv
<1>4. TypeOK'
  BY <1>2, <1>3 DEF SessionInv, TypeOK, ExecInv, Start
<1>5. PositionsAgree'
  BY DEF SessionInv, PositionsAgree, Begin, Start
<1>6. CallAccounted'
  BY <1>1 DEF CallAccounted, Begin, Start
<1> QED BY <1>3, <1>4, <1>5, <1>6 DEF SessionInv

\* The three calls.
LEMMA CallsKeep ==
  ASSUME SessionInv,
         \/ \E tokens \in Request : CallPrefill(tokens)
         \/ \E token \in Token : CallDecode(token)
         \/ \E token \in Token, n \in 1 .. MaxContext : CallDecodeGreedy(token, n)
  PROVE  SessionInv'
<1> USE DecodePlanAssumption
<1>1. ASSUME NEW tokens \in Request, CallPrefill(tokens) PROVE SessionInv'
  <2>1. tokens \in UpTo(MaxContext, Token)
    BY DEF Request
  <2>2. Len(tokens) \in Nat
    BY <2>1, UpToIsSeq, LenProperties
  <2>3. /\ HasRoom(Len(tokens)) /\ Start(Len(tokens)) /\ pc = "idle" /\ ~poisoned
        /\ Begin("prefill", "chunk", tokens, Len(tokens))
    BY <1>1 DEF CallPrefill, Prefill, Accepts
  <2> QED BY <2>1, <2>2, <2>3, StartKeeps
<1>2. ASSUME NEW token \in Token
      PROVE  <<token>> \in UpTo(MaxContext, Token) /\ Len(<<token>>) = 1
  <2>1. <<token>> \in Seq(Token) /\ Len(<<token>>) = 1
    OBVIOUS
  <2>2. Len(<<token>>) <= MaxContext
    BY <2>1
  <2> QED BY <2>1, <2>2, SeqFits, Zenon
<1>3. ASSUME NEW token \in Token, CallDecode(token) PROVE SessionInv'
  <2>1. /\ HasRoom(1) /\ Start(1) /\ pc = "idle" /\ ~poisoned
        /\ Begin("decode", "dispatch", <<token>>, 1)
    BY <1>3 DEF CallDecode, Decode, Accepts
  <2> QED BY <1>2, <2>1, StartKeeps
<1>4. ASSUME NEW token \in Token, NEW n \in 1 .. MaxContext, CallDecodeGreedy(token, n)
      PROVE  SessionInv'
  <2>1. /\ HasRoom(n) /\ Start(n) /\ pc = "idle" /\ ~poisoned
        /\ Begin("greedy", "dispatch", <<token>>, n)
    BY <1>4 DEF CallDecodeGreedy, DecodeGreedy, Accepts
  <2> QED BY <1>2, <2>1, StartKeeps
<1> QED BY <1>1, <1>3, <1>4

\* A step of a call moves tokens from what is left to what is consumed, so
\* their sum stays; it ends no call.
LEMMA StepAccounts ==
  ASSUME ExecInv, ExecutorStep
  PROVE  /\ at' + left' = at + left
         /\ pc # "idle" /\ pc # "threw" /\ pc' # "idle"
<1> USE DecodePlanAssumption
<1>1. at \in Nat /\ left \in Nat
  BY DEF ExecInv, ExecutorTypeOK
<1>2. CASE PrefillChunk
  <2>1. pc = "chunk" /\ left > 0
    BY <1>2 DEF PrefillChunk, ExecInv, FrameOK
  <2>2. Chunk(left) \in 1 .. left
    BY <1>1, <2>1, ChunkBounds
  <2>3. at' = at + Chunk(left) /\ left' = left - Chunk(left) /\ pc' \in {"chunk", "sync"}
    BY <1>2, <2>1 DEF PrefillChunk
  <2> QED BY <1>1, <2>1, <2>2, <2>3
<1>3. CASE DecodeEager \/ Replay
  <2>1. at' = at + 1 /\ left' = left - 1 /\ pc \in {"eager", "replay"}
        /\ pc' \in {"prepare", "replay"}
    BY <1>3 DEF DecodeEager, Replay
  <2> QED BY <1>1, <2>1
<1>4. CASE PrefillSync \/ Dispatch \/ PrepareNext
  BY <1>1, <1>4 DEF PrefillSync, Dispatch, PrepareNext, frame
<1>5. CASE UploadToken \/ CaptureInRun \/ Download
  BY <1>1, <1>5 DEF UploadToken, CaptureInRun, Download, frame
<1> QED BY <1>2, <1>3, <1>4, <1>5 DEF ExecutorStep

\* The call in progress goes on or throws.
LEMMA RunKeeps ==
  ASSUME SessionInv, Run
  PROVE  SessionInv'
<1>1. ExecInv' /\ UNCHANGED hostVars
  BY StepKeeps DEF SessionInv, Run
<1>2. TypeOK'
  BY <1>1 DEF SessionInv, TypeOK, ExecInv, hostVars
<1>3. CASE ExecutorStep
  <2>1. at' + left' = at + left /\ pc # "idle" /\ pc # "threw" /\ pc' # "idle"
    BY <1>3, StepAccounts DEF SessionInv
  <2>2. PositionsAgree' /\ CallAccounted'
    BY <1>1, <2>1 DEF SessionInv, PositionsAgree, CallAccounted, hostVars
  <2> QED BY <1>1, <1>2, <2>2 DEF SessionInv
<1>4. CASE ExecutorFailure
  <2>1. pc' = "threw"
    BY <1>4 DEF ExecutorFailure, FailInChunk, FailInEager, FailInReplay, FailInSync,
                FailInTransfer, Throw
  <2>2. PositionsAgree' /\ CallAccounted'
    BY <1>1, <2>1 DEF SessionInv, PositionsAgree, CallAccounted, hostVars
  <2> QED BY <1>1, <1>2, <2>2 DEF SessionInv
<1> QED BY <1>3, <1>4 DEF Run

\* A call that comes back from the executor can always be committed.
LEMMA ReturnedFits == SessionInv => CommitAlwaysFits
<1> SUFFICES ASSUME SessionInv, pc = "returned" PROVE CommitFits
  BY DEF CommitAlwaysFits
<1>1. /\ at + left = sessionPosition + want /\ at + left <= MaxContext
      /\ sessionPosition \in Nat /\ want \in Nat
      /\ \A l \in FullLayer : kvLength[l] = sessionPosition
  BY DecodePlanAssumption
     DEF SessionInv, CallAccounted, ExecInv, FrameOK, StaysInContext, TypeOK, PositionsAgree
<1> QED BY <1>1, DecodePlanAssumption DEF CommitFits

\* The commit moves the session to the executor's position.
LEMMA CommitKeeps ==
  ASSUME SessionInv, Commit
  PROVE  /\ SessionInv'
         /\ status' = "ok" /\ ~poisoned' /\ sessionPosition' = position'
<1> USE DecodePlanAssumption
<1>1. CommitFits /\ pc = "returned"
  BY ReturnedFits DEF Commit, CommitAlwaysFits
<1>2. /\ sessionPosition' = sessionPosition + want
      /\ kvLength' = [l \in FullLayer |-> kvLength[l] + want]
      /\ reply' = out /\ status' = "ok" /\ want' = 0 /\ EndCall
  BY <1>1 DEF Commit
<1>3. ExecInv'
  BY <1>1, <1>2, EndCallKeeps DEF SessionInv
<1>4. /\ at + left = sessionPosition + want /\ at = position /\ left = 0
      /\ position \in 0 .. MaxContext /\ ~poisoned
      /\ position' = position /\ poisoned' = poisoned /\ pc' = "idle"
  BY <1>1, <1>2 DEF SessionInv, CallAccounted, ExecInv, ExecutorTypeOK, FrameOK, EndCall
<1>5. sessionPosition' = position
  BY <1>2, <1>4
<1>6. \A l \in FullLayer : kvLength'[l] = position
  BY <1>2, <1>5 DEF SessionInv, PositionsAgree
<1>7. TypeOK'
  <2>1. kvLength' = [l \in FullLayer |-> position]
    BY <1>2, <1>6
  <2>2. reply' \in UpTo(MaxContext, Token \union {Blank})
    BY <1>2 DEF SessionInv, ExecInv, ExecutorTypeOK
  <2> QED BY <1>2, <1>3, <1>4, <1>5, <2>1, <2>2 DEF TypeOK, ExecInv, Status
<1>8. PositionsAgree' /\ CallAccounted'
  BY <1>2, <1>4, <1>5, <1>6 DEF PositionsAgree, CallAccounted
<1> QED BY <1>2, <1>3, <1>4, <1>5, <1>7, <1>8 DEF SessionInv

\* A call that failed changes neither the position nor the layer lengths.
LEMMA SurfaceKeeps ==
  ASSUME SessionInv, Surface
  PROVE  SessionInv'
<1> USE DecodePlanAssumption
<1>1. ExecInv'
  BY EndCallKeeps DEF SessionInv, Surface
<1>2. TypeOK'
  BY <1>1 DEF SessionInv, TypeOK, ExecInv, Surface, Status
<1>3. poisoned' /\ pc' = "idle" /\ want' = 0
  BY DEF SessionInv, ExecInv, FrameOK, Surface, EndCall
<1>4. PositionsAgree' /\ CallAccounted'
  BY <1>3 DEF SessionInv, PositionsAgree, CallAccounted, Surface
<1> QED BY <1>1, <1>2, <1>4 DEF SessionInv

\* Reset, whether it succeeds or fails.
LEMMA ResetsKeep ==
  ASSUME SessionInv, CallReset \/ CallResetFails
  PROVE  SessionInv'
<1> USE DecodePlanAssumption
<1>1. CASE CallReset
  <2>1. ExecInv'
    BY <1>1, ResetKeeps DEF SessionInv, CallReset
  <2>2. TypeOK'
    BY <1>1, <2>1 DEF SessionInv, TypeOK, ExecInv, CallReset, Status
  <2>3. PositionsAgree' /\ CallAccounted'
    BY <1>1 DEF SessionInv, PositionsAgree, CallAccounted, CallReset, Reset
  <2> QED BY <2>1, <2>2, <2>3 DEF SessionInv
<1>2. CASE CallResetFails
  <2>1. ExecInv'
    BY <1>2, ResetFailsKeeps DEF SessionInv, CallResetFails
  <2>2. TypeOK'
    BY <1>2, <2>1 DEF SessionInv, TypeOK, ExecInv, CallResetFails, Status
  <2>3. PositionsAgree' /\ CallAccounted'
    BY <1>2 DEF SessionInv, PositionsAgree, CallAccounted, CallResetFails, ResetFails
  <2> QED BY <2>1, <2>2, <2>3 DEF SessionInv
<1> QED BY <1>1, <1>2

\* Calls that are refused, and steps of somebody else.
LEMMA RefusalsKeep ==
  ASSUME SessionInv, RefuseInvalid \/ RefusePoisoned \/ UNCHANGED vars
  PROVE  SessionInv'
<1>1. /\ UNCHANGED execVars
      /\ UNCHANGED <<sessionPosition, kvLength, want, reply>>
      /\ status' \in Status
  BY DEF RefuseInvalid, RefusePoisoned, Answer, vars, hostVars, Status, SessionInv, TypeOK
<1>2. ExecInv'
  BY <1>1, StutterKeeps DEF SessionInv
<1>3. TypeOK'
  BY <1>1, <1>2 DEF SessionInv, TypeOK, ExecInv
<1>4. pc' = pc /\ poisoned' = poisoned /\ position' = position /\ at' = at /\ left' = left
  BY <1>1 DEF execVars, frame
<1>5. PositionsAgree' /\ CallAccounted'
  BY <1>1, <1>4 DEF SessionInv, PositionsAgree, CallAccounted
<1> QED BY <1>2, <1>3, <1>5 DEF SessionInv

\* The bookkeeping of session and executor is an invariant, whichever calls
\* are made and whichever of their steps fail.
THEOREM SessionInvariant == Spec => []SessionInv
<1>1. Init => SessionInv
  BY InitSession
<1>2. SessionInv /\ [Next]_vars => SessionInv'
  BY CallsKeep, RefusalsKeep, RunKeeps, CommitKeeps, SurfaceKeeps, ResetsKeep DEF Next
<1> QED BY <1>1, <1>2, PTL DEF Spec

\* Between calls a healthy session and its executor are at the same position,
\* and so is every layer.
THEOREM PositionsAlwaysAgree == Spec => []PositionsAgree
<1>1. SessionInv => PositionsAgree
  BY DEF SessionInv
<1> QED BY <1>1, SessionInvariant, PTL

\* The check in commit_tokens never fails after a call that went through.
THEOREM CommitsAlwaysFit == Spec => []CommitAlwaysFits
BY ReturnedFits, SessionInvariant, PTL

\* No call runs past the session's context, though the executor itself only
\* compares with the model's.
THEOREM CallsStayInContext == Spec => []StaysInContext
<1>1. SessionInv => StaysInContext
  BY DEF SessionInv, ExecInv, FrameOK
<1> QED BY <1>1, SessionInvariant, PTL

\* The position of a session moves only when a call succeeds on a healthy
\* executor, and then to where the executor is.
THEOREM OnlySuccessfulCallsCommit == Spec => OnlySuccessCommits
<1>1. SessionInv /\ [Next]_vars =>
        [sessionPosition' # sessionPosition =>
           status' = "ok" /\ ~poisoned' /\ sessionPosition' = position']_vars
  <2> SUFFICES ASSUME SessionInv, Next, sessionPosition' # sessionPosition
               PROVE  status' = "ok" /\ ~poisoned' /\ sessionPosition' = position'
    BY DEF vars, hostVars
  <2>1. CASE Commit
    BY <2>1, CommitKeeps
  <2>2. CASE CallReset
    BY <2>2 DEF CallReset, Reset
  <2> QED BY <2>1, <2>2 DEF Next, CallPrefill, CallDecode, CallDecodeGreedy, Start,
            RefuseInvalid, RefusePoisoned, Answer, Run, hostVars, Surface, CallResetFails
<1> QED BY <1>1, SessionInvariant, PTL DEF Spec, OnlySuccessCommits

\* A poisoned executor becomes usable only by a reset that has cleared every
\* piece of per-sequence state.
THEOREM PoisonHolds == Spec => PoisonHoldsUntilReset
<1> DEFINE Clean == /\ position' = 0 /\ devicePosition' = 0
                    /\ kvCache' = BlankCache /\ recurrent' = <<>>
<1>1. ASSUME Next, poisoned, ~poisoned' PROVE Clean
  <2>1. CASE CallReset
    BY <2>1 DEF CallReset, Reset, Cleared
  <2>2. CASE ~CallReset
    <3>1. ASSUME NEW name, NEW step, NEW tokens, NEW n, Begin(name, step, tokens, n) PROVE FALSE
      BY <1>1, <3>1 DEF Begin
    <3>2. ASSUME EndCall \/ ResetFails \/ UNCHANGED execVars PROVE FALSE
      BY <1>1, <3>2 DEF EndCall, ResetFails, execVars
    <3>3. ASSUME ExecutorFailure PROVE FALSE
      BY <1>1, <3>3 DEF ExecutorFailure, FailInChunk, FailInEager, FailInReplay,
                        FailInSync, FailInTransfer, Throw
    <3>4. ASSUME ExecutorStep PROVE FALSE
      BY <1>1, <3>4 DEF ExecutorStep, PrefillChunk, PrefillSync, Dispatch, DecodeEager,
                        PrepareNext, UploadToken, CaptureInRun, Replay, Download
    <3> QED BY <1>1, <2>2, <3>1, <3>2, <3>3, <3>4
          DEF Next, CallPrefill, Prefill, CallDecode, Decode, CallDecodeGreedy, DecodeGreedy,
              RefuseInvalid, RefusePoisoned, Answer, Run, Commit, Surface, CallResetFails
  <2> QED BY <2>1, <2>2
<1>2. [Next]_vars => [poisoned /\ ~poisoned' => Clean]_execVars
  <2> HIDE DEF Clean
  <2> QED BY <1>1 DEF vars
<1> QED BY <1>2, PTL DEF Spec, PoisonHoldsUntilReset

-----------------------------------------------------------------------------
(* Towards the refinement: what a call in progress has answered *)

\* Logits computed over layers that stand for the same tokens select the
\* model's prediction for those tokens.
LEMMA PredictionOfLayers ==
  ASSUME NEW r \in Seq(Token), Len(r) <= MaxContext
  PROVE  Argmax(LogitsOver([p \in Position |-> IF p < Len(r) THEN r[p + 1] ELSE Blank],
                           Len(r), r)) = Predict(r)
<1> DEFINE c == [p \in Position |-> IF p < Len(r) THEN r[p + 1] ELSE Blank]
<1> USE DecodePlanAssumption
<1>1. Len(r) \in Nat /\ r = [i \in 1 .. Len(r) |-> r[i]]
  BY LenProperties
<1>2. ASSUME NEW i \in 1 .. Len(r) PROVE c[i - 1] = r[i]
  BY <1>1 DEF Position
<1>3. [i \in 1 .. Len(r) |-> c[i - 1]] = r
  <2> HIDE DEF c
  <2>1. [i \in 1 .. Len(r) |-> c[i - 1]] = [i \in 1 .. Len(r) |-> r[i]]
    BY <1>2
  <2> QED BY <1>1, <2>1
<1> HIDE DEF c
<1>4. LogitsOver(c, Len(r), r) = [cache |-> r, recurrent |-> r]
  BY <1>3 DEF LogitsOver
<1> QED BY <1>4 DEF Predict, c

\* What was consumed before a position is not touched by what follows it.
LEMMA PrefixStays ==
  ASSUME NEW r \in Seq(Token), NEW t \in Seq(Token), NEW k \in 0 .. Len(r)
  PROVE  SubSeq(r \o t, 1, k) = SubSeq(r, 1, k)
<1>1. Len(r) \in Nat /\ Len(t) \in Nat
  BY LenProperties
<1>2. \A i \in 1 .. Len(r) : (r \o t)[i] = r[i]
  BY <1>1, ConcatProperties
<1>3. SubSeq(r \o t, 1, k) = [i \in 1 .. k |-> (r \o t)[i]]
  BY <1>1, ConcatProperties, SubSeqProperties
<1>4. SubSeq(r, 1, k) = [i \in 1 .. k |-> r[i]]
  BY <1>1, SubSeqProperties
<1> QED BY <1>1, <1>2, <1>3, <1>4

\* A sequence is its own prefix of full length.
LEMMA WholePrefix ==
  ASSUME NEW r \in Seq(Token)
  PROVE  SubSeq(r, 1, Len(r)) = r
<1>1. Len(r) \in Nat
  BY LenProperties
<1> QED BY <1>1, SubSeqProperties, LenProperties

\* A call that consumes the token it produced last and predicts the next one
\* has produced one more prediction.
LEMMA ChainGrows ==
  ASSUME NEW r \in Seq(Token), NEW p \in Seq(Token \union {Blank}), NEW s \in Nat,
         Len(r) = s + Len(p), NEW t \in Token, NEW new \in Token,
         Predicted(p, r, s), FedBack(p, r, s), Len(p) > 0 => t = p[Len(p)],
         new = Predict(r \o <<t>>)
  PROVE  /\ Len(Append(p, new)) = Len(p) + 1
         /\ Predicted(Append(p, new), r \o <<t>>, s)
         /\ FedBack(Append(p, new), r \o <<t>>, s)
         /\ Append(p, new)[Len(p) + 1] = new
<1> DEFINE q == Append(p, new)
           u == r \o <<t>>
<1>1. Len(p) \in Nat /\ Len(r) \in Nat
  BY LenProperties
<1>2. /\ Len(q) = Len(p) + 1
      /\ \A i \in 1 .. Len(p) : q[i] = p[i]
      /\ q[Len(p) + 1] = new
  BY AppendProperties
<1>3. /\ u \in Seq(Token) /\ Len(u) = Len(r) + 1
      /\ \A i \in 1 .. Len(r) : u[i] = r[i]
      /\ u[Len(r) + 1] = t
  <2>1. <<t>> \in Seq(Token) /\ Len(<<t>>) = 1 /\ <<t>>[1] = t
    OBVIOUS
  <2>2. /\ u \in Seq(Token) /\ Len(u) = Len(r) + 1
        /\ \A i \in 1 .. Len(r) + 1 : u[i] = IF i <= Len(r) THEN r[i] ELSE <<t>>[i - Len(r)]
    BY <2>1, ConcatProperties
  <2> HIDE DEF u
  <2> QED BY <1>1, <2>1, <2>2
<1>4. ASSUME NEW i \in 1 .. Len(p) PROVE SubSeq(u, 1, s + i) = SubSeq(r, 1, s + i)
  <2>1. <<t>> \in Seq(Token) /\ s + i \in 0 .. Len(r)
    BY <1>1
  <2> QED BY <2>1, PrefixStays
<1>5. SubSeq(u, 1, s + (Len(p) + 1)) = u
  <2>1. s + (Len(p) + 1) = Len(u)
    BY <1>1, <1>3
  <2> QED BY <1>3, <2>1, WholePrefix
<1>6. new = Predict(u)
  OBVIOUS
<1> HIDE DEF q, u
<1>7. Predicted(q, u, s)
  <2> SUFFICES ASSUME NEW i \in 1 .. Len(p) + 1 PROVE q[i] = Predict(SubSeq(u, 1, s + i))
    BY <1>2 DEF Predicted
  <2>1. CASE i \in 1 .. Len(p)
    BY <1>2, <1>4, <2>1 DEF Predicted
  <2>2. CASE i = Len(p) + 1
    BY <1>2, <1>5, <1>6, <2>2
  <2> QED BY <1>1, <2>1, <2>2
<1>8. FedBack(q, u, s)
  <2> SUFFICES ASSUME NEW i \in 1 .. Len(p) PROVE u[s + i + 1] = q[i]
    BY <1>1, <1>2 DEF FedBack
  <2>1. CASE i < Len(p)
    <3>1. r[s + i + 1] = p[i]
      BY <1>1, <2>1 DEF FedBack
    <3> QED BY <1>1, <1>2, <1>3, <2>1, <3>1
  <2>2. CASE i = Len(p)
    BY <1>1, <1>2, <1>3, <2>2
  <2> QED BY <1>1, <2>1, <2>2
<1> QED BY <1>2, <1>7, <1>8 DEF q, u

\* A run of replays keeps its results, one per position from its first.
LEMMA ResultsTyped ==
  ASSUME ExecInv, pc = "replay"
  PROVE  /\ RunResults \in Seq(Token \union {Blank}) /\ Len(RunResults) = at - from
         /\ at - from \in Nat
         /\ out \o RunResults \in Seq(Token \union {Blank})
         /\ Len(out \o RunResults) = Len(out) + (at - from)
<1> USE DecodePlanAssumption
<1>1. at - from \in Nat /\ at \in 0 .. MaxContext /\ from \in Nat
  BY DEF ExecInv, ExecutorTypeOK, FrameOK
<1>2. RunResults \in [1 .. at - from -> Token \union {Blank}]
  BY <1>1 DEF RunResults, ExecInv, ExecutorTypeOK, Position
<1>3. RunResults \in Seq(Token \union {Blank})
  BY <1>1, <1>2, SeqDef
<1>4. Len(RunResults) = at - from
  BY <1>1, <1>2, <1>3, LenProperties
<1>5. out \in Seq(Token \union {Blank})
  BY UpToIsSeq DEF ExecInv, ExecutorTypeOK
<1> QED BY <1>1, <1>3, <1>4, <1>5, ConcatProperties

\* Logits just computed over everything consumed select the prediction.
LEMMA StepPredicts ==
  ASSUME ExecInv', Trusted', pc' # "idle",
         logits' = LogitsOver(kvCache', at', recurrent')
  PROVE  Argmax(logits') = Predict(recurrent') /\ Argmax(logits') \in Token
<1> USE DecodePlanAssumption
<1>1. /\ Len(recurrent') = at'
      /\ kvCache' = [p \in Position |-> IF p < at' THEN recurrent'[p + 1] ELSE Blank]
  BY DEF ExecInv, LayersAgree, Consumed
<1>2. recurrent' \in Seq(Token) /\ Len(recurrent') <= MaxContext /\ logits' \in Logits
  BY UpToIsSeq DEF ExecInv, ExecutorTypeOK
<1>3. LogitsOver(kvCache', at', recurrent')
        = LogitsOver([p \in Position |-> IF p < Len(recurrent') THEN recurrent'[p + 1] ELSE Blank],
                     Len(recurrent'), recurrent')
  BY <1>1
<1> QED BY <1>2, <1>3, PredictionOfLayers, ArgmaxTyped

\* A call that has started has answered nothing yet.
LEMMA StartAnswers ==
  ASSUME SessionInv,
         \/ \E tokens \in Request : CallPrefill(tokens)
         \/ \E token \in Token : CallDecode(token)
         \/ \E token \in Token, n \in 1 .. MaxContext : CallDecodeGreedy(token, n)
  PROVE  CallAnswers'
<1>1. PICK name \in {"prefill", "decode", "greedy"}, n \in Nat :
        /\ pc = "idle" /\ ~poisoned /\ n > 0 /\ Start(n)
        /\ op' = name /\ at' = position /\ out' = <<>>
        /\ pc' = IF name = "prefill" THEN "chunk" ELSE "dispatch"
        /\ name = "decode" => n = 1
  <2>1. ASSUME NEW tokens \in Request, CallPrefill(tokens)
        PROVE  Len(tokens) \in Nat
    BY UpToIsSeq, LenProperties, DecodePlanAssumption DEF Request
  <2> QED BY <2>1 DEF CallPrefill, CallDecode, CallDecodeGreedy, Prefill, Decode,
                DecodeGreedy, Accepts, HasRoom, Begin
<1>2. sessionPosition' = at' /\ at' \in Nat /\ want' > 0
  BY <1>1 DEF SessionInv, PositionsAgree, ExecInv, ExecutorTypeOK, Start
<1>3. Len(Produced') = 0
  <2>1. Produced' = <<>>
    BY <1>1 DEF Produced
  <2> QED BY <2>1
<1>4. ChainsAnswers'
  <2>1. Len(Produced') = at' - sessionPosition'
    <3>1. \A a \in Nat : \A b : b = a => a - b = 0
      OBVIOUS
    <3>2. at' \in Nat /\ sessionPosition' = at'
      BY <1>2
    <3>3. at' - sessionPosition' = 0
      BY <3>1, <3>2, Zenon
    <3> QED BY <1>3, <3>3
  <2>2. 1 .. Len(Produced') = {}
    BY <1>3
  <2>3. 1 .. Len(Produced') - 1 = {}
    BY <1>3
  <2> QED BY <1>3, <2>1, <2>2, <2>3 DEF ChainsAnswers, Predicted, FedBack
<1> QED BY <1>1, <1>2, <1>4 DEF CallAnswers, Start

\* A step of a decode call that moves neither the layers nor the answers.
LEMMA AnswersStay ==
  ASSUME CallAnswers, Trusted' => Trusted,
         pc \in {"dispatch", "prepare", "upload", "replay"}, pc' \notin {"chunk", "sync"},
         UNCHANGED <<sessionPosition, want, op, at, recurrent>>,
         Trusted => Produced' = Produced,
         pc' # "returned" => NextToken' = NextToken,
         Trusted /\ pc' = "replay" => from' = sessionPosition + Len(out')
  PROVE  CallAnswers'
<1> SUFFICES ASSUME Trusted'
             PROVE  /\ op \in {"decode", "greedy"} /\ (op = "decode" => want = 1)
                    /\ sessionPosition <= at /\ want > 0
                    /\ ChainsAnswers'
  BY DEF CallAnswers
<1>1. /\ op \in {"decode", "greedy"} /\ (op = "decode" => want = 1)
      /\ sessionPosition <= at /\ want > 0
      /\ ChainsAnswers
  BY DEF CallAnswers
<1>2. ChainsAnswers'
  BY <1>1 DEF ChainsAnswers
<1> QED BY <1>1, <1>2

\* The chunks of a prefill answer once they are through.
LEMMA PrefillAnswers ==
  ASSUME SessionInv, CallAnswers, SessionInv', UNCHANGED hostVars,
         PrefillChunk \/ PrefillSync
  PROVE  CallAnswers'
<1> SUFFICES ASSUME Trusted', pc' \notin {"idle", "threw"}
             PROVE  /\ sessionPosition <= at' /\ want > 0 /\ op = "prefill" /\ op' = op
                    /\ pc' \in {"chunk", "sync", "returned"}
                    /\ pc' # "chunk" => out' = <<Predict(recurrent')>>
  BY DEF CallAnswers, hostVars
<1>1. CASE PrefillChunk
  <2>1. /\ pc = "chunk" /\ Trusted /\ op' = op /\ at' = at + Chunk(left)
        /\ pc' \in {"chunk", "sync"}
        /\ pc' = "sync" => /\ out' = <<Argmax(logits')>>
                           /\ logits' = LogitsOver(kvCache', at', recurrent')
    BY <1>1 DEF PrefillChunk, ProducesLogits, Trusted
  <2>2. op = "prefill" /\ sessionPosition <= at /\ want > 0
    BY <2>1 DEF CallAnswers
  <2>3. at \in Nat /\ sessionPosition \in Nat /\ Chunk(left) \in Nat
    <3>1. left \in Nat /\ left > 0 /\ at \in Nat /\ sessionPosition \in Nat
      BY <2>1, DecodePlanAssumption DEF SessionInv, ExecInv, ExecutorTypeOK, FrameOK, TypeOK
    <3> QED BY <3>1, ChunkBounds
  <2>4. pc' = "sync" => Argmax(logits') = Predict(recurrent')
    BY <2>1, StepPredicts DEF SessionInv
  <2> QED BY <2>1, <2>2, <2>3, <2>4
<1>2. CASE PrefillSync
  <2>1. /\ pc = "sync" /\ Trusted /\ pc' = "returned"
        /\ UNCHANGED <<op, at, out, recurrent>>
    BY <1>2 DEF PrefillSync, Trusted, frame
  <2> QED BY <2>1 DEF CallAnswers
<1> QED BY <1>1, <1>2

\* A decode call that consumes the token it produced last, eagerly or by a
\* replay, has one more answer.
LEMMA StepAnswers ==
  ASSUME SessionInv, CallAnswers, SessionInv', UNCHANGED <<sessionPosition, want, op>>,
         pc \in {"eager", "replay"}, pc' \notin {"idle", "threw", "chunk", "sync", "returned"},
         Trusted' => Trusted, at' = at + 1,
         Produced \in Seq(Token \union {Blank}),
         NextToken \in Token, recurrent' = recurrent \o <<NextToken>>,
         Trusted' => logits' = LogitsOver(kvCache', at', recurrent'),
         Trusted' => Produced' = Append(Produced, Argmax(logits')),
         Trusted' => NextToken' = Argmax(logits'),
         pc' = "replay" => pc = "replay" /\ UNCHANGED <<from, out>>
  PROVE  CallAnswers'
<1> SUFFICES ASSUME Trusted' PROVE CallAnswers'
  BY DEF CallAnswers
<1>1. /\ op \in {"decode", "greedy"} /\ (op = "decode" => want = 1)
      /\ sessionPosition <= at /\ want > 0 /\ ChainsAnswers /\ Trusted
      /\ pc = "replay" => from = sessionPosition + Len(out)
  BY DEF CallAnswers
<1>2. at \in Nat /\ sessionPosition \in Nat
  BY DecodePlanAssumption DEF SessionInv, TypeOK, ExecutorTypeOK
<1>3. recurrent \in Seq(Token) /\ Len(recurrent) = at
  BY <1>1, UpToIsSeq, DecodePlanAssumption
     DEF SessionInv, ExecInv, ExecutorTypeOK, LayersAgree, Consumed
<1>4. Argmax(logits') = Predict(recurrent') /\ Argmax(logits') \in Token
  BY StepPredicts DEF SessionInv
<1> DEFINE p == Produced
           new == Argmax(logits')
<1>5. /\ Len(p) = at - sessionPosition /\ Len(recurrent) = sessionPosition + Len(p)
      /\ Predicted(p, recurrent, sessionPosition) /\ FedBack(p, recurrent, sessionPosition)
      /\ Len(p) > 0 => NextToken = p[Len(p)]
  BY <1>1, <1>2, <1>3 DEF ChainsAnswers
<1> HIDE DEF p, new
<1>6. /\ Len(Append(p, new)) = Len(p) + 1
      /\ Predicted(Append(p, new), recurrent', sessionPosition)
      /\ FedBack(Append(p, new), recurrent', sessionPosition)
      /\ Append(p, new)[Len(p) + 1] = new
  <2>1. p \in Seq(Token \union {Blank}) /\ new \in Token /\ new = Predict(recurrent \o <<NextToken>>)
    BY <1>4 DEF p, new
  <2> DEFINE t == NextToken
             r == recurrent
             s == sessionPosition
  <2>2. r \in Seq(Token) /\ s \in Nat /\ t \in Token /\ Len(r) = s + Len(p)
    BY <1>2, <1>3, <1>5
  <2>3. Predicted(p, r, s) /\ FedBack(p, r, s) /\ (Len(p) > 0 => t = p[Len(p)])
    BY <1>5
  <2>4. new = Predict(r \o <<t>>) /\ recurrent' = r \o <<t>>
    BY <1>4 DEF new
  <2>5. p \in Seq(Token \union {Blank}) /\ new \in Token
    BY <2>1
  <2> HIDE DEF t, r, s
  <2>6. /\ Len(Append(p, new)) = Len(p) + 1
        /\ Predicted(Append(p, new), r \o <<t>>, s)
        /\ FedBack(Append(p, new), r \o <<t>>, s)
        /\ Append(p, new)[Len(p) + 1] = new
    BY ONLY <2>2, <2>3, <2>4, <2>5, ChainGrows, SMTT(30)
  <2> QED BY <2>4, <2>6 DEF r, s
<1>7. Produced' = Append(p, new) /\ NextToken' = new
  BY DEF p, new
<1>8. ChainsAnswers'
  <2>1. Len(Produced') = (at - sessionPosition)' /\ Len(Produced') = Len(p) + 1
    BY <1>2, <1>5, <1>6, <1>7
  <2> QED BY <1>6, <1>7, <2>1 DEF ChainsAnswers
<1> QED BY <1>1, <1>2, <1>8 DEF CallAnswers

\* One token decoded by eager launches.
LEMMA EagerAnswers ==
  ASSUME SessionInv, CallAnswers, SessionInv', UNCHANGED hostVars, DecodeEager
  PROVE  CallAnswers'
<1>1. /\ pc = "eager" /\ pc' = "prepare" /\ at' = at + 1 /\ op' = op
      /\ RunChunk(at, input) /\ logits' = LogitsOver(kvCache', at + 1, recurrent')
      /\ out' = Append(out, Argmax(logits')) /\ input' = <<Argmax(logits')>>
      /\ (Trusted' => Trusted)
  BY DEF DecodeEager, Trusted
<1>2. Len(input) = 1 /\ input \in Seq(Token) /\ out \in Seq(Token \union {Blank})
  BY <1>1, UpToIsSeq, DecodePlanAssumption DEF SessionInv, ExecInv, ExecutorTypeOK, FrameOK
<1>3. input[1] \in Token /\ input = <<input[1]>>
  BY <1>2
<1>4. /\ Produced = out /\ NextToken = input[1]
      /\ Produced' = out' /\ NextToken' = Argmax(logits')
  BY <1>1 DEF Produced, NextToken
<1>5. recurrent' = recurrent \o <<NextToken>>
  BY <1>1, <1>3, <1>4 DEF RunChunk
<1> QED BY <1>1, <1>2, <1>3, <1>4, <1>5, StepAnswers DEF hostVars

\* One graph replay: its result joins those of the run.
LEMMA ReplayAnswers ==
  ASSUME SessionInv, CallAnswers, SessionInv', UNCHANGED hostVars, Replay
  PROVE  CallAnswers'
<1> USE DecodePlanAssumption
<1> DEFINE new == Argmax(logits')
           p == RunResults
           n == at - from
<1>1. /\ pc = "replay" /\ pc' = "replay" /\ at' = at + 1 /\ op' = op
      /\ RunChunk(devicePosition, <<deviceToken>>)
      /\ logits' = LogitsOver(kvCache', devicePosition + 1, recurrent')
      /\ deviceResults' = [deviceResults EXCEPT ![devicePosition] = new]
      /\ deviceToken' = new /\ (Trusted' => Trusted)
      /\ UNCHANGED <<from, out>> /\ at < MaxContext
  BY DEF Replay, Trusted
<1>2. /\ deviceToken \in Token /\ n \in Nat /\ at \in Nat /\ from \in Nat
      /\ deviceResults \in [Position -> Token \union {Blank}]
      /\ out \in Seq(Token \union {Blank})
  BY <1>1, UpToIsSeq, SMTT(30) DEF SessionInv, ExecInv, ExecutorTypeOK, FrameOK
<1>3. /\ p \in Seq(Token \union {Blank}) /\ Len(p) = n
      /\ out \o p \in Seq(Token \union {Blank})
  BY <1>1, ResultsTyped DEF SessionInv
<1>4. NextToken = deviceToken /\ Produced = out \o p /\ NextToken' = new
  BY <1>1 DEF NextToken, Produced
<1>5. recurrent' = recurrent \o <<NextToken>>
  BY <1>1, <1>4 DEF RunChunk
<1>6. ASSUME Trusted' PROVE devicePosition = at /\ new \in Token
  <2>1. devicePosition = at
    BY <1>1, <1>6 DEF SessionInv, ExecInv, ReadyToReplay
  <2>2. logits' \in Logits
    BY DEF SessionInv, ExecInv, ExecutorTypeOK
  <2> QED BY <2>1, <2>2, ArgmaxTyped
<1>7. Trusted' => logits' = LogitsOver(kvCache', at', recurrent')
  BY <1>1, <1>6
<1>8. ASSUME Trusted' PROVE Produced' = Append(Produced, new)
  <2>1. RunResults' = Append(p, new)
    <3>1. RunResults' = [i \in 1 .. n + 1 |-> IF i = n + 1 THEN new ELSE deviceResults[from + i - 1]]
      <4> SUFFICES ASSUME NEW i \in 1 .. n + 1
                   PROVE  deviceResults'[from + i - 1]
                            = IF i = n + 1 THEN new ELSE deviceResults[from + i - 1]
        <5>1. RunResults' = [i \in 1 .. at' - from' |-> deviceResults'[from' + i - 1]]
          BY DEF RunResults
        <5>2. at' - from' = n + 1 /\ from' = from
          BY <1>1, <1>2
        <5> QED BY <5>1, <5>2
      <4>1. from + i - 1 \in Position /\ (from + i - 1 = at <=> i = n + 1)
        BY <1>1, <1>2 DEF Position
      <4> QED BY <1>1, <1>2, <1>6, <1>8, <4>1
    <3>2. p = [i \in 1 .. n |-> deviceResults[from + i - 1]]
      BY DEF RunResults
    <3> HIDE DEF p, new, n
    <3>3. /\ Append(p, new) \in Seq(Token \union {Blank}) /\ Len(Append(p, new)) = n + 1
          /\ \A i \in 1 .. n : Append(p, new)[i] = p[i]
          /\ Append(p, new)[n + 1] = new
      BY <1>3, <1>6, <1>8, AppendProperties
    <3>4. Append(p, new) = [i \in 1 .. n + 1 |-> Append(p, new)[i]]
      BY <3>3, LenProperties
    <3>5. ASSUME NEW i \in 1 .. n + 1
          PROVE  Append(p, new)[i] = IF i = n + 1 THEN new ELSE deviceResults[from + i - 1]
      BY <1>2, <3>2, <3>3
    <3> QED BY <3>1, <3>4, <3>5
  <2>2. Append(out \o p, new) = out \o Append(p, new)
    <3> DEFINE S == Token \union {Blank}
               o == out
    <3>1. o \in Seq(S) /\ p \in Seq(S) /\ new \in S /\ <<new>> \in Seq(S) /\ o \o p \in Seq(S)
      BY <1>2, <1>3, <1>6, <1>8
    <3> HIDE DEF p, new, n, S, o
    <3>2. Append(o \o p, new) = (o \o p) \o <<new>> /\ Append(p, new) = p \o <<new>>
      BY ONLY <3>1, AppendIsConcat
    <3>3. (o \o p) \o <<new>> = o \o (p \o <<new>>)
      BY ONLY <3>1, ConcatAssociative
    <3> QED BY <3>2, <3>3 DEF o
  <2> QED BY <1>1, <1>4, <2>1, <2>2 DEF Produced
<1> QED BY <1>1, <1>2, <1>3, <1>4, <1>5, <1>7, <1>8, StepAnswers DEF hostVars

\* The results of a run reach the caller: all of them for decode_greedy, the
\* one that is there for decode.
LEMMA DownloadAnswers ==
  ASSUME SessionInv, CallAnswers, SessionInv', UNCHANGED hostVars, Download
  PROVE  CallAnswers'
<1> USE DecodePlanAssumption
<1>1. /\ pc = "replay" /\ pc' = "returned" /\ left = 0 /\ at' = at /\ op' = op
      /\ out' = out \o (IF op = "decode" THEN <<Argmax(logits)>> ELSE RunResults)
      /\ UNCHANGED <<recurrent, kvCache, logits>> /\ (Trusted' => Trusted)
      /\ sessionPosition' = sessionPosition /\ want' = want
  BY DEF Download, device, hostVars, Trusted
<1> SUFFICES ASSUME Trusted' PROVE CallAnswers'
  BY DEF CallAnswers
<1>2. /\ op \in {"decode", "greedy"} /\ (op = "decode" => want = 1)
      /\ sessionPosition <= at /\ want > 0 /\ ChainsAnswers
      /\ from = sessionPosition + Len(out)
  BY <1>1 DEF CallAnswers
<1>3. Produced = out \o RunResults /\ Produced' = out'
  BY <1>1 DEF Produced
<1>4. CASE op = "greedy"
  <2>1. Produced' = Produced
    BY <1>1, <1>3, <1>4
  <2> QED BY <1>1, <1>2, <2>1, AnswersStay
<1>5. CASE op = "decode"
  <2>1. at = sessionPosition + 1 /\ at \in Nat /\ sessionPosition \in Nat
    BY <1>1, <1>2, <1>5 DEF SessionInv, CallAccounted, TypeOK, ExecInv, ExecutorTypeOK
  <2>2. out = <<>>
    <3>1. at - from + left > 0 /\ from \in Nat
      <4>1. FrameOK /\ ExecutorTypeOK
        BY DEF SessionInv, ExecInv
      <4> QED BY ONLY <1>1, <4>1, DecodePlanAssumption DEF FrameOK, ExecutorTypeOK
    <3>2. out \in Seq(Token \union {Blank}) /\ Len(out) \in Nat
      BY UpToIsSeq, LenProperties DEF SessionInv, ExecInv, ExecutorTypeOK
    <3>3. Len(out) = 0
      BY <1>1, <1>2, <2>1, <3>1, <3>2
    <3> QED BY <3>2, <3>3, EmptySeq
  <2>3. /\ recurrent \in Seq(Token) /\ Len(recurrent) = at /\ Len(recurrent) <= MaxContext
        /\ kvCache = [q \in Position |-> IF q < Len(recurrent) THEN recurrent[q + 1] ELSE Blank]
        /\ logits = LogitsOver(kvCache, Len(recurrent), recurrent)
    BY <1>1, <2>1, UpToIsSeq
       DEF SessionInv, ExecInv, ExecutorTypeOK, LayersAgree, LogitsFollow, Consumed
  <2>4. Argmax(logits) = Predict(recurrent)
    BY <2>3, PredictionOfLayers
  <2>5. SubSeq(recurrent, 1, sessionPosition + 1) = recurrent
    BY <2>1, <2>3, WholePrefix
  <2>6. out' = <<Predict(recurrent)>>
    <3>1. <<Predict(recurrent)>> \in Seq({Predict(recurrent)})
      OBVIOUS
    <3>2. <<>> \o <<Predict(recurrent)>> = <<Predict(recurrent)>>
      BY <3>1, ConcatEmptySeq
    <3> QED BY <1>1, <1>5, <2>2, <2>4, <3>2
  <2>7. Len(out') = 1 /\ out'[1] = Predict(SubSeq(recurrent', 1, sessionPosition' + 1))
    <3>1. Len(out') = 1 /\ out'[1] = Predict(recurrent)
      BY ONLY <2>6
    <3>2. SubSeq(recurrent', 1, sessionPosition' + 1) = recurrent
      BY <1>1, <2>5
    <3> QED BY <3>1, <3>2
  <2>8. ChainsAnswers'
    BY <1>1, <1>3, <2>1, <2>7 DEF ChainsAnswers, Predicted, FedBack
  <2> QED BY <1>1, <1>2, <1>5, <2>8 DEF CallAnswers
<1> QED BY <1>2, <1>4, <1>5

\* The other steps of a decode call: nothing is consumed, nothing produced.
LEMMA OtherStepsAnswer ==
  ASSUME SessionInv, CallAnswers, SessionInv', UNCHANGED hostVars,
         Dispatch \/ PrepareNext \/ UploadToken \/ CaptureInRun
  PROVE  CallAnswers'
<1> USE DecodePlanAssumption
<1>1. CASE Dispatch \/ PrepareNext
  <2>1. /\ pc \in {"dispatch", "prepare"} /\ pc' \in {"upload", "eager", "returned", "dispatch"}
        /\ UNCHANGED <<op, at, out, input, recurrent>> /\ (Trusted' => Trusted)
    BY <1>1 DEF Dispatch, PrepareNext, frame, device, Trusted
  <2>2. Produced' = Produced /\ NextToken' = NextToken
    BY <2>1 DEF Produced, NextToken
  <2> QED BY <2>1, <2>2, AnswersStay DEF hostVars
<1>2. CASE UploadToken
  <2>1. /\ pc = "upload" /\ pc' = "replay" /\ from' = at /\ deviceToken' = Head(input)
        /\ UNCHANGED <<op, at, out, input, recurrent, deviceResults>> /\ (Trusted' => Trusted)
        /\ at \in Nat
    BY <1>2 DEF UploadToken, Trusted, SessionInv, ExecInv, ExecutorTypeOK
  <2>2. out \in Seq(Token \union {Blank}) /\ input \in Seq(Token) /\ Len(input) = 1
    BY <2>1, UpToIsSeq DEF SessionInv, ExecInv, ExecutorTypeOK, FrameOK
  <2>3. NextToken' = NextToken
    BY <2>1, <2>2 DEF NextToken
  <2>4. RunResults' = <<>>
    <3>1. at' - from' = 0
      BY <2>1
    <3> QED BY <3>1 DEF RunResults
  <2>5. Produced' = Produced
    BY <2>1, <2>2, <2>4, ConcatEmptySeq DEF Produced
  <2>6. Trusted => from' = sessionPosition + Len(out)
    <3> SUFFICES ASSUME Trusted PROVE at = sessionPosition + Len(out)
      BY <2>1
    <3>1. Len(Produced) = at - sessionPosition /\ sessionPosition \in Nat /\ Produced = out
      BY <2>1 DEF CallAnswers, ChainsAnswers, Produced, SessionInv, TypeOK
    <3> QED BY <2>1, <3>1
  <2> QED BY <2>1, <2>3, <2>5, <2>6, AnswersStay DEF hostVars
<1>3. CASE CaptureInRun
  <2>1. /\ pc = "replay" /\ pc' = "replay" /\ (Trusted' => Trusted)
        /\ UNCHANGED <<op, at, from, out, deviceToken, deviceResults, recurrent>>
    BY <1>3 DEF CaptureInRun, frame, Trusted
  <2>2. RunResults' = RunResults
    BY <2>1 DEF RunResults
  <2>3. Produced' = Produced /\ NextToken' = NextToken
    BY <2>1, <2>2 DEF Produced, NextToken
  <2>4. Trusted => from = sessionPosition + Len(out)
    BY <2>1 DEF CallAnswers
  <2> QED BY <2>1, <2>3, <2>4, AnswersStay DEF hostVars
<1> QED BY <1>1, <1>2, <1>3

\* What a call has answered is kept by every step of the system.
LEMMA AnswersKept ==
  ASSUME SessionInv, CallAnswers, SessionInv', [Next]_vars
  PROVE  CallAnswers'
<1>1. CASE \/ \E tokens \in Request : CallPrefill(tokens)
           \/ \E token \in Token : CallDecode(token)
           \/ \E token \in Token, n \in 1 .. MaxContext : CallDecodeGreedy(token, n)
  BY <1>1, StartAnswers
<1>2. CASE Run
  <2>1. UNCHANGED hostVars
    BY <1>2 DEF Run
  <2>2. CASE ExecutorStep
    BY <2>1, <2>2, PrefillAnswers, EagerAnswers, ReplayAnswers, DownloadAnswers,
       OtherStepsAnswer DEF ExecutorStep
  <2>3. CASE ExecutorFailure
    <3>1. pc' = "threw"
      BY <2>3 DEF ExecutorFailure, FailInChunk, FailInEager, FailInReplay, FailInSync,
                  FailInTransfer, Throw
    <3> QED BY <3>1 DEF CallAnswers
  <2> QED BY <1>2, <2>2, <2>3 DEF Run
<1>3. CASE RefuseInvalid \/ RefusePoisoned \/ Commit \/ Surface \/ CallReset \/ CallResetFails
  <2>1. pc' = "idle"
    BY <1>3 DEF RefuseInvalid, RefusePoisoned, Answer, execVars, Commit, Surface, EndCall,
                CallReset, CallResetFails, Reset, ResetFails
  <2> QED BY <2>1 DEF CallAnswers
<1>4. CASE UNCHANGED vars
  <2>1. UNCHANGED <<poisoned, torn, pc, op, at, from, out, input, want, sessionPosition,
                    recurrent, deviceToken, deviceResults>>
    BY <1>4 DEF vars, execVars, hostVars, device, frame
  <2>2. RunResults' = RunResults
    BY <2>1 DEF RunResults
  <2>3. Produced' = Produced /\ NextToken' = NextToken
    BY <2>1, <2>2 DEF Produced, NextToken
  <2>4. ChainsAnswers' = ChainsAnswers
    BY <2>1, <2>3 DEF ChainsAnswers
  <2> QED BY <2>1, <2>4 DEF CallAnswers, Trusted
<1> QED BY <1>1, <1>2, <1>3, <1>4 DEF Next

\* The invariant of the refinement.
THEOREM AnswersInvariant == Spec => [](SessionInv /\ CallAnswers)
<1>1. Init => SessionInv /\ CallAnswers
  BY InitSession DEF Init, InitExecutor, CallAnswers
<1>2. SessionInv /\ CallAnswers /\ SessionInv' /\ [Next]_vars => CallAnswers'
  BY AnswersKept
<1> QED BY <1>1, <1>2, SessionInvariant, PTL DEF Spec

-----------------------------------------------------------------------------
(* The refinement, step by step *)

\* The tokens a healthy session has consumed are a prefix of what its layers
\* have folded in.
LEMMA HistoryInLayers ==
  ASSUME SessionInv, CallAnswers, Mode = "ok"
  PROVE  /\ Trusted /\ recurrent \in Seq(Token) /\ Len(recurrent) = Consumed
         /\ sessionPosition \in 0 .. Len(recurrent) /\ sessionPosition <= MaxContext
         /\ pc = "idle" => Len(recurrent) = sessionPosition
<1> USE DecodePlanAssumption
<1>1. Trusted
  BY DEF Mode, Trusted
<1>2. recurrent \in Seq(Token) /\ Len(recurrent) = Consumed /\ sessionPosition \in 0 .. MaxContext
  BY <1>1, UpToIsSeq DEF SessionInv, ExecInv, ExecutorTypeOK, LayersAgree, TypeOK
<1>3. pc # "threw"
  BY <1>1 DEF SessionInv, ExecInv, FrameOK, Trusted
<1>4. CASE pc = "idle"
  BY <1>1, <1>2, <1>4 DEF SessionInv, PositionsAgree, Consumed, Trusted
<1>5. CASE pc # "idle"
  <2>1. sessionPosition <= at /\ at \in Nat
    BY <1>1, <1>3, <1>5 DEF CallAnswers, SessionInv, ExecInv, ExecutorTypeOK
  <2> QED BY <1>1, <1>2, <1>5, <2>1 DEF Consumed
<1> QED BY <1>4, <1>5

\* A step that commits nothing, resets nothing and changes no health leaves
\* the log as it is.
LEMMA LogStays ==
  ASSUME SessionInv, CallAnswers, UNCHANGED <<poisoned, torn, sessionPosition, reply>>,
         NEW t \in Seq(Token), recurrent' \in {recurrent, recurrent \o t}
  PROVE  UNCHANGED Log!logVars
<1>1. Mode' = Mode
  BY DEF Mode
<1>2. Mode = "ok" => SubSeq(recurrent', 1, sessionPosition) = SubSeq(recurrent, 1, sessionPosition)
  BY HistoryInLayers, PrefixStays
<1>3. History' = History
  BY <1>1, <1>2 DEF History
<1> QED BY <1>1, <1>3 DEF Log!logVars

\* The steps of a call in progress are not seen, and a failing one loses the log.
LEMMA RunRefines ==
  ASSUME SessionInv, CallAnswers, Run
  PROVE  [Log!Next]_Log!logVars
<1> USE DecodePlanAssumption
<1>1. CASE ExecutorStep
  <2>1. /\ UNCHANGED <<poisoned, torn, sessionPosition, reply>>
        /\ recurrent' = recurrent \/ \E t \in Seq(Token) : recurrent' = recurrent \o t
    <3>1. CASE PrefillChunk
      <4>1. /\ UNCHANGED <<poisoned, torn>> /\ pc = "chunk"
            /\ recurrent' = recurrent \o SubSeq(input, 1, Chunk(left))
        BY <3>1 DEF PrefillChunk, RunChunk
      <4>2. left \in Nat /\ left > 0 /\ Len(input) = left /\ input \in Seq(Token)
        BY <4>1, UpToIsSeq DEF SessionInv, ExecInv, ExecutorTypeOK, FrameOK
      <4>3. Chunk(left) \in 1 .. left
        BY <4>2, ChunkBounds
      <4>4. SubSeq(input, 1, Chunk(left)) \in Seq(Token)
        BY <4>2, <4>3, SubSeqProperties
      <4> QED BY <4>1, <4>4 DEF Run, hostVars
    <3>2. CASE DecodeEager
      <4>1. input \in Seq(Token)
        BY UpToIsSeq DEF SessionInv, ExecInv, ExecutorTypeOK
      <4> QED BY <3>2, <4>1 DEF DecodeEager, RunChunk, Run, hostVars
    <3>3. CASE Replay
      <4>1. deviceToken \in Token
        BY <3>3 DEF Replay, SessionInv, ExecInv, FrameOK
      <4>2. <<deviceToken>> \in Seq(Token)
        BY <4>1
      <4> QED BY <3>3, <4>2 DEF Replay, RunChunk, Run, hostVars
    <3>4. CASE PrefillSync \/ Dispatch \/ PrepareNext \/ UploadToken \/ CaptureInRun \/ Download
      BY <3>4 DEF PrefillSync, Dispatch, PrepareNext, UploadToken, CaptureInRun, Download,
                  device, Run, hostVars
    <3> QED BY <1>1, <3>1, <3>2, <3>3, <3>4 DEF ExecutorStep
  <2>2. <<>> \in Seq(Token)
    OBVIOUS
  <2> QED BY <2>1, <2>2, LogStays
<1>2. CASE ExecutorFailure
  <2>1. poisoned' = TRUE /\ reply' = reply
    BY <1>2 DEF ExecutorFailure, FailInChunk, FailInEager, FailInReplay, FailInSync,
                FailInTransfer, Throw, Run, hostVars
  <2>2. Mode' = "failed" /\ History' = <<>>
    BY <2>1 DEF Mode, History
  <2> QED BY <2>1, <2>2 DEF Log!Next, Log!Fail
<1> QED BY <1>1, <1>2 DEF Run

\* So are calls that start, are refused, or surface a failure.
LEMMA QuietRefines ==
  ASSUME SessionInv, CallAnswers,
         \/ \E tokens \in Request : CallPrefill(tokens)
         \/ \E token \in Token : CallDecode(token)
         \/ \E token \in Token, n \in 1 .. MaxContext : CallDecodeGreedy(token, n)
         \/ RefuseInvalid \/ RefusePoisoned \/ Surface \/ UNCHANGED vars
  PROVE  UNCHANGED Log!logVars
<1>1. UNCHANGED <<poisoned, torn, sessionPosition, reply, recurrent>>
  BY DEF CallPrefill, CallDecode, CallDecodeGreedy, Prefill, Decode, DecodeGreedy, Begin,
         Start, RefuseInvalid, RefusePoisoned, Answer, Surface, EndCall, vars, execVars,
         hostVars, device
<1>2. <<>> \in Seq(Token)
  OBVIOUS
<1> QED BY <1>1, <1>2, LogStays

\* A reset empties the log, and a reset that fails half way tears it.
LEMMA ResetRefines ==
  ASSUME SessionInv, CallAnswers, CallReset \/ CallResetFails
  PROVE  [Log!Next]_Log!logVars
<1>1. CASE CallReset
  <2>1. /\ poisoned' = FALSE /\ torn' = FALSE /\ recurrent' = <<>> /\ sessionPosition' = 0
        /\ reply' = reply
    BY <1>1 DEF CallReset, Reset, Cleared
  <2>2. Mode' = "ok"
    BY <2>1 DEF Mode
  <2>3. SubSeq(recurrent', 1, sessionPosition') = <<>>
    BY <2>1, SubSeqEmpty
  <2>4. History' = <<>>
    BY <2>2, <2>3 DEF History
  <2> QED BY <2>1, <2>2, <2>4 DEF Log!Next, Log!Reset
<1>2. CASE CallResetFails
  <2>1. /\ UNCHANGED <<poisoned, sessionPosition, reply>>
        /\ torn' = TRUE \/ UNCHANGED <<torn, recurrent>>
    BY <1>2 DEF CallResetFails, ResetFails, Cleared
  <2>2. <<>> \in Seq(Token)
    OBVIOUS
  <2>3. CASE UNCHANGED <<torn, recurrent>>
    BY <2>1, <2>2, <2>3, LogStays
  <2>4. CASE torn' = TRUE /\ Mode = "ok"
    <3>1. Mode' = "torn"
      BY <2>1, <2>4 DEF Mode
    <3>2. History' = <<>>
      BY <3>1 DEF History
    <3> QED BY <2>1, <2>4, <3>1, <3>2 DEF Log!Next, Log!Tear
  <2>5. CASE torn' = TRUE /\ Mode # "ok"
    <3>1. Mode' = Mode
      BY <2>1, <2>5 DEF Mode, SessionInv, ExecInv, ExecutorTypeOK
    <3>2. History' = History
      BY <2>5, <3>1 DEF History
    <3> QED BY <2>1, <3>1, <3>2 DEF Log!logVars
  <2> QED BY <2>1, <2>3, <2>4, <2>5
<1> QED BY <1>1, <1>2

\* A log that grows by what has been folded in behind it.
LEMMA LogGrows ==
  ASSUME NEW r \in Seq(Token), NEW s \in 0 .. Len(r)
  PROVE  /\ SubSeq(r, s + 1, Len(r)) \in [1 .. Len(r) - s -> Token]
         /\ SubSeq(r, 1, s) \o SubSeq(r, s + 1, Len(r)) = r
<1> DEFINE h == SubSeq(r, 1, s)
           t == SubSeq(r, s + 1, Len(r))
<1>1. Len(r) \in Nat /\ s \in Nat /\ \A i \in 1 .. Len(r) : r[i] \in Token
  BY LenProperties
<1>2. h \in Seq(Token) /\ Len(h) = s /\ \A i \in 1 .. s : h[i] = r[i]
  BY <1>1, SubSeqProperties
<1>3. t \in Seq(Token) /\ Len(t) = Len(r) - s /\ \A i \in 1 .. Len(r) - s : t[i] = r[s + i]
  <2>1. \A i \in s + 1 .. Len(r) : r[i] \in Token
    BY <1>1
  <2>2. /\ t \in Seq(Token)
        /\ Len(t) = IF s + 1 <= Len(r) THEN Len(r) - (s + 1) + 1 ELSE 0
        /\ \A i \in 1 .. Len(r) - (s + 1) + 1 : t[i] = r[(s + 1) + i - 1]
    BY <1>1, <2>1, SubSeqProperties
  <2> HIDE DEF t
  <2> QED BY <1>1, <2>2
<1> HIDE DEF h, t
<1>4. t \in [1 .. Len(r) - s -> Token]
  BY <1>3, LenProperties
<1>5. h \o t \in Seq(Token) /\ Len(h \o t) = Len(r)
      /\ \A i \in 1 .. Len(r) : (h \o t)[i] = IF i <= s THEN h[i] ELSE t[i - s]
  <2>1. Len(h) + Len(t) = Len(r)
    BY <1>1, <1>2, <1>3
  <2> QED BY <1>2, <1>3, <2>1, ConcatProperties
<1>6. ASSUME NEW i \in 1 .. Len(r) PROVE (h \o t)[i] = r[i]
  <2>1. CASE i <= s
    BY <1>1, <1>2, <1>5, <2>1
  <2>2. CASE i > s
    <3>1. i - s \in 1 .. Len(r) - s /\ s + (i - s) = i
      BY <1>1, <2>2
    <3> QED BY <1>3, <1>5, <2>2, <3>1
  <2>3. i <= s \/ i > s
    BY <1>1
  <2> QED BY <2>1, <2>2, <2>3, Zenon
<1>7. h \o t = r
  <2>1. h \o t = [i \in 1 .. Len(r) |-> (h \o t)[i]]
    BY <1>5, LenProperties
  <2>2. r = [i \in 1 .. Len(r) |-> r[i]]
    BY LenProperties
  <2> QED BY <1>6, <2>1, <2>2, Zenon
<1> QED BY <1>4, <1>7 DEF h, t

\* Answers fed back behind a token extend a prefix of the log to a longer one.
LEMMA FedBackExtends ==
  ASSUME NEW S, NEW r \in Seq(S), NEW p \in Seq(S), NEW s \in Nat, NEW k \in Nat,
         s + 1 + k <= Len(r), k < Len(p), FedBack(p, r, s)
  PROVE  SubSeq(r, 1, s) \o <<r[s + 1]>> \o SubSeq(p, 1, k) = SubSeq(r, 1, s + 1 + k)
<1> DEFINE h == SubSeq(r, 1, s)
           m == <<r[s + 1]>>
           t == SubSeq(p, 1, k)
           u == SubSeq(r, 1, s + 1 + k)
<1>1. /\ Len(r) \in Nat /\ Len(p) \in Nat
      /\ \A i \in 1 .. Len(r) : r[i] \in S
      /\ \A i \in 1 .. Len(p) : p[i] \in S
  BY LenProperties
<1>2. h \in Seq(S) /\ Len(h) = s /\ \A i \in 1 .. s : h[i] = r[i]
  BY <1>1, SubSeqProperties
<1>3. t \in Seq(S) /\ Len(t) = k /\ \A i \in 1 .. k : t[i] = p[i]
  BY <1>1, SubSeqProperties
<1>4. u \in Seq(S) /\ Len(u) = s + 1 + k /\ \A i \in 1 .. s + 1 + k : u[i] = r[i]
  BY <1>1, SubSeqProperties
<1>5. m \in Seq(S) /\ Len(m) = 1 /\ m[1] = r[s + 1]
  BY <1>1
<1> HIDE DEF h, m, t, u
<1>6. /\ h \o m \in Seq(S) /\ Len(h \o m) = s + 1
      /\ \A i \in 1 .. s + 1 : (h \o m)[i] = IF i <= s THEN h[i] ELSE m[i - s]
  <2>1. /\ h \o m \in Seq(S) /\ Len(h \o m) = Len(h) + Len(m)
        /\ \A i \in 1 .. Len(h) + Len(m) :
             (h \o m)[i] = IF i <= Len(h) THEN h[i] ELSE m[i - Len(h)]
    <3>1. h \in Seq(S) /\ m \in Seq(S)
      BY <1>2, <1>5
    <3> QED BY ONLY <3>1, ConcatProperties
  <2> QED BY <1>2, <1>5, <2>1
<1>7. ASSUME NEW i \in 1 .. s + 1 PROVE (h \o m)[i] = r[i]
  <2>1. i <= s \/ (i = s + 1 /\ i - s = 1)
    OBVIOUS
  <2> QED BY <1>2, <1>5, <1>6, <2>1
<1>8. /\ (h \o m) \o t \in Seq(S) /\ Len((h \o m) \o t) = s + 1 + k
      /\ \A i \in 1 .. s + 1 + k :
           ((h \o m) \o t)[i] = IF i <= s + 1 THEN (h \o m)[i] ELSE t[i - (s + 1)]
  <2> DEFINE g == h \o m
  <2>1. g \in Seq(S) /\ Len(g) = s + 1
    BY <1>6
  <2> HIDE DEF g
  <2>2. /\ g \o t \in Seq(S) /\ Len(g \o t) = Len(g) + Len(t)
        /\ \A i \in 1 .. Len(g) + Len(t) :
             (g \o t)[i] = IF i <= Len(g) THEN g[i] ELSE t[i - Len(g)]
    BY <1>3, <2>1, ConcatProperties, Zenon
  <2>3. /\ g \o t \in Seq(S) /\ Len(g \o t) = s + 1 + k
        /\ \A i \in 1 .. s + 1 + k :
             (g \o t)[i] = IF i <= s + 1 THEN g[i] ELSE t[i - (s + 1)]
    BY <1>3, <2>1, <2>2
  <2> QED BY <2>3 DEF g
<1>9. ASSUME NEW i \in 1 .. s + 1 + k PROVE ((h \o m) \o t)[i] = u[i]
  <2>1. CASE i <= s + 1
    <3>1. i \in 1 .. s + 1
      BY <2>1
    <3>2. ((h \o m) \o t)[i] = (h \o m)[i]
      BY <1>8, <2>1
    <3> QED BY <1>4, <1>7, <3>1, <3>2
  <2>2. CASE i > s + 1
    <3>1. i - (s + 1) \in 1 .. k /\ s + (i - (s + 1)) + 1 = i
      BY <2>2
    <3>2. r[i] = p[i - (s + 1)]
      BY <1>1, <3>1 DEF FedBack
    <3> QED BY <1>3, <1>4, <1>8, <2>2, <3>1, <3>2, SMTT(30)
  <2>3. i <= s + 1 \/ i > s + 1
    OBVIOUS
  <2> QED BY <2>1, <2>2, <2>3, Zenon
<1>10. (h \o m) \o t = u
  <2>1. (h \o m) \o t = [i \in 1 .. s + 1 + k |-> ((h \o m) \o t)[i]]
    BY <1>8, LenProperties
  <2>2. u = [i \in 1 .. s + 1 + k |-> u[i]]
    BY <1>4, LenProperties
  <2> QED BY <1>9, <2>1, <2>2, Zenon
<1> QED BY <1>10 DEF h, m, t, u

\* What a commit finds.
LEMMA AtCommit ==
  ASSUME SessionInv, CallAnswers, Commit
  PROVE  /\ pc = "returned" /\ reply' = out /\ UNCHANGED <<poisoned, torn, recurrent>>
         /\ sessionPosition' = at /\ at = sessionPosition + want /\ ~poisoned
         /\ at \in 0 .. MaxContext /\ sessionPosition \in Nat /\ want \in Nat
         /\ out \in UpTo(MaxContext, Token \union {Blank}) /\ Produced = out
<1> USE DecodePlanAssumption
<1>1. pc = "returned" /\ CommitFits /\ EndCall
  BY ReturnedFits DEF Commit, CommitAlwaysFits
<1>2. /\ left = 0 /\ at = position /\ ~poisoned /\ at + left = sessionPosition + want
      /\ at \in 0 .. MaxContext /\ sessionPosition \in Nat /\ want \in Nat
      /\ out \in UpTo(MaxContext, Token \union {Blank})
  BY <1>1 DEF SessionInv, ExecInv, ExecutorTypeOK, FrameOK, CallAccounted, TypeOK
<1>3. reply' = out /\ sessionPosition' = sessionPosition + want
  BY <1>1 DEF Commit
<1> QED BY <1>1, <1>2, <1>3 DEF EndCall, Produced

\* On a torn session the answer is whatever it is.
LEMMA TornCommitRefines ==
  ASSUME SessionInv, CallAnswers, Commit, torn
  PROVE  Log!Next
<1>1. /\ reply' = out /\ UNCHANGED <<poisoned, torn>> /\ ~poisoned
      /\ out \in UpTo(MaxContext, Token \union {Blank})
  BY AtCommit
<1>2. Mode = "torn" /\ Mode' = "torn"
  BY <1>1 DEF Mode
<1>3. History = <<>> /\ History' = <<>>
  BY <1>2 DEF History
<1> QED BY <1>1, <1>2, <1>3 DEF Log!Next, Log!AnswerTorn

\* On a healthy one the log becomes what the layers have folded in.
LEMMA CommittedLog ==
  ASSUME SessionInv, CallAnswers, Commit, ~torn
  PROVE  /\ Mode = "ok" /\ Mode' = "ok" /\ recurrent \in Seq(Token)
         /\ History = SubSeq(recurrent, 1, sessionPosition) /\ History' = recurrent
         /\ Len(recurrent) = sessionPosition + want /\ sessionPosition \in 0 .. Len(recurrent)
         /\ want \in 1 .. MaxContext /\ op \in {"prefill", "decode", "greedy"}
         /\ op = "decode" => want = 1
         /\ op = "prefill" => out = <<Predict(recurrent)>>
         /\ op # "prefill" => /\ Len(out) = want
                              /\ Predicted(out, recurrent, sessionPosition)
                              /\ FedBack(out, recurrent, sessionPosition)
<1>1. /\ pc = "returned" /\ UNCHANGED <<poisoned, torn, recurrent>> /\ ~poisoned
      /\ sessionPosition' = at /\ at = sessionPosition + want /\ at \in 0 .. MaxContext
      /\ sessionPosition \in Nat /\ want \in Nat /\ Produced = out
  BY AtCommit
<1>2. Mode = "ok" /\ Mode' = "ok"
  BY <1>1 DEF Mode
<1>3. recurrent \in Seq(Token) /\ Len(recurrent) = at /\ sessionPosition \in 0 .. Len(recurrent)
  BY <1>1, <1>2, HistoryInLayers DEF Consumed
<1>4. /\ want > 0 /\ op \in {"prefill", "decode", "greedy"} /\ (op = "decode" => want = 1)
      /\ op = "prefill" => out = <<Predict(recurrent)>>
      /\ op # "prefill" => ChainsAnswers
  BY <1>1 DEF CallAnswers, Trusted
<1>5. History = SubSeq(recurrent, 1, sessionPosition) /\ History' = recurrent
  BY <1>1, <1>2, <1>3, WholePrefix DEF History
<1>6. op # "prefill" => /\ Len(out) = want
                        /\ Predicted(out, recurrent, sessionPosition)
                        /\ FedBack(out, recurrent, sessionPosition)
  BY <1>1, <1>4 DEF ChainsAnswers
<1>7. want \in 1 .. MaxContext
  BY <1>1, <1>4, DecodePlanAssumption
<1> QED BY <1>1, <1>2, <1>3, <1>4, <1>5, <1>6, <1>7

\* A commit appends what was consumed and answers with the prediction, or, for
\* a greedy call, with each of the predictions in turn.
LEMMA CommitRefines ==
  ASSUME SessionInv, CallAnswers, Commit
  PROVE  Log!Next
<1> USE DecodePlanAssumption
<1> DEFINE r == recurrent
           s == sessionPosition
           n == want
<1>1. CASE torn
  BY <1>1, TornCommitRefines
<1>2. CASE ~torn
  <2>1. /\ Mode = "ok" /\ Mode' = "ok" /\ r \in Seq(Token)
        /\ History = SubSeq(r, 1, s) /\ History' = r
        /\ Len(r) = s + n /\ s \in 0 .. Len(r)
        /\ n \in 1 .. MaxContext /\ op \in {"prefill", "decode", "greedy"}
        /\ op = "decode" => n = 1
        /\ op = "prefill" => out = <<Predict(r)>>
        /\ op # "prefill" => Len(out) = n /\ Predicted(out, r, s) /\ FedBack(out, r, s)
    BY <1>2, CommittedLog
  <2>2. reply' = out /\ out \in Seq(Token \union {Blank}) /\ Len(out) \in Nat
    BY AtCommit, UpToIsSeq, LenProperties
  <2>3. s \in Nat /\ n \in Nat /\ Len(r) - s = n
    BY <2>1, LenProperties
  <2> HIDE DEF r, s, n
  <2>4. ASSUME out = <<Predict(r)>> PROVE Log!Next
    <3> DEFINE t == SubSeq(r, s + 1, Len(r))
    <3>1. t \in [1 .. n -> Token] /\ History \o t = r
      BY <2>1, <2>3, LogGrows
    <3>2. t \in Log!Requests
      BY <2>1, <3>1 DEF Log!Requests
    <3> HIDE DEF t
    <3>3. Log!Consume(t)
      BY <2>1, <2>2, <2>4, <3>1 DEF Log!Consume
    <3> QED BY <3>2, <3>3 DEF Log!Next
  <2>5. ASSUME op = "decode" PROVE out = <<Predict(r)>>
    <3>1. Len(out) = 1 /\ Len(r) = s + 1 /\ 1 \in 1 .. Len(out)
      <4>1. n = 1 /\ Len(out) = n /\ Len(r) = s + n
        BY <2>1, <2>5
      <4> QED BY ONLY <4>1
    <3>2. out[1] = Predict(SubSeq(r, 1, s + 1))
      BY <2>1, <2>5, <3>1 DEF Predicted
    <3>3. SubSeq(r, 1, s + 1) = r
      BY <2>1, <3>1, WholePrefix
    <3>4. out = <<out[1]>>
      BY ONLY <2>2, <3>1
    <3> QED BY <3>2, <3>3, <3>4
  <2>6. ASSUME op = "greedy" PROVE Log!Next
    <3> DEFINE token == r[s + 1]
    <3>1. s + 1 \in 1 .. Len(r) /\ token \in Token
      BY <2>1, <2>3, LenProperties
    <3>2. ASSUME NEW k \in 0 .. n - 1
          PROVE  History \o <<token>> \o SubSeq(out, 1, k) = SubSeq(r, 1, s + 1 + k)
      <4>1. k \in Nat /\ s + 1 + k <= Len(r) /\ k < Len(out) /\ FedBack(out, r, s)
        BY <2>1, <2>3, <2>6
      <4>2. r \in Seq(Token \union {Blank})
        BY <2>1
      <4>3. SubSeq(r, 1, s) \o <<r[s + 1]>> \o SubSeq(out, 1, k) = SubSeq(r, 1, s + 1 + k)
        BY ONLY <2>2, <2>3, <4>1, <4>2, FedBackExtends
      <4> QED BY <2>1, <4>3
    <3>3. ASSUME NEW i \in 1 .. n
          PROVE  out[i] = Predict(SubSeq(r, 1, s + i)) /\ SubSeq(r, 1, s + i) \in Seq(Token)
                 /\ Len(SubSeq(r, 1, s + i)) <= MaxContext
      <4>1. out[i] = Predict(SubSeq(r, 1, s + i))
        BY <2>1, <2>6 DEF Predicted
      <4>2. s + i <= Len(r) /\ Len(r) <= MaxContext
        BY <2>1, <2>3, AtCommit DEF r, s, n
      <4>3. /\ \A j \in 1 .. s + i : r[j] \in Token
            /\ s + i \in Nat
        BY <2>1, <2>3, <4>2, LenProperties
      <4>4. SubSeq(r, 1, s + i) \in Seq(Token) /\ Len(SubSeq(r, 1, s + i)) = s + i
        BY <2>3, <4>3, SubSeqProperties
      <4> QED BY <4>1, <4>2, <4>3, <4>4, LenProperties, <2>1
    <3>4. out \in [1 .. n -> Token]
      <4>1. ASSUME NEW i \in 1 .. n PROVE out[i] \in Token
        <5> DEFINE l == SubSeq(r, 1, s + i)
        <5>1. l \in Seq(Token) /\ Len(l) <= MaxContext /\ out[i] = Predict(l)
          BY <3>3
        <5> HIDE DEF l
        <5>2. l \in Seq(Token \union {Blank})
          BY <5>1
        <5>3. l \in UpTo(MaxContext, Token)
          BY ONLY <5>1, SeqFits, Zenon
        <5>4. l \in UpTo(MaxContext, Token \union {Blank})
          BY ONLY <5>1, <5>2, SeqFits, Zenon
        <5> QED BY <5>1, <5>3, <5>4, ArgmaxAssumption DEF Predict
      <4> QED BY <2>1, <2>2, <2>6, <4>1, LenProperties
    <3>5. \A i \in 1 .. n : out[i] = Predict(History \o <<token>> \o SubSeq(out, 1, i - 1))
      <4> SUFFICES ASSUME NEW i \in 1 .. n
                   PROVE  out[i] = Predict(History \o <<token>> \o SubSeq(out, 1, i - 1))
        OBVIOUS
      <4>1. i - 1 \in 0 .. n - 1 /\ s + 1 + (i - 1) = s + i
        BY <2>3
      <4>2. History \o <<token>> \o SubSeq(out, 1, i - 1) = SubSeq(r, 1, s + i)
        BY <3>2, <4>1
      <4> QED BY <3>3, <4>2
    <3>6. History' = History \o <<token>> \o SubSeq(out, 1, n - 1)
      <4>1. n - 1 \in 0 .. n - 1 /\ s + 1 + (n - 1) = Len(r)
        BY <2>1, <2>3
      <4> QED BY <2>1, <3>2, <4>1, WholePrefix
    <3> HIDE DEF token
    <3>7. Log!Greedy(token, n)
      BY <2>1, <2>2, <3>4, <3>5, <3>6 DEF Log!Greedy
    <3> QED BY <2>1, <3>1, <3>7 DEF Log!Next, token
  <2> QED BY <2>1, <2>4, <2>5, <2>6
<1> QED BY <1>1, <1>2

\* A session implements the token log, whichever way its answers are computed:
\* by chunks, eager steps or graph replays, with any failures and resets
\* between.
THEOREM SessionIsATokenLog == Spec => ImplementsTokenLog
<1>1. Init => Log!Init
  <2> SUFFICES ASSUME Init PROVE Log!Init
    OBVIOUS
  <2>1. Mode = "ok" /\ reply = <<>> /\ recurrent = <<>> /\ sessionPosition = 0
    BY DEF Init, InitExecutor, Mode
  <2>2. SubSeq(recurrent, 1, sessionPosition) = <<>>
    BY <2>1, SubSeqEmpty
  <2> QED BY <2>1, <2>2 DEF Log!Init, History
<1>2. SessionInv /\ CallAnswers /\ [Next]_vars => [Log!Next]_Log!logVars
  BY RunRefines, QuietRefines, ResetRefines, CommitRefines DEF Next
<1>3. SessionInv /\ CallAnswers => Log!Bounded
  <2> SUFFICES ASSUME SessionInv, CallAnswers PROVE Len(History) <= MaxContext
    BY DEF Log!Bounded
  <2>1. CASE Mode = "ok"
    <3>1. recurrent \in Seq(Token) /\ sessionPosition \in 0 .. Len(recurrent)
          /\ sessionPosition <= MaxContext
      BY <2>1, HistoryInLayers
    <3>2. Len(SubSeq(recurrent, 1, sessionPosition)) = sessionPosition
      BY <3>1, SubSeqProperties, LenProperties
    <3> QED BY <2>1, <3>1, <3>2 DEF History
  <2>2. CASE Mode # "ok"
    <3>1. Len(<<>>) = 0 /\ 0 <= MaxContext
      BY DecodePlanAssumption
    <3> QED BY <2>2, <3>1 DEF History
  <2> QED BY <2>1, <2>2
<1> QED BY <1>1, <1>2, <1>3, AnswersInvariant, PTL DEF Spec, ImplementsTokenLog, Log!Spec
=============================================================================
