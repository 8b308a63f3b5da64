------------------------------ MODULE HostProofs ------------------------------
(***************************************************************************)
(* What runs and is kept on the host.  The runtime's programs, for every   *)
(* session size, prompt and model: the answers of a generation are the     *)
(* greedy continuation of its prompt, and the session never refuses what   *)
(* was validated.  The logical state of a session, for every layout a      *)
(* caller may hand over: as many different slots as there are layers are   *)
(* all of them, so their spans tile the vectors, and what a block writes   *)
(* no other block touches.  The loading of a model, for every word width:  *)
(* what the configuration's derivation lets through bounds all widths that *)
(* are multiplied after it, so manifest and executor, which list the       *)
(* tensors each on their own, agree on every one.                          *)
(***************************************************************************)
EXTENDS Generation, HostState, ModelLoading, FiniteSetTheorems, BoundedSeqLemmas

-----------------------------------------------------------------------------
(* Sequences *)

\* The prefixes of an extended sequence are those of the sequence itself.
LEMMA PrefixOfAppend ==
  ASSUME NEW s \in Seq(Token), NEW r \in Token, NEW i \in 1 .. Len(s) + 1
  PROVE  SubSeq(Append(s, r), 1, i - 1) = SubSeq(s, 1, i - 1)
<1>1. Len(s) \in Nat /\ Append(s, r) = s \o <<r>> /\ <<r>> \in Seq(Token)
  BY AppendIsConcat
<1>2. CASE i = 1
  BY <1>2, SubSeqEmpty
<1>3. CASE i > 1
  <2>1. 1 \in 1 .. Len(s) /\ i - 1 \in 1 .. Len(s)
    BY <1>1, <1>3
  <2>2. SubSeq(s \o <<r>>, 1, i - 1) = SubSeq(s, 1, i - 1)
    BY <1>1, <2>1, SubSeqOfConcat1
  <2> QED BY <1>1, <2>2
<1> QED BY <1>1, <1>2, <1>3

\* All of a nonempty sequence but its last element, and that element.
LEMMA FrontAndLast ==
  ASSUME NEW s \in Seq(Token), s # <<>>
  PROVE  /\ SubSeq(s, 1, Len(s) - 1) \in Seq(Token)
         /\ Len(SubSeq(s, 1, Len(s) - 1)) = Len(s) - 1
         /\ SubSeq(s, 1, Len(s) - 1) \o <<s[Len(s)]>> = s
         /\ s[Len(s)] \in Token
<1>1. Len(s) \in Nat \ {0} /\ \A i \in 1 .. Len(s) : s[i] \in Token
  BY EmptySeq, ElementOfSeq
<1>2. /\ SubSeq(s, 1, Len(s) - 1) \in Seq(Token)
      /\ Len(SubSeq(s, 1, Len(s) - 1)) = Len(s) - 1
  <2> DEFINE n == Len(s) - 1
  <2>1. n \in Int /\ \A i \in 1 .. n : s[i] \in Token
    <3>1. n \in Nat
      BY <1>1
    <3>2. ASSUME NEW i \in 1 .. n PROVE s[i] \in Token
      BY <1>1, <3>1
    <3> QED BY <3>1, <3>2
  <2>2. n \in Nat /\ n - 1 + 1 = n
    BY <1>1
  <2> HIDE DEF n
  <2>3. /\ SubSeq(s, 1, n) \in Seq(Token)
        /\ Len(SubSeq(s, 1, n)) = IF 1 <= n THEN n - 1 + 1 ELSE 0
    BY <2>1, SubSeqProperties
  <2>4. CASE n = 0
    BY <2>3, <2>4 DEF n
  <2>5. CASE n >= 1
    BY <2>2, <2>3, <2>5 DEF n
  <2> QED BY <2>2, <2>4, <2>5
<1>3. SubSeq(s, 1, Len(s)) = s
  BY SubSeqFull
<1>4. SubSeq(s, 1, Len(s)) = SubSeq(s, 1, Len(s) - 1) \o <<s[Len(s)]>>
  BY <1>1, SubSeqRecursiveSecond
<1>5. s[Len(s)] \in Token
  BY <1>1
<1> QED BY <1>2, <1>3, <1>4, <1>5, Zenon

\* An answer of the session is a token as long as its log fits.
LEMMA PredictTyped ==
  ASSUME NEW log \in Seq(Token), log # <<>>, Len(log) <= Capacity
  PROVE  Predict(log) \in Token
BY PredictAssumption, UpToIsSeq, GenerationAssumption

\* Greedy tokens stay greedy when the next prediction joins them.
LEMMA GreedyExtends ==
  ASSUME NEW s \in Seq(Token), NEW r \in Token,
         IsGreedy(s), r = Predict(prompt \o s)
  PROVE  IsGreedy(Append(s, r))
<1>1. /\ Len(Append(s, r)) = Len(s) + 1 /\ Len(s) \in Nat
      /\ \A i \in 1 .. Len(s) : Append(s, r)[i] = s[i]
      /\ Append(s, r)[Len(s) + 1] = r
  BY AppendProperties
<1> SUFFICES ASSUME NEW i \in 1 .. Len(s) + 1
             PROVE  Append(s, r)[i]
                      = Predict(prompt \o SubSeq(Append(s, r), 1, i - 1))
  BY <1>1 DEF IsGreedy
<1>2. SubSeq(Append(s, r), 1, i - 1) = SubSeq(s, 1, i - 1)
  BY PrefixOfAppend
<1>3. CASE i <= Len(s)
  <2>1. i \in 1 .. Len(s)
    BY <1>1, <1>3
  <2>2. s[i] = Predict(prompt \o SubSeq(s, 1, i - 1))
    BY <2>1, Zenon DEF IsGreedy
  <2>3. Append(s, r)[i] = s[i]
    BY <1>1, <2>1, Zenon
  <2> QED BY <1>2, <2>2, <2>3, Zenon
<1>4. CASE i = Len(s) + 1
  <2>1. SubSeq(s, 1, i - 1) = s
    BY <1>1, <1>4, SubSeqFull
  <2>2. Append(s, r)[i] = r
    BY <1>1, <1>4
  <2> QED BY <1>2, <2>1, <2>2, Zenon
<1> QED BY <1>1, <1>3, <1>4

\* A batch decoded after the prediction for a prompt continues it greedily.
LEMMA BatchIsGreedy ==
  ASSUME NEW p \in Token, NEW b \in Seq(Token), prompt \in Seq(Token),
         p = Predict(prompt),
         \A i \in 1 .. Len(b) :
           b[i] = Predict(prompt \o <<p>> \o SubSeq(b, 1, i - 1))
  PROVE  IsGreedy(<<p>> \o b)
<1>1. /\ Len(<<p>> \o b) = Len(b) + 1 /\ Len(b) \in Nat
      /\ <<p>> \o b \in Seq(Token)
      /\ (<<p>> \o b)[1] = p
      /\ \A i \in 1 .. Len(b) : (<<p>> \o b)[i + 1] = b[i]
  OBVIOUS
<1> SUFFICES ASSUME NEW i \in 1 .. Len(b) + 1
             PROVE  (<<p>> \o b)[i]
                      = Predict(prompt \o SubSeq(<<p>> \o b, 1, i - 1))
  BY <1>1 DEF IsGreedy
<1>2. CASE i = 1
  <2>1. SubSeq(<<p>> \o b, 1, i - 1) = <<>>
    BY <1>2, SubSeqEmpty
  <2>2. prompt \o <<>> = prompt
    BY ConcatEmptySeq
  <2> QED BY <1>1, <1>2, <2>1, <2>2
<1>3. CASE i > 1
  <2> DEFINE j == i - 1
  <2>1. j \in 1 .. Len(b)
    BY <1>1, <1>3
  <2>2. SubSeq(b, 1, j - 1) \in Seq(Token)
    BY <1>1, <2>1, SubSeqProperties, ElementOfSeq
  <2>3. SubSeq(<<p>> \o b, 1, j) = <<p>> \o SubSeq(b, 1, j - 1)
    BY <1>1, <2>1, SubSeqRecursiveFirst
  <2>4. prompt \o <<p>> \o SubSeq(b, 1, j - 1)
          = prompt \o (<<p>> \o SubSeq(b, 1, j - 1))
    <3>1. <<p>> \in Seq(Token)
      OBVIOUS
    <3> DEFINE t == SubSeq(b, 1, j - 1)
    <3>2. t \in Seq(Token) /\ prompt \in Seq(Token)
      BY <2>2
    <3> HIDE DEF t
    <3>3. (prompt \o <<p>>) \o t = prompt \o (<<p>> \o t)
      BY <3>1, <3>2, ConcatAssociative
    <3> QED BY <3>3 DEF t
  <2>5. (<<p>> \o b)[i] = b[j] /\ i - 1 = j
    BY <1>1, <2>1
  <2>6. b[j] = Predict(prompt \o <<p>> \o SubSeq(b, 1, j - 1))
    BY <2>1, Zenon
  <2> HIDE DEF j
  <2> QED BY <2>3, <2>4, <2>5, <2>6, Zenon
<1> QED BY <1>1, <1>2, <1>3

-----------------------------------------------------------------------------
(* The invariant holds initially and is kept by the start of a program *)

LEMMA InitEstablishes == Init => GenInv
<1> SUFFICES ASSUME Init PROVE GenInv
  OBVIOUS
<1> USE GenerationAssumption DEF Init, Log!Init
<1>1. <<>> \in UpTo(Capacity, Token) /\ <<>> \in UpTo(Capacity + 1, Token)
      /\ <<>> \in UpTo(0, Token)
  BY EmptyFits
<1>2. TypeOK
  BY <1>1 DEF TypeOK
<1>3. CallOK
  BY DEF CallOK, Running
<1>4. FedByProgram
  BY DEF FedByProgram, Running
<1>5. /\ GreedyContinuation /\ ValidatedIsNeverRefused /\ NoExtraDecode
      /\ IterationsRepeat /\ RefusedAtOnce
  BY DEF GreedyContinuation, ValidatedIsNeverRefused, NoExtraDecode,
         IterationsRepeat, RefusedAtOnce
<1> QED BY <1>2, <1>3, <1>4, <1>5 DEF GenInv

LEMMA StartKeeps ==
  ASSUME GenInv, pc = "idle", NEW tokens \in Prompts, NEW n \in Lengths,
         \/ Generate(tokens, n) \/ GenerateInvalid(tokens, n)
         \/ Benchmark(tokens, n) \/ BenchmarkInvalid(tokens, n)
  PROVE  GenInv'
<1> USE GenerationAssumption
<1>1. /\ prompt' = tokens /\ maxNew' = n
      /\ UNCHANGED <<history, mode, reply, generated, iteration, timings>>
      /\ generated = <<>> /\ iteration = 0 /\ outcome = "none"
      /\ timings = 0
  BY DEF Generate, GenerateInvalid, Benchmark, BenchmarkInvalid, Start, logVars,
         GenInv, CallOK
<1>2. \/ /\ program' = "generate" /\ pc' = "reset" /\ Fits(tokens, n)
         /\ outcome' = "none"
      \/ /\ program' = "benchmark" /\ pc' = "reset" /\ n > 0 /\ tokens # <<>>
         /\ outcome' = "none"
      \/ /\ program' \in {"generate", "benchmark"} /\ pc' = "done"
         /\ outcome' = "invalid_input"
  BY <1>1 DEF Generate, GenerateInvalid, Benchmark, BenchmarkInvalid, Start
<1>3. TypeOK'
  <2>1. n \in Nat /\ <<>> \in UpTo(n, Token)
    BY EmptyFits DEF Lengths
  <2> QED BY <1>1, <1>2, <2>1 DEF GenInv, TypeOK, Prompts, Lengths
<1>4. CallOK'
  BY <1>1, <1>2 DEF CallOK, Running, Fits
<1>5. FedByProgram'
  BY <1>1, <1>2 DEF FedByProgram, Running
<1>6. /\ GreedyContinuation' /\ ValidatedIsNeverRefused' /\ NoExtraDecode'
      /\ IterationsRepeat' /\ RefusedAtOnce'
  BY <1>1, <1>2 DEF GreedyContinuation, ValidatedIsNeverRefused, NoExtraDecode,
         IterationsRepeat, RefusedAtOnce
<1> QED BY <1>3, <1>4, <1>5, <1>6 DEF GenInv

-----------------------------------------------------------------------------
(* Calls that answer *)

LEMMA ResetKeeps ==
  ASSUME GenInv, ResetSession
  PROVE  GenInv'
<1> USE GenerationAssumption
<1>1. /\ pc = "reset" /\ pc' = "prefill" /\ history' = <<>> /\ mode' = "ok"
      /\ UNCHANGED <<program, prompt, maxNew, generated, iteration, timings, outcome>>
  BY DEF ResetSession, Log!Reset, frame
<1>2. TypeOK'
  <2>1. <<>> \in UpTo(Capacity, Token)
    BY EmptyFits
  <2> QED BY <1>1, <2>1 DEF GenInv, TypeOK
<1>3. CallOK'
  BY <1>1 DEF GenInv, CallOK, Running, Fits
<1>4. FedByProgram'
  BY <1>1 DEF FedByProgram, Running
<1>5. outcome' = "none"
  BY <1>1 DEF GenInv, CallOK
<1>6. /\ GreedyContinuation' /\ ValidatedIsNeverRefused' /\ NoExtraDecode'
      /\ IterationsRepeat' /\ RefusedAtOnce'
  BY <1>1, <1>5 DEF GreedyContinuation, ValidatedIsNeverRefused, NoExtraDecode,
         IterationsRepeat, RefusedAtOnce
<1> QED BY <1>2, <1>3, <1>4, <1>6 DEF GenInv

LEMMA PrefillKeeps ==
  ASSUME GenInv, PrefillPrompt
  PROVE  GenInv'
<1> USE GenerationAssumption
<1>1. /\ pc = "prefill" /\ history = <<>> /\ mode = "ok" /\ generated = <<>>
      /\ prompt # <<>> /\ maxNew > 0 /\ outcome = "none"
      /\ program \in {"generate", "benchmark"}
      /\ program = "generate" => iteration = 0
  BY DEF GenInv, TypeOK, CallOK, FedByProgram, Running, PrefillPrompt
<1>2. prompt \in Seq(Token) /\ Len(prompt) \in Nat /\ maxNew \in Nat
  BY UpToIsSeq DEF GenInv, TypeOK
<1>3. /\ history' = prompt /\ reply' = <<Predict(prompt)>> /\ mode' = "ok"
      /\ UNCHANGED <<program, prompt, maxNew, generated, iteration, timings, outcome>>
      /\ pc' = IF program = "generate" THEN "loop" ELSE "greedy"
      /\ Len(prompt) <= Capacity
  <2>1. history \o prompt = prompt /\ Len(history) = 0
    BY <1>1, <1>2, ConcatEmptySeq
  <2>2. history' = history \o prompt /\ reply' = <<Predict(history')>> /\ mode' = mode
    BY Zenon DEF PrefillPrompt, Log!Consume
  <2>3. Len(prompt) <= Capacity
    BY <1>2, <2>1 DEF PrefillPrompt, Room
  <2> QED BY <1>1, <2>1, <2>2, <2>3 DEF PrefillPrompt, frame
<1>4. TypeOK'
  <2>1. prompt \in UpTo(Capacity, Token)
    BY <1>2, <1>3, UpToIsSeq
  <2> QED BY <1>1, <1>3, <2>1 DEF GenInv, TypeOK
<1>5. CallOK'
  BY <1>1, <1>3 DEF GenInv, CallOK, Running, Fits
<1>6. FedByProgram'
  <2>1. prompt \o <<>> = prompt
    BY <1>2, ConcatEmptySeq
  <2>2. IsGreedy(<<>>)' /\ NoStop(<<>>)'
    BY DEF IsGreedy, NoStop
  <2> QED BY <1>1, <1>2, <1>3, <2>1, <2>2 DEF FedByProgram, Running
<1>7. /\ GreedyContinuation' /\ ValidatedIsNeverRefused' /\ NoExtraDecode'
      /\ IterationsRepeat' /\ RefusedAtOnce'
  BY <1>1, <1>3 DEF GreedyContinuation, ValidatedIsNeverRefused, NoExtraDecode,
         IterationsRepeat, RefusedAtOnce
<1> QED BY <1>4, <1>5, <1>6, <1>7 DEF GenInv

\* At the top of the loop the last answer is the prediction for all tokens so
\* far; collecting it extends them greedily.
LEMMA TakeKeeps ==
  ASSUME GenInv, TakeResult
  PROVE  GenInv'
<1> USE GenerationAssumption
<1> DEFINE r == Predict(prompt \o generated)
<1>1. /\ pc = "loop" /\ program = "generate" /\ outcome = "none" /\ mode = "ok"
      /\ prompt # <<>> /\ maxNew > 0 /\ iteration = 0 /\ Fits(prompt, maxNew)
      /\ history = prompt \o generated /\ reply = <<r>>
      /\ Len(generated) < maxNew /\ IsGreedy(generated) /\ NoStop(generated)
  BY DEF GenInv, CallOK, FedByProgram, Running, TakeResult
<1>2. /\ prompt \in Seq(Token) /\ Len(prompt) \in Nat /\ maxNew \in Nat
      /\ generated \in Seq(Token) /\ Len(generated) \in Nat
  BY UpToIsSeq DEF GenInv, TypeOK
<1>3. r \in Token /\ Result = r
  <2>1. prompt \o generated \in Seq(Token)
        /\ Len(prompt \o generated) = Len(prompt) + Len(generated)
    BY <1>2, ConcatProperties
  <2>2. Len(prompt) > 0
    BY <1>1, <1>2, EmptySeq
  <2>3. Len(prompt \o generated) <= Capacity /\ prompt \o generated # <<>>
    BY <1>1, <1>2, <2>1, <2>2, EmptySeq DEF Fits
  <2>4. r \in Token
    BY <2>1, <2>3, PredictTyped
  <2> QED BY <1>1, <2>4 DEF Result
<1>4. /\ UNCHANGED <<history, mode, reply, program, prompt, maxNew, iteration, timings>>
      /\ generated' = IF r \in StopToken THEN generated ELSE Append(generated, r)
      /\ IF r \notin StopToken /\ MoreToDecode
           THEN pc' = "decode" /\ outcome' = "none"
           ELSE pc' = "done" /\ outcome' = "ok"
  BY <1>1, <1>3 DEF TakeResult, logVars, frame
<1>5. /\ Append(generated, r) \in Seq(Token)
      /\ Len(Append(generated, r)) = Len(generated) + 1
      /\ Append(generated, r)[Len(generated) + 1] = r
      /\ Append(generated, r) # <<>>
      /\ \A i \in 1 .. Len(generated) : Append(generated, r)[i] = generated[i]
  BY <1>2, <1>3, AppendProperties, EmptySeq
<1>6. SubSeq(Append(generated, r), 1, Len(generated)) = generated
  <2>1. Len(generated) + 1 \in 1 .. Len(generated) + 1 /\ Len(generated) + 1 - 1 = Len(generated)
    BY <1>2
  <2>2. SubSeq(Append(generated, r), 1, Len(generated) + 1 - 1)
          = SubSeq(generated, 1, Len(generated) + 1 - 1)
    BY <1>2, <1>3, <2>1, PrefixOfAppend
  <2> QED BY <1>2, <2>1, <2>2, SubSeqFull
<1>7. IsGreedy(Append(generated, r))
  BY <1>1, <1>2, <1>3, GreedyExtends
<1>8. ASSUME r \notin StopToken PROVE NoStop(Append(generated, r))
  BY <1>1, <1>2, <1>5, <1>8 DEF NoStop
<1>9. /\ generated' \in Seq(Token) /\ Len(generated') <= maxNew
      /\ IsGreedy(generated') /\ NoStop(generated')
  BY <1>1, <1>2, <1>4, <1>5, <1>7, <1>8
<1>10. IsGreedy(generated)' /\ NoStop(generated)'
  BY <1>4, <1>9 DEF IsGreedy, NoStop
<1>11. TypeOK'
  <2>1. generated' \in UpTo(maxNew, Token)
    BY <1>2, <1>9, UpToIsSeq
  <2> QED BY <1>4, <2>1 DEF GenInv, TypeOK
<1>12. CallOK'
  BY <1>1, <1>4 DEF GenInv, CallOK, Running, Fits
<1>13. FedByProgram'
  <2>1. CASE pc' = "decode"
    <3>1. generated' = Append(generated, r) /\ Len(generated) + 1 < maxNew
      BY <1>4, <2>1 DEF MoreToDecode
    <3>2. Len(generated') - 1 = Len(generated) /\ generated'[Len(generated')] = r
      BY <1>2, <1>5, <3>1
    <3> QED BY <1>1, <1>4, <1>5, <1>6, <1>10, <2>1, <3>1, <3>2 DEF FedByProgram, Running
  <2>2. CASE pc' = "done"
    BY <2>2 DEF FedByProgram, Running
  <2> QED BY <1>4, <2>1, <2>2
<1>14. GreedyContinuation' /\ NoExtraDecode'
  <2> SUFFICES ASSUME outcome' = "ok" PROVE GreedyContinuation' /\ NoExtraDecode'
    BY DEF GreedyContinuation, NoExtraDecode
  <2>1. CASE r \in StopToken
    <3>1. generated' = generated /\ Len(generated) # maxNew
      BY <1>1, <1>2, <1>4, <2>1
    <3>2. SubSeq(generated, 1, Len(generated)) = generated
      BY <1>2, SubSeqFull
    <3>3. GreedyContinuation'
      BY <1>4, <1>10, <2>1, <3>1 DEF GreedyContinuation
    <3>4. NoExtraDecode'
      BY <1>1, <1>4, <3>1, <3>2 DEF NoExtraDecode
    <3> QED BY <3>3, <3>4
  <2>2. CASE r \notin StopToken
    <3>1. generated' = Append(generated, r) /\ Len(generated) + 1 = maxNew
      BY <1>1, <1>2, <1>4, <2>2 DEF MoreToDecode
    <3>2. Len(generated') = maxNew /\ maxNew - 1 = Len(generated)
      BY <1>2, <1>5, <3>1
    <3>3. GreedyContinuation'
      BY <1>4, <1>10, <3>2 DEF GreedyContinuation
    <3>4. NoExtraDecode'
      BY <1>1, <1>4, <1>6, <3>1, <3>2 DEF NoExtraDecode
    <3> QED BY <3>3, <3>4
  <2> QED BY <2>1, <2>2
<1>15. ValidatedIsNeverRefused' /\ IterationsRepeat' /\ RefusedAtOnce'
  BY <1>1, <1>4 DEF ValidatedIsNeverRefused, IterationsRepeat, RefusedAtOnce
<1> QED BY <1>11, <1>12, <1>13, <1>14, <1>15 DEF GenInv

LEMMA DecodeKeeps ==
  ASSUME GenInv, DecodeResult
  PROVE  GenInv'
<1> USE GenerationAssumption
<1> DEFINE front == SubSeq(generated, 1, Len(generated) - 1)
           last == generated[Len(generated)]
<1>1. /\ pc = "decode" /\ program = "generate" /\ outcome = "none" /\ mode = "ok"
      /\ iteration = 0 /\ generated # <<>>
      /\ history = prompt \o front /\ reply = <<last>>
      /\ Len(generated) < maxNew /\ IsGreedy(generated) /\ NoStop(generated)
  BY DEF GenInv, CallOK, FedByProgram, Running, DecodeResult
<1>2. /\ prompt \in Seq(Token) /\ generated \in Seq(Token)
      /\ Len(prompt) \in Nat /\ Len(generated) \in Nat /\ maxNew \in Nat
  BY UpToIsSeq DEF GenInv, TypeOK
<1>3. /\ front \in Seq(Token) /\ last \in Token /\ <<last>> \in Seq(Token)
      /\ front \o <<last>> = generated /\ Len(front) = Len(generated) - 1
  BY <1>1, <1>2, FrontAndLast
<1>4. Result = last
  BY <1>1 DEF Result
<1>5. /\ history' = prompt \o generated /\ reply' = <<Predict(history')>>
      /\ mode' = "ok" /\ pc' = "loop"
      /\ UNCHANGED <<program, prompt, maxNew, generated, iteration, timings, outcome>>
  <2> HIDE DEF front, last
  <2>1. history \o <<last>> = prompt \o generated
    <3>1. (prompt \o front) \o <<last>> = prompt \o (front \o <<last>>)
      <4>1. prompt \in Seq(Token) /\ front \in Seq(Token) /\ <<last>> \in Seq(Token)
        BY ONLY <1>2, <1>3
      <4> QED BY ONLY <4>1, ConcatAssociative, SMT
    <3> QED BY <1>1, <1>3, <3>1
  <2>2. history' = history \o <<Result>> /\ reply' = <<Predict(history')>> /\ mode' = mode
    BY Zenon DEF DecodeResult, Log!Consume
  <2> QED BY <1>1, <1>4, <2>1, <2>2 DEF DecodeResult, frame
<1> HIDE DEF front, last
<1>6. TypeOK'
  <2>1. /\ prompt \o generated \in Seq(Token)
        /\ Len(prompt \o generated) = Len(prompt) + Len(generated)
    BY <1>2, ConcatProperties
  <2>2. Len(prompt) + maxNew <= Capacity
    BY <1>1 DEF GenInv, CallOK, Running, Fits
  <2>3. prompt \o generated \in UpTo(Capacity, Token)
    <3>1. Len(prompt \o generated) <= Capacity
      BY <1>1, <1>2, <2>1, <2>2
    <3> QED BY <2>1, <3>1, UpToIsSeq
  <2> QED BY <1>1, <1>5, <2>3 DEF GenInv, TypeOK
<1>7. CallOK'
  BY <1>1, <1>5 DEF GenInv, CallOK, Running, Fits
<1>8. FedByProgram'
  BY <1>1, <1>5 DEF FedByProgram, Running, IsGreedy, NoStop
<1>9. /\ GreedyContinuation' /\ ValidatedIsNeverRefused' /\ NoExtraDecode'
      /\ IterationsRepeat' /\ RefusedAtOnce'
  BY <1>1, <1>5 DEF GreedyContinuation, ValidatedIsNeverRefused, NoExtraDecode,
         IterationsRepeat, RefusedAtOnce
<1> QED BY <1>6, <1>7, <1>8, <1>9 DEF GenInv

LEMMA BatchKeeps ==
  ASSUME GenInv, DecodeBatch
  PROVE  GenInv'
<1> USE GenerationAssumption
<1> DEFINE p == Predict(prompt)
<1>1. /\ pc = "greedy" /\ program = "benchmark" /\ outcome = "none" /\ mode = "ok"
      /\ prompt # <<>> /\ maxNew > 0 /\ generated = <<>>
      /\ history = prompt /\ reply = <<p>>
      /\ iteration < Warmups + Measured
      /\ timings = IF iteration > Warmups THEN iteration - Warmups ELSE 0
  BY DEF GenInv, CallOK, FedByProgram, Running, DecodeBatch
<1>2. /\ prompt \in Seq(Token) /\ Len(prompt) \in Nat /\ maxNew \in Nat
      /\ iteration \in Nat
  BY UpToIsSeq DEF GenInv, TypeOK
<1>3. maxNew <= Capacity - Len(prompt) /\ Len(prompt) + maxNew <= Capacity
  BY <1>1, <1>2 DEF DecodeBatch, Room
<1>4. p \in Token /\ Result = p
  BY <1>1, <1>2, <1>3, PredictTyped DEF Result
<1>5. /\ reply' \in [1 .. maxNew -> Token]
      /\ \A i \in 1 .. maxNew :
           reply'[i] = Predict(prompt \o <<p>> \o SubSeq(reply', 1, i - 1))
      /\ history' = prompt \o <<p>> \o SubSeq(reply', 1, maxNew - 1)
      /\ mode' = "ok"
  BY <1>1, <1>4, Zenon DEF DecodeBatch, Log!Greedy
<1>6. /\ iteration' = iteration + 1
      /\ timings' = IF iteration >= Warmups THEN timings + 1 ELSE timings
      /\ IF iteration' = Warmups + Measured
           THEN pc' = "done" /\ outcome' = "ok"
           ELSE pc' = "reset" /\ outcome' = "none"
      /\ UNCHANGED <<program, prompt, maxNew, generated>>
  BY <1>1 DEF DecodeBatch, frame
<1>7. reply' \in Seq(Token) /\ Len(reply') = maxNew
  <2>1. reply' \in Seq(Token)
    BY <1>2, <1>5, SeqDef
  <2> QED BY <1>2, <1>5, <2>1, LenProperties
<1>8. TypeOK'
  <2> DEFINE fed == SubSeq(reply', 1, maxNew - 1)
  <2>1. fed \in Seq(Token) /\ Len(fed) = maxNew - 1
    <3>1. reply' # <<>>
      BY <1>1, <1>7, EmptySeq
    <3> QED BY <1>7, <3>1, FrontAndLast
  <2> HIDE DEF fed
  <2>2. /\ prompt \o <<p>> \o fed \in Seq(Token)
        /\ Len(prompt \o <<p>> \o fed) = Len(prompt) + maxNew
    <3>1. <<p>> \in Seq(Token) /\ Len(<<p>>) = 1
      BY <1>4
    <3>2. prompt \o <<p>> \in Seq(Token) /\ Len(prompt \o <<p>>) = Len(prompt) + 1
      BY <1>2, <3>1, ConcatProperties
    <3>3. Len(prompt \o <<p>> \o fed) = Len(prompt) + 1 + (maxNew - 1)
      BY <2>1, <3>2, ConcatProperties
    <3>4. prompt \o <<p>> \o fed \in Seq(Token)
      BY <2>1, <3>2, ConcatProperties
    <3> QED BY <1>2, <3>3, <3>4
  <2>3. history' \in UpTo(Capacity, Token)
    BY <1>3, <1>5, <2>2, UpToIsSeq DEF fed
  <2>4. iteration' \in 0 .. Warmups + Measured /\ timings' \in 0 .. Measured
    BY <1>1, <1>2, <1>6
  <2> QED BY <1>1, <1>5, <1>6, <2>3, <2>4 DEF GenInv, TypeOK
<1>9. CallOK'
  BY <1>1, <1>2, <1>3, <1>6 DEF GenInv, CallOK, Running
<1>10. FedByProgram'
  BY <1>5, <1>6 DEF FedByProgram, Running
<1>11. IterationsRepeat'
  <2>1. IsGreedy(<<p>> \o reply')
    BY <1>2, <1>4, <1>5, <1>7, BatchIsGreedy
  <2>2. IsGreedy(<<Predict(prompt)>> \o reply)'
    BY <1>6, <2>1 DEF IsGreedy
  <2> QED BY <1>6, <1>7, <2>2 DEF IterationsRepeat
<1>12. /\ GreedyContinuation' /\ ValidatedIsNeverRefused' /\ NoExtraDecode'
       /\ RefusedAtOnce'
  BY <1>1, <1>6 DEF GreedyContinuation, ValidatedIsNeverRefused, NoExtraDecode,
         RefusedAtOnce
<1> QED BY <1>8, <1>9, <1>10, <1>11, <1>12 DEF GenInv

-----------------------------------------------------------------------------
(* Calls that do not answer, and what happens between programs *)

\* The session has no reason to refuse a program that checked its request, nor
\* a benchmark that got through one iteration.
LEMMA RefusedKeeps ==
  ASSUME GenInv, Refused
  PROVE  GenInv'
<1> USE GenerationAssumption
<1>1. /\ pc \in {"prefill", "decode", "greedy"} /\ ~Room(Asked) /\ pc' = "done"
      /\ outcome' = "refused" /\ prompt # <<>> /\ maxNew > 0
      /\ UNCHANGED <<history, mode, program, prompt, maxNew, generated, iteration, timings>>
  BY DEF GenInv, CallOK, FedByProgram, Running, Refused, GiveUp, logVars, frame
<1>2. /\ prompt \in Seq(Token) /\ generated \in Seq(Token)
      /\ Len(prompt) \in Nat /\ Len(generated) \in Nat /\ maxNew \in Nat
      /\ iteration \in Nat
  BY UpToIsSeq DEF GenInv, TypeOK
<1>3. program = "benchmark" /\ iteration = 0
  <2> SUFFICES ASSUME program = "generate" \/ iteration > 0 PROVE FALSE
    BY <1>1, <1>2 DEF GenInv, TypeOK, CallOK, Running
  <2>1. Len(prompt) + maxNew <= Capacity
    BY <1>1 DEF GenInv, CallOK, Running, Fits
  <2>2. CASE pc = "prefill"
    <3>1. Len(history) = 0 /\ Asked = Len(prompt)
      BY <2>2 DEF GenInv, FedByProgram, Asked
    <3> QED BY <1>1, <1>2, <2>1, <3>1 DEF Room
  <2>3. CASE pc = "greedy"
    <3>1. history = prompt /\ Asked = maxNew
      BY <2>3 DEF GenInv, FedByProgram, Asked
    <3> QED BY <1>1, <1>2, <2>1, <3>1 DEF Room
  <2>4. CASE pc = "decode"
    <3> DEFINE front == SubSeq(generated, 1, Len(generated) - 1)
    <3>1. /\ generated # <<>> /\ history = prompt \o front
          /\ Len(generated) < maxNew /\ Asked = 1
      BY <2>4 DEF GenInv, FedByProgram, Asked
    <3>2. front \in Seq(Token) /\ Len(front) = Len(generated) - 1
      BY <1>2, <3>1, FrontAndLast
    <3> HIDE DEF front
    <3>3. Len(history) = Len(prompt) + (Len(generated) - 1)
      BY <1>2, <3>1, <3>2, ConcatProperties
    <3> QED BY <1>1, <1>2, <2>1, <3>1, <3>3 DEF Room
  <2> QED BY <1>1, <2>2, <2>3, <2>4
<1>4. TypeOK'
  BY <1>1 DEF GenInv, TypeOK
<1>5. CallOK'
  BY <1>1, <1>3 DEF GenInv, CallOK, Running
<1>6. FedByProgram'
  BY <1>1 DEF FedByProgram, Running
<1>7. /\ GreedyContinuation' /\ ValidatedIsNeverRefused' /\ NoExtraDecode'
      /\ IterationsRepeat' /\ RefusedAtOnce'
  BY <1>1, <1>3 DEF GreedyContinuation, ValidatedIsNeverRefused, NoExtraDecode,
         IterationsRepeat, RefusedAtOnce
<1> QED BY <1>4, <1>5, <1>6, <1>7 DEF GenInv

LEMMA FailsKeeps ==
  ASSUME GenInv, CallFails
  PROVE  GenInv'
<1> USE GenerationAssumption
<1>1. /\ pc' = "done" /\ outcome' = "failed"
      /\ UNCHANGED <<program, prompt, maxNew, generated, iteration, timings>>
  BY DEF CallFails, GiveUp, frame
<1>2. TypeOK'
  <2>1. \/ history' = <<>> /\ mode' \in {"failed", "torn"}
        \/ UNCHANGED <<history, mode>>
    BY DEF CallFails, Log!Fail, Log!Tear, logVars
  <2>2. <<>> \in UpTo(Capacity, Token)
    BY EmptyFits
  <2> QED BY <1>1, <2>1, <2>2 DEF GenInv, TypeOK
<1>3. CallOK'
  BY <1>1 DEF GenInv, CallOK, Running
<1>4. FedByProgram'
  BY <1>1 DEF FedByProgram, Running
<1>5. /\ GreedyContinuation' /\ ValidatedIsNeverRefused' /\ NoExtraDecode'
      /\ IterationsRepeat' /\ RefusedAtOnce'
  BY <1>1 DEF GreedyContinuation, ValidatedIsNeverRefused, NoExtraDecode,
         IterationsRepeat, RefusedAtOnce
<1> QED BY <1>2, <1>3, <1>4, <1>5 DEF GenInv

LEMMA ReturnKeeps ==
  ASSUME GenInv, Return
  PROVE  GenInv'
<1> USE GenerationAssumption
<1>1. /\ pc' = "idle" /\ program' = "none" /\ prompt' = <<>> /\ maxNew' = 0
      /\ generated' = <<>> /\ iteration' = 0 /\ timings' = 0
      /\ outcome' = "none" /\ UNCHANGED <<history, mode>>
  BY DEF Return, logVars
<1>2. /\ <<>> \in UpTo(Capacity + 1, Token) /\ <<>> \in UpTo(0, Token)
      /\ Len(<<>>) = 0
  BY EmptyFits
<1>3. TypeOK'
  BY <1>1, <1>2 DEF GenInv, TypeOK
<1>4. CallOK'
  BY <1>1 DEF CallOK, Running
<1>5. FedByProgram'
  BY <1>1 DEF FedByProgram, Running
<1>6. /\ GreedyContinuation' /\ ValidatedIsNeverRefused' /\ NoExtraDecode'
      /\ IterationsRepeat' /\ RefusedAtOnce'
  BY <1>1 DEF GreedyContinuation, ValidatedIsNeverRefused, NoExtraDecode,
         IterationsRepeat, RefusedAtOnce
<1> QED BY <1>3, <1>4, <1>5, <1>6 DEF GenInv

\* Whatever the owner does with the session, it keeps to the session's size.
LEMMA OtherUseTyped ==
  ASSUME TypeOK, OtherUse
  PROVE  history' \in UpTo(Capacity, Token) /\ mode' \in {"ok", "failed", "torn"}
<1> USE GenerationAssumption
<1>1. history \in Seq(Token) /\ Capacity \in Nat
  BY UpToIsSeq DEF TypeOK
<1>2. Len(history') <= Capacity
  BY DEF OtherUse, Log!Bounded
<1>3. <<>> \in Seq(Token)
  OBVIOUS
<1>4. ASSUME NEW tokens \in Log!Requests, Log!Consume(tokens)
      PROVE  history' \in Seq(Token) /\ mode' = mode
  <2>1. PICK n \in 1 .. Capacity : tokens \in [1 .. n -> Token]
    BY DEF Log!Requests
  <2>2. tokens \in Seq(Token)
    BY <1>1, <2>1, SeqDef
  <2>3. history \o tokens \in Seq(Token)
    BY <1>1, <2>2, ConcatProperties
  <2> QED BY <1>4, <2>3 DEF Log!Consume
<1>5. ASSUME NEW token \in Token, NEW n \in 1 .. Capacity, Log!Greedy(token, n)
      PROVE  history' \in Seq(Token) /\ mode' = mode
  <2>1. /\ reply' \in [1 .. n -> Token] /\ mode' = mode
        /\ history' = history \o <<token>> \o SubSeq(reply', 1, n - 1)
    BY <1>5 DEF Log!Greedy
  <2>2. \A i \in 1 .. n - 1 : reply'[i] \in Token
    BY <1>1, <2>1
  <2>3. SubSeq(reply', 1, n - 1) \in Seq(Token)
    <3>1. n - 1 \in Int
      BY <1>1
    <3> QED BY <2>2, <3>1, SubSeqProperties
  <2>4. <<token>> \in Seq(Token)
    OBVIOUS
  <2>5. history \o <<token>> \in Seq(Token)
    BY <1>1, <2>4, ConcatProperties
  <2>6. (history \o <<token>>) \o SubSeq(reply', 1, n - 1) \in Seq(Token)
    BY <2>3, <2>5, ConcatProperties
  <2> QED BY <2>1, <2>6
<1>6. ASSUME Log!Fail \/ Log!Reset \/ Log!Tear
      PROVE  history' \in Seq(Token) /\ mode' \in {"ok", "failed", "torn"}
  BY <1>3, <1>6 DEF Log!Fail, Log!Reset, Log!Tear
<1>7. ASSUME Log!AnswerTorn PROVE history' \in Seq(Token) /\ mode' = mode
  BY <1>1, <1>7 DEF Log!AnswerTorn
<1>8. history' \in Seq(Token) /\ mode' \in {"ok", "failed", "torn"}
  <2>1. Log!Next
    BY DEF OtherUse
  <2> QED BY <2>1, <1>4, <1>5, <1>6, <1>7 DEF Log!Next, TypeOK
<1> QED BY <1>1, <1>2, <1>8, UpToIsSeq

LEMMA OtherUseKeeps ==
  ASSUME GenInv, OtherUse
  PROVE  GenInv'
<1>1. /\ pc = "idle" /\ program = "none" /\ outcome = "none"
      /\ UNCHANGED <<pc, program, prompt, maxNew, generated, iteration, timings, outcome>>
  BY DEF GenInv, CallOK, OtherUse, frame
<1>2. TypeOK'
  BY <1>1, OtherUseTyped DEF GenInv, TypeOK
<1>3. CallOK'
  BY <1>1 DEF GenInv, CallOK, Running
<1>4. FedByProgram'
  BY <1>1 DEF FedByProgram, Running
<1>5. /\ GreedyContinuation' /\ ValidatedIsNeverRefused' /\ NoExtraDecode'
      /\ IterationsRepeat' /\ RefusedAtOnce'
  BY <1>1 DEF GreedyContinuation, ValidatedIsNeverRefused, NoExtraDecode,
         IterationsRepeat, RefusedAtOnce
<1> QED BY <1>2, <1>3, <1>4, <1>5 DEF GenInv

LEMMA StutterKeeps ==
  ASSUME GenInv, UNCHANGED vars
  PROVE  GenInv'
<1> USE DEF vars, logVars, frame
<1>1. TypeOK'
  BY DEF GenInv, TypeOK
<1>2. CallOK'
  BY DEF GenInv, CallOK, Running, Fits
<1>3. FedByProgram'
  BY DEF GenInv, FedByProgram, Running, IsGreedy, NoStop
<1>4. /\ GreedyContinuation' /\ ValidatedIsNeverRefused' /\ NoExtraDecode'
      /\ IterationsRepeat' /\ RefusedAtOnce'
  BY DEF GenInv, GreedyContinuation, ValidatedIsNeverRefused, NoExtraDecode,
         IterationsRepeat, RefusedAtOnce, IsGreedy, NoStop
<1> QED BY <1>1, <1>2, <1>3, <1>4 DEF GenInv

-----------------------------------------------------------------------------
(* Theorems *)

\* The inductive invariant of the runtime's programs (lib.rs, generate_token_ids
\* and benchmark_session).
THEOREM GenerationInvariant == Spec => []GenInv
<1>1. Init => GenInv
  BY InitEstablishes
<1>2. GenInv /\ [Next]_vars => GenInv'
  <2> SUFFICES ASSUME GenInv, [Next]_vars PROVE GenInv'
    OBVIOUS
  <2>1. CASE UNCHANGED vars
    BY <2>1, StutterKeeps
  <2>2. CASE /\ pc = "idle"
             /\ \E tokens \in Prompts, n \in Lengths :
                  \/ Generate(tokens, n) \/ GenerateInvalid(tokens, n)
                  \/ Benchmark(tokens, n) \/ BenchmarkInvalid(tokens, n)
    BY <2>2, StartKeeps
  <2>3. CASE ResetSession \/ PrefillPrompt \/ TakeResult \/ DecodeResult \/ DecodeBatch
    BY <2>3, ResetKeeps, PrefillKeeps, TakeKeeps, DecodeKeeps, BatchKeeps
  <2>4. CASE Refused \/ CallFails \/ Return
    BY <2>4, RefusedKeeps, FailsKeeps, ReturnKeeps
  <2>5. CASE OtherUse
    BY <2>5, OtherUseKeeps
  <2> QED BY <2>1, <2>2, <2>3, <2>4, <2>5 DEF Next, Program
<1> QED BY <1>1, <1>2, PTL DEF Spec

\* What generate_token_ids returns is the greedy continuation of its prompt, cut
\* before the first stop token or at the length asked for.
THEOREM GenerationIsGreedy == Spec => []GreedyContinuation
<1>1. GenInv => GreedyContinuation
  BY DEF GenInv
<1> QED BY <1>1, GenerationInvariant, PTL

\* A request that passed the checks of generate_token_ids always has room in the
\* session, and no earlier failure is left to answer for.
THEOREM ValidatedRunsAreServed == Spec => []ValidatedIsNeverRefused
<1>1. GenInv => ValidatedIsNeverRefused
  BY DEF GenInv
<1> QED BY <1>1, GenerationInvariant, PTL

\* A generation consumes no token it does not need to know the next one for.
THEOREM NothingDecodedInVain == Spec => []NoExtraDecode
<1>1. GenInv => NoExtraDecode
  BY DEF GenInv
<1> QED BY <1>1, GenerationInvariant, PTL

\* Every iteration of benchmark_session decodes the same tokens, and if it asks
\* for too much it learns so in the first.
THEOREM BenchmarksRepeat == Spec => [](IterationsRepeat /\ RefusedAtOnce)
<1>1. GenInv => IterationsRepeat /\ RefusedAtOnce
  BY DEF GenInv
<1> QED BY <1>1, GenerationInvariant, PTL

-----------------------------------------------------------------------------
(* Host state: words and products *)

\* All but the first of n times p, and the first that is not below i.
LEMMA StepsOfProduct ==
  ASSUME NEW s \in Nat, NEW t \in Nat, NEW p \in Nat, s < t
  PROVE  s * p + p <= t * p
<1>1. PICK d \in Nat : t = s + 1 + d
  <2>1. t - s - 1 \in Nat /\ t = s + 1 + (t - s - 1)
    OBVIOUS
  <2> QED BY <2>1
<1>2. t * p = s * p + p + d * p
  BY <1>1, SMT
<1>3. d * p \in Nat /\ s * p \in Nat
  BY SMT
<1> QED BY <1>2, <1>3

LEMMA WordFacts ==
  ASSUME LayoutWordsAssumption, NEW a \in Nat, NEW b \in Nat
  PROVE  /\ Times(a, b) \in Nat /\ Plus(a, b) \in Nat /\ Half(a) \in Nat
         /\ Times(a, b) # NoWord =>
              a # NoWord /\ b # NoWord /\ Times(a, b) = a * b /\ a * b <= WordMax
         /\ Plus(a, b) # NoWord =>
              a # NoWord /\ b # NoWord /\ Plus(a, b) = a + b /\ a + b <= WordMax
         /\ Half(a) # NoWord => a # NoWord /\ Half(a) = a
<1>1. WordMax \in Nat /\ HalfMax \in Nat /\ HalfMax <= WordMax
  BY DEF LayoutWordsAssumption
<1>2. a * b \in Nat
  BY SMT
<1>3. Times(a, b) # NoWord => a # NoWord /\ b # NoWord /\ Times(a, b) = a * b
  BY DEF Times
<1>4. Times(a, b) # NoWord => a * b <= WordMax
  <2>1. CASE a = 0
    BY <1>1, <2>1
  <2>2. CASE a # 0 /\ b <= WordMax \div a
    <3> DEFINE q == WordMax \div a
    <3>1. q \in Nat /\ a * q <= WordMax
      BY <1>1, <2>2, SMT
    <3> HIDE DEF q
    <3>2. a * b <= a * q
      <4>1. PICK d \in Nat : q = b + d
        <5>1. b <= q
          BY <2>2 DEF q
        <5>2. q - b \in Nat /\ q = b + (q - b)
          BY <3>1, <5>1
        <5> QED BY <5>2
      <4>2. a * q = a * b + a * d /\ a * d \in Nat
        BY <4>1, SMT
      <4> QED BY <1>2, <4>2
    <3> QED BY <1>1, <1>2, <3>1, <3>2, a * q \in Nat
  <2> QED BY <2>1, <2>2 DEF Times
<1>5. Times(a, b) \in Nat
  BY <1>1, <1>2 DEF Times, NoWord
<1>6. Plus(a, b) # NoWord =>
        a # NoWord /\ b # NoWord /\ Plus(a, b) = a + b /\ a + b <= WordMax
  <2>1. CASE a # NoWord /\ b # NoWord /\ b <= WordMax - a
    <3>1. a + b <= WordMax
      BY <1>1, <2>1
    <3> QED BY <2>1, <3>1 DEF Plus
  <2>2. CASE ~(a # NoWord /\ b # NoWord /\ b <= WordMax - a)
    BY <2>2 DEF Plus
  <2> QED BY <2>1, <2>2
<1>7. Plus(a, b) \in Nat
  BY <1>1 DEF Plus, NoWord
<1>8. Half(a) \in Nat /\ (Half(a) # NoWord => a # NoWord /\ Half(a) = a)
  BY <1>1 DEF Half, NoWord
<1> QED BY <1>3, <1>4, <1>5, <1>6, <1>7, <1>8

-----------------------------------------------------------------------------
(* Host state: layouts *)

LayoutSet ==
  [maxContext : 0..HalfMax, blockCount : Nat, linearLayers : Nat, fullLayers : Nat,
   convWidth : Nat, keyHeads : Nat, valueHeads : Nat, linearDim : Nat, kvHeads : Nat,
   headDim : Nat, qkv : Nat, convolution : Nat, recurrent : Nat, kv : Nat,
   convolutionBytes : Nat, recurrentBytes : Nat, kvBytes : Nat,
   linearSlots : Seq(Nat), fullSlots : Seq(Nat)]

\* Sizes that are right and can all be counted in bytes have not wrapped.
LEMMA AcceptedSizes ==
  ASSUME LayoutWordsAssumption, NEW l \in LayoutSet, l.convWidth # 0,
         SizesMatch(l), BytesMatch(l)
  PROVE  /\ l.qkv = 2 * l.keyHeads * l.linearDim + l.valueHeads * l.linearDim
         /\ l.convolution = l.qkv * (l.convWidth - 1)
         /\ l.recurrent = l.valueHeads * l.linearDim * l.linearDim
         /\ l.kv = 2 * l.maxContext * l.kvHeads * l.headDim
         /\ 4 * (l.linearLayers * (l.convolution + l.recurrent) + l.fullLayers * l.kv) <= WordMax
<1> DEFINE two == Times(2, l.keyHeads)
           keys == Times(two, l.linearDim)
           values == Times(l.valueHeads, l.linearDim)
           both == Plus(keys, values)
           qkv == Half(both)
           rest == l.convWidth - 1
           square == Times(l.linearDim, l.linearDim)
           pairs == Times(2, l.maxContext)
           heads == Times(l.kvHeads, l.headDim)
           c == Times(l.linearLayers, l.convolution)
           r == Times(l.linearLayers, l.recurrent)
           k == Times(l.fullLayers, l.kv)
           cr == Plus(Bytes(c), Bytes(r))
<1>1. /\ l.keyHeads \in Nat /\ l.linearDim \in Nat /\ l.valueHeads \in Nat
      /\ l.convWidth \in Nat /\ rest \in Nat
      /\ l.maxContext \in Nat /\ l.kvHeads \in Nat /\ l.headDim \in Nat
      /\ l.linearLayers \in Nat /\ l.fullLayers \in Nat
      /\ l.qkv \in Nat /\ l.convolution \in Nat /\ l.recurrent \in Nat /\ l.kv \in Nat
  <2>1. /\ l.keyHeads \in Nat /\ l.linearDim \in Nat /\ l.valueHeads \in Nat
        /\ l.convWidth \in Nat /\ l.maxContext \in 0..HalfMax
        /\ l.kvHeads \in Nat /\ l.headDim \in Nat
        /\ l.linearLayers \in Nat /\ l.fullLayers \in Nat
        /\ l.qkv \in Nat /\ l.convolution \in Nat /\ l.recurrent \in Nat /\ l.kv \in Nat
    BY DEF LayoutSet
  <2> QED BY <2>1
<1>2. /\ l.qkv = qkv /\ l.convolution = Times(qkv, rest)
      /\ l.recurrent = Times(l.valueHeads, square) /\ l.kv = Times(pairs, heads)
      /\ Plus(cr, Bytes(k)) # NoWord
  BY DEF SizesMatch, BytesMatch
<1> HIDE DEF rest
<1>3. /\ two \in Nat /\ keys \in Nat /\ values \in Nat /\ both \in Nat /\ square \in Nat
      /\ pairs \in Nat /\ heads \in Nat /\ c \in Nat /\ r \in Nat /\ k \in Nat
  <2>1. two \in Nat /\ values \in Nat /\ square \in Nat /\ pairs \in Nat /\ heads \in Nat
        /\ c \in Nat /\ r \in Nat /\ k \in Nat
    BY <1>1, WordFacts, 2 \in Nat
  <2> HIDE DEF two, values
  <2>2. keys \in Nat
    BY <1>1, <2>1, WordFacts
  <2> HIDE DEF keys
  <2>3. both \in Nat
    BY <2>1, <2>2, WordFacts
  <2> QED BY <2>1, <2>2, <2>3 DEF two, values, keys
<1> HIDE DEF two, keys, values, both, qkv, square, pairs, heads, c, r, k
<1>4. /\ Bytes(c) \in Nat /\ Bytes(r) \in Nat /\ Bytes(k) \in Nat /\ cr \in Nat
      /\ Bytes(c) # NoWord => c # NoWord /\ Bytes(c) = c * 4
      /\ Bytes(r) # NoWord => r # NoWord /\ Bytes(r) = r * 4
      /\ Bytes(k) # NoWord => k # NoWord /\ Bytes(k) = k * 4
  <2>1. /\ Bytes(c) \in Nat /\ Bytes(r) \in Nat /\ Bytes(k) \in Nat
        /\ Bytes(c) # NoWord => c # NoWord /\ Bytes(c) = c * 4
        /\ Bytes(r) # NoWord => r # NoWord /\ Bytes(r) = r * 4
        /\ Bytes(k) # NoWord => k # NoWord /\ Bytes(k) = k * 4
    <3>1. Bytes(c) \in Nat /\ (Bytes(c) # NoWord => c # NoWord /\ Bytes(c) = c * 4)
      BY <1>3, WordFacts, 4 \in Nat DEF Bytes
    <3>2. Bytes(r) \in Nat /\ (Bytes(r) # NoWord => r # NoWord /\ Bytes(r) = r * 4)
      BY <1>3, WordFacts, 4 \in Nat DEF Bytes
    <3>3. Bytes(k) \in Nat /\ (Bytes(k) # NoWord => k # NoWord /\ Bytes(k) = k * 4)
      BY <1>3, WordFacts, 4 \in Nat DEF Bytes
    <3> QED BY <3>1, <3>2, <3>3
  <2>2. cr \in Nat
    BY <2>1, WordFacts
  <2> QED BY <2>1, <2>2
<1>5. /\ cr # NoWord /\ Bytes(k) # NoWord /\ cr + Bytes(k) <= WordMax
      /\ Bytes(c) # NoWord /\ Bytes(r) # NoWord /\ cr = Bytes(c) + Bytes(r)
  <2>1. cr # NoWord /\ Bytes(k) # NoWord /\ cr + Bytes(k) <= WordMax
    <3> HIDE DEF cr
    <3> QED BY <1>2, <1>4, WordFacts
  <2>2. Bytes(c) # NoWord /\ Bytes(r) # NoWord /\ cr = Bytes(c) + Bytes(r)
    BY <1>4, <2>1, WordFacts
  <2> QED BY <2>1, <2>2
<1> HIDE DEF cr
<1>6. /\ c # NoWord /\ r # NoWord /\ k # NoWord
      /\ c * 4 + r * 4 + k * 4 <= WordMax
  BY <1>3, <1>4, <1>5
<1>7. /\ l.convolution # NoWord /\ c = l.linearLayers * l.convolution
      /\ l.recurrent # NoWord /\ r = l.linearLayers * l.recurrent
      /\ l.kv # NoWord /\ k = l.fullLayers * l.kv
  BY <1>1, <1>6, WordFacts DEF c, r, k
<1>8. l.qkv # NoWord /\ l.convolution = l.qkv * rest
  BY <1>1, <1>2, <1>7, WordFacts
<1>9. l.qkv = both /\ both # NoWord
  BY <1>2, <1>3, <1>8, WordFacts DEF qkv
<1>10. both = keys + values /\ keys # NoWord /\ values # NoWord
  BY <1>3, <1>9, WordFacts DEF both
<1>11. /\ keys = two * l.linearDim /\ two # NoWord
       /\ values = l.valueHeads * l.linearDim
  BY <1>1, <1>3, <1>10, WordFacts DEF keys, values
<1>12. two = 2 * l.keyHeads
  BY <1>1, <1>11, WordFacts, 2 \in Nat DEF two
<1>13. l.recurrent = l.valueHeads * square /\ square # NoWord
  <2>1. l.recurrent = Times(l.valueHeads, square) /\ Times(l.valueHeads, square) # NoWord
    BY <1>2, <1>7
  <2>2. Times(l.valueHeads, square) = l.valueHeads * square /\ square # NoWord
    BY <1>1, <1>3, <2>1, WordFacts, ZenonT(40)
  <2> QED BY <2>1, <2>2
<1>14. square = l.linearDim * l.linearDim
  BY <1>1, <1>13, WordFacts DEF square
<1>15. l.kv = pairs * heads /\ pairs # NoWord /\ heads # NoWord
  BY <1>2, <1>3, <1>7, WordFacts
<1>16. pairs = 2 * l.maxContext /\ heads = l.kvHeads * l.headDim
  BY <1>1, <1>15, WordFacts, 2 \in Nat DEF pairs, heads
<1>17. l.qkv = 2 * l.keyHeads * l.linearDim + l.valueHeads * l.linearDim
  BY <1>9, <1>10, <1>11, <1>12
<1>18. l.recurrent = l.valueHeads * l.linearDim * l.linearDim
  <2>1. \A x, y, z \in Nat : x * (y * z) = x * y * z
    BY SMT
  <2> QED BY <1>1, <1>13, <1>14, <2>1
<1>19. l.kv = 2 * l.maxContext * l.kvHeads * l.headDim
  <2>1. \A x, y, z \in Nat : x * (y * z) = x * y * z
    BY SMT
  <2>2. 2 * l.maxContext \in Nat
    BY <1>1
  <2> QED BY <1>1, <1>15, <1>16, <2>1, <2>2
<1>20. 4 * (l.linearLayers * (l.convolution + l.recurrent) + l.fullLayers * l.kv) <= WordMax
  <2>1. \A x, y, z \in Nat : x * (y + z) = x * y + x * z
    BY SMT
  <2>2. l.linearLayers * (l.convolution + l.recurrent) = c + r
    BY <1>1, <1>7, <2>1
  <2> QED BY <1>3, <1>6, <1>7, <2>2
<1> QED BY <1>8, <1>17, <1>18, <1>19, <1>20 DEF rest

-----------------------------------------------------------------------------
(* Host state: slots and spans *)

\* As many different slots as there are below n are all of them.
LEMMA SlotsAreAll ==
  ASSUME NEW slots \in Seq(Nat), NEW n \in Nat, SlotsApart(slots),
         \A b \in TakenSlots(slots) : slots[b] < n,
         Cardinality(TakenSlots(slots)) = n
  PROVE  \A s \in 0..(n - 1) : \E b \in TakenSlots(slots) : slots[b] = s
<1> DEFINE Taken == TakenSlots(slots)
           Below == 0..(n - 1)
           f == [b \in Taken |-> slots[b]]
<1>1. \A b \in Taken : b \in DOMAIN slots /\ slots[b] \in Nat /\ slots[b] # NoSlot
  BY DEF TakenSlots
<1>2. f \in [Taken -> Below]
  <2>1. \A b \in Taken : slots[b] \in Below
    BY <1>1
  <2> QED BY <2>1
<1>3. ASSUME NEW a \in Taken, NEW b \in Taken, f[a] = f[b] PROVE a = b
  BY <1>1, <1>3 DEF SlotsApart
<1>4. f \in Injection(Taken, Below)
  <2> HIDE DEF f, Taken, Below
  <2> QED BY <1>2, <1>3 DEF Injection, IsInjective
<1>5. IsFiniteSet(Below) /\ Cardinality(Below) = n
  <2>1. 0 \in Int /\ n - 1 \in Int
    OBVIOUS
  <2>2. IsFiniteSet(0..(n - 1)) /\ Cardinality(0..(n - 1)) = IF 0 > n - 1 THEN 0 ELSE n - 1 - 0 + 1
    BY <2>1, FS_Interval
  <2> QED BY <2>2
<1>6. f \in Surjection(Taken, Below)
  <2> HIDE DEF f, Below
  <2> QED BY <1>4, <1>5, FS_Injection
<1>7. \A s \in Below : \E b \in Taken : f[b] = s
  <2> HIDE DEF f, Below, Taken
  <2> QED BY <1>6 DEF Surjection
<1> QED BY <1>7

\* n steps of p reach every number below n times p.
LEMMA StepsReachAll ==
  ASSUME NEW n \in Nat, NEW p \in Nat
  PROVE  \A i \in 0..(n * p - 1) : \E s \in 0..(n - 1) : i \in s * p..(s * p + p - 1)
<1> DEFINE P == {k \in 0..n : \A i \in 0..(k * p - 1) :
                   \E s \in 0..(k - 1) : i \in s * p..(s * p + p - 1)}
<1>1. 0 \in P
  <2>1. 0 * p = 0
    BY SMT
  <2> QED BY <2>1
<1>2. ASSUME NEW k \in 1..n, k - 1 \in P PROVE k \in P
  <2>1. PICK j \in Nat : k = j + 1
    <3>1. k - 1 \in Nat /\ k = k - 1 + 1
      OBVIOUS
    <3> QED BY <3>1
  <2>2. k * p = j * p + p /\ j * p \in Nat
    BY <2>1, SMT
  <2>3. j \in P
    BY <1>2, <2>1
  <2>4. ASSUME NEW i \in 0..(k * p - 1)
        PROVE  \E s \in 0..(k - 1) : i \in s * p..(s * p + p - 1)
    <3>1. CASE i < j * p
      <4>1. i \in 0..(j * p - 1)
        BY <2>2, <3>1
      <4>2. PICK s \in 0..(j - 1) : i \in s * p..(s * p + p - 1)
        BY <2>3, <4>1
      <4>3. s \in 0..(k - 1)
        BY <2>1
      <4> QED BY <4>2, <4>3
    <3>2. CASE i >= j * p
      <4>1. i \in j * p..(j * p + p - 1)
        BY <2>2, <3>2
      <4>2. j \in 0..(k - 1)
        BY <2>1
      <4> QED BY <4>1, <4>2
    <3> QED BY <2>2, <3>1, <3>2
  <2> QED BY <2>4
<1>3. n \in P
  <2> HIDE DEF P
  <2>1. \A k \in 0..n : k \in P
    BY <1>1, <1>2, BoundedInduction
  <2> QED BY <2>1
<1> QED BY <1>3

\* What slot_span computes from slots that are apart, below n and as many.
LEMMA SlotsTile ==
  ASSUME NEW slots \in Seq(Nat), NEW n \in Nat, NEW p \in Nat, SlotsApart(slots),
         \A b \in TakenSlots(slots) : slots[b] < n,
         Cardinality(TakenSlots(slots)) = n
  PROVE  /\ UNION {slots[b] * p..(slots[b] * p + p - 1) : b \in TakenSlots(slots)}
              = 0..(n * p - 1)
         /\ \A b, d \in TakenSlots(slots) : b # d =>
              (slots[b] * p..(slots[b] * p + p - 1)) \cap (slots[d] * p..(slots[d] * p + p - 1)) = {}
<1> DEFINE Taken == TakenSlots(slots)
           Span(b) == slots[b] * p..(slots[b] * p + p - 1)
<1>1. \A b \in Taken : b \in DOMAIN slots /\ slots[b] \in Nat /\ slots[b] # NoSlot
  BY DEF TakenSlots
<1>2. n * p \in Nat
  BY SMT
<1>3. ASSUME NEW b \in Taken, NEW i \in Span(b) PROVE i \in 0..(n * p - 1)
  <2> DEFINE s == slots[b]
  <2>1. s \in Nat /\ s < n
    BY <1>1
  <2>2. s * p + p <= n * p
    BY <2>1, StepsOfProduct
  <2>3. s * p \in Nat
    BY <2>1, SMT
  <2>4. i \in s * p..(s * p + p - 1)
    OBVIOUS
  <2> HIDE DEF s
  <2> QED BY <1>2, <2>2, <2>3, <2>4
<1>4. ASSUME NEW i \in 0..(n * p - 1) PROVE \E b \in Taken : i \in Span(b)
  <2>1. PICK s \in 0..(n - 1) : i \in s * p..(s * p + p - 1)
    BY StepsReachAll
  <2>2. PICK b \in Taken : slots[b] = s
    BY SlotsAreAll
  <2> QED BY <2>1, <2>2
<1>5. ASSUME NEW b \in Taken, NEW d \in Taken, b # d PROVE Span(b) \cap Span(d) = {}
  <2> DEFINE s == slots[b]
             t == slots[d]
  <2>1. s \in Nat /\ t \in Nat /\ s # t
    BY <1>1, <1>5 DEF SlotsApart
  <2> HIDE DEF s, t
  <2>2. s * p \in Nat /\ t * p \in Nat
    BY <2>1, SMT
  <2>3. s * p + p <= t * p \/ t * p + p <= s * p
    <3>1. s < t \/ t < s
      BY <2>1
    <3> QED BY <2>1, <3>1, StepsOfProduct
  <2>4. (s * p..(s * p + p - 1)) \cap (t * p..(t * p + p - 1)) = {}
    BY <2>2, <2>3
  <2> QED BY <2>4 DEF s, t
<1>6. UNION {Span(b) : b \in Taken} = 0..(n * p - 1)
  <2>1. UNION {Span(b) : b \in Taken} \subseteq 0..(n * p - 1)
    <3> SUFFICES ASSUME NEW b \in Taken, NEW i \in Span(b) PROVE i \in 0..(n * p - 1)
      OBVIOUS
    <3> QED BY <1>3
  <2>2. 0..(n * p - 1) \subseteq UNION {Span(b) : b \in Taken}
    <3> SUFFICES ASSUME NEW i \in 0..(n * p - 1) PROVE \E b \in Taken : i \in Span(b)
      OBVIOUS
    <3> QED BY <1>4
  <2> QED BY <2>1, <2>2, Zenon
<1> QED BY <1>5, <1>6

-----------------------------------------------------------------------------
(* Host state: what create makes *)

\* Slots given out in order are apart and below the number of blocks of the kind.
LEMMA OrderedSlots ==
  ASSUME LayoutWordsAssumption, NEW c, c.blocks \in Seq([index : 0..HalfMax, kind : {"linear", "full"}]),
         Len(c.blocks) \in 1..HalfMax, NEW kind
  PROVE  LET slots == SlotsOf(c, kind) IN
           /\ slots \in Seq(Nat) /\ Len(slots) = Len(c.blocks)
           /\ TakenSlots(slots) = BlocksOf(c, kind)
           /\ \A b \in TakenSlots(slots) : slots[b] < Cardinality(BlocksOf(c, kind))
           /\ SlotsApart(slots)
           /\ Cardinality(BlocksOf(c, kind)) \in Nat
<1> DEFINE Own == BlocksOf(c, kind)
           Below(b) == {e \in Own : e < b}
           slots == SlotsOf(c, kind)
           len == Len(c.blocks)
<1>1. len \in Nat /\ len <= HalfMax /\ HalfMax \in Nat /\ DOMAIN c.blocks = 1..len
  BY DEF LayoutWordsAssumption
<1>2. Own \subseteq 1..len
  BY <1>1 DEF BlocksOf
<1>3. IsFiniteSet(1..len)
  <2>1. 1 \in Int /\ len \in Int
    BY <1>1
  <2> QED BY <2>1, FS_Interval
<1>4. IsFiniteSet(Own) /\ Cardinality(Own) \in Nat
  <2> HIDE DEF Own
  <2> QED BY <1>2, <1>3, FS_Subset, FS_CardinalityType
<1>5. ASSUME NEW b \in 1..len
      PROVE  /\ IsFiniteSet(Below(b)) /\ Cardinality(Below(b)) \in Nat
             /\ Cardinality(Below(b)) < HalfMax
  <2>1. Below(b) \subseteq 1..(b - 1)
    BY <1>1, <1>2
  <2>2. b \in Nat /\ 1 \in Int /\ b - 1 \in Int /\ b <= HalfMax
    BY <1>1
  <2>3. /\ IsFiniteSet(1..(b - 1))
        /\ Cardinality(1..(b - 1)) = IF 1 > b - 1 THEN 0 ELSE b - 1 - 1 + 1
    BY <2>2, FS_Interval
  <2> DEFINE S == Below(b)
             T == 1..(b - 1)
  <2> HIDE DEF S, T
  <2>4. IsFiniteSet(S) /\ Cardinality(S) <= Cardinality(T)
    BY <2>1, <2>3, FS_Subset DEF S, T
  <2>5. Cardinality(S) \in Nat
    BY <2>4, FS_CardinalityType
  <2>6. Cardinality(T) = b - 1
    BY <1>1, <2>2, <2>3 DEF T
  <2>7. Cardinality(S) < HalfMax
    BY <1>1, <2>2, <2>4, <2>5, <2>6
  <2> QED BY <2>4, <2>5, <2>7 DEF S
<1>6. slots = [b \in 1..len |-> IF b \in Own THEN Cardinality(Below(b)) ELSE NoSlot]
  <2>1. \A b \in DOMAIN c.blocks : c.blocks[b].kind = kind <=> b \in Own
    BY DEF BlocksOf
  <2>2. slots = [b \in DOMAIN c.blocks |->
                   IF c.blocks[b].kind = kind THEN Cardinality(Below(b)) ELSE NoSlot]
    BY DEF SlotsOf
  <2> HIDE DEF Own, Below, slots
  <2> QED BY <1>1, <2>1, <2>2, Zenon
<1> HIDE DEF slots
<1>7. slots \in Seq(Nat) /\ Len(slots) = len
  <2>1. \A b \in 1..len : (IF b \in Own THEN Cardinality(Below(b)) ELSE NoSlot) \in Nat
    BY <1>1, <1>5 DEF NoSlot
  <2> HIDE DEF Own, Below
  <2>2. slots \in [1..len -> Nat]
    BY <1>6, <2>1
  <2> QED BY <1>1, <2>2, SMTT(30)
<1>8. TakenSlots(slots) = Own
  <2>1. DOMAIN slots = 1..len
    BY <1>6
  <2>2. ASSUME NEW b \in 1..len, b \in Own PROVE slots[b] # NoSlot
    <3> DEFINE S == Below(b)
    <3>1. Cardinality(S) \in Nat /\ Cardinality(S) < HalfMax
      BY <1>5
    <3>2. slots[b] = Cardinality(S)
      BY <1>6, <2>2
    <3> HIDE DEF S
    <3> QED BY <1>1, <3>1, <3>2 DEF NoSlot
  <2>3. \A b \in 1..len : b \notin Own => slots[b] = NoSlot
    BY <1>6
  <2> HIDE DEF Own
  <2> QED BY <1>2, <2>1, <2>2, <2>3 DEF TakenSlots
<1>9. ASSUME NEW b \in Own PROVE slots[b] < Cardinality(Own)
  <2> DEFINE S == Below(b)
  <2>1. S \subseteq Own /\ b \notin S
    BY <1>1, <1>2
  <2>2. slots[b] = Cardinality(S)
    BY <1>2, <1>6
  <2> HIDE DEF S, Own
  <2>3. Cardinality(S) <= Cardinality(Own) /\ Cardinality(S) # Cardinality(Own) /\ IsFiniteSet(S)
    BY <1>4, <2>1, FS_Subset
  <2>4. Cardinality(S) \in Nat
    BY <2>3, FS_CardinalityType
  <2> QED BY <1>4, <2>2, <2>3, <2>4
<1>10. ASSUME NEW b \in Own, NEW d \in Own, b < d PROVE slots[b] # slots[d]
  <2> DEFINE S == Below(b)
             T == Below(d)
  <2>1. S \subseteq T /\ b \in T /\ b \notin S
    BY <1>1, <1>2, <1>10
  <2>2. slots[b] = Cardinality(S) /\ slots[d] = Cardinality(T)
    BY <1>2, <1>6
  <2>3. IsFiniteSet(T)
    BY <1>2, <1>5
  <2> HIDE DEF S, T
  <2> QED BY <2>1, <2>2, <2>3, FS_Subset
<1>11. SlotsApart(slots)
  <2> SUFFICES ASSUME NEW a \in DOMAIN slots, NEW b \in DOMAIN slots, a # b, slots[a] # NoSlot
               PROVE  slots[a] # slots[b]
    BY DEF SlotsApart
  <2>1. a \in Own
    BY <1>8 DEF TakenSlots
  <2>2. CASE b \in Own
    <3>1. a \in Nat /\ b \in Nat
      BY <1>1, <1>2, <2>1, <2>2
    <3>2. a < b \/ b < a
      BY <3>1
    <3> QED BY <1>10, <2>1, <2>2, <3>2
  <2>3. CASE b \notin Own
    <3>1. slots[b] = NoSlot
      BY <1>8, <2>3 DEF TakenSlots
    <3> QED BY <3>1
  <2> QED BY <2>2, <2>3
<1>12. /\ slots \in Seq(Nat) /\ Len(slots) = len
       /\ TakenSlots(slots) = Own
       /\ \A b \in TakenSlots(slots) : slots[b] < Cardinality(Own)
       /\ SlotsApart(slots) /\ Cardinality(Own) \in Nat
  BY <1>4, <1>7, <1>8, <1>9, <1>11
<1> QED BY <1>12 DEF slots

\* Any configuration that create does not refuse gets a layout the constructor
\* takes, if the vectors can be that long.
LEMMA CreatedLayouts ==
  ASSUME LayoutWordsAssumption, HostStateAssumption, NEW c \in Configs, NEW n \in ContextSizes,
         Creatable(c, n)
  PROVE  /\ Created(c, n) \in LayoutSet
         /\ FitsVectors(Created(c, n)) => ValidLayout(Created(c, n))
<1> DEFINE l == Created(c, n)
           linear == BlocksOf(c, "linear")
           full == BlocksOf(c, "full")
<1>1. /\ c.keyHeads \in Nat /\ c.valueHeads \in Nat /\ c.linearDim \in Nat
      /\ c.convWidth \in Nat /\ c.kvHeads \in Nat /\ c.headDim \in Nat
      /\ c.blocks \in Seq([index : 0..HalfMax, kind : {"linear", "full"}])
  <2>1. c \in [keyHeads : 0..HalfMax, valueHeads : 0..HalfMax, linearDim : 0..HalfMax,
               convWidth : 0..HalfMax, kvHeads : 0..HalfMax, headDim : 0..HalfMax,
               blocks : Seq([index : 0..HalfMax, kind : {"linear", "full"}])]
    BY DEF HostStateAssumption
  <2> QED BY <2>1
<1>2. /\ c.convWidth # 0 /\ c.valueHeads # 0 /\ c.keyHeads # 0 /\ c.linearDim # 0
      /\ c.kvHeads # 0 /\ c.headDim # 0 /\ n # 0 /\ Len(c.blocks) \in 1..HalfMax
      /\ \A f \in SizeFields : l[f] # NoWord
      /\ TotalBytes(l) # NoWord
  BY DEF Creatable
<1>3. /\ l.maxContext = n /\ l.blockCount = Len(c.blocks)
      /\ l.linearLayers = Cardinality(linear) /\ l.fullLayers = Cardinality(full)
      /\ l.convWidth = c.convWidth /\ l.keyHeads = c.keyHeads
      /\ l.valueHeads = c.valueHeads /\ l.linearDim = c.linearDim
      /\ l.kvHeads = c.kvHeads /\ l.headDim = c.headDim
      /\ l.qkv = Half(Plus(Times(Times(2, c.keyHeads), c.linearDim),
                           Times(c.valueHeads, c.linearDim)))
      /\ l.convolution = Times(l.qkv, c.convWidth - 1)
      /\ l.recurrent = Times(c.valueHeads, Times(c.linearDim, c.linearDim))
      /\ l.kv = Times(Times(2, n), Times(c.kvHeads, c.headDim))
      /\ l.convolutionBytes = Bytes(Times(l.linearLayers, l.convolution))
      /\ l.recurrentBytes = Bytes(Times(l.linearLayers, l.recurrent))
      /\ l.kvBytes = Bytes(Times(l.fullLayers, l.kv))
      /\ l.linearSlots = SlotsOf(c, "linear") /\ l.fullSlots = SlotsOf(c, "full")
      /\ l = [maxContext |-> l.maxContext, blockCount |-> l.blockCount,
              linearLayers |-> l.linearLayers, fullLayers |-> l.fullLayers,
              convWidth |-> l.convWidth, keyHeads |-> l.keyHeads,
              valueHeads |-> l.valueHeads, linearDim |-> l.linearDim,
              kvHeads |-> l.kvHeads, headDim |-> l.headDim, qkv |-> l.qkv,
              convolution |-> l.convolution, recurrent |-> l.recurrent, kv |-> l.kv,
              convolutionBytes |-> l.convolutionBytes,
              recurrentBytes |-> l.recurrentBytes, kvBytes |-> l.kvBytes,
              linearSlots |-> l.linearSlots, fullSlots |-> l.fullSlots]
  BY DEF Created
<1> HIDE DEF l
<1>4. n \in Nat /\ n \in 0..HalfMax
  BY DEF HostStateAssumption, LayoutWordsAssumption
<1>5. /\ l.linearSlots \in Seq(Nat) /\ Len(l.linearSlots) = l.blockCount
      /\ TakenSlots(l.linearSlots) = linear
      /\ \A b \in TakenSlots(l.linearSlots) : l.linearSlots[b] < l.linearLayers
      /\ SlotsApart(l.linearSlots) /\ l.linearLayers \in Nat
  BY <1>1, <1>2, <1>3, OrderedSlots
<1>6. /\ l.fullSlots \in Seq(Nat) /\ Len(l.fullSlots) = l.blockCount
      /\ TakenSlots(l.fullSlots) = full
      /\ \A b \in TakenSlots(l.fullSlots) : l.fullSlots[b] < l.fullLayers
      /\ SlotsApart(l.fullSlots) /\ l.fullLayers \in Nat
  BY <1>1, <1>2, <1>3, OrderedSlots
<1> HIDE DEF linear, full
<1>7. l.qkv \in Nat /\ l.recurrent \in Nat /\ l.kv \in Nat
  <2>1. /\ Times(2, c.keyHeads) \in Nat /\ Times(c.valueHeads, c.linearDim) \in Nat
        /\ Times(c.linearDim, c.linearDim) \in Nat /\ Times(2, n) \in Nat
        /\ Times(c.kvHeads, c.headDim) \in Nat
    BY <1>1, <1>4, WordFacts, 2 \in Nat
  <2>2. Times(Times(2, c.keyHeads), c.linearDim) \in Nat
    BY <1>1, <2>1, WordFacts
  <2>3. Plus(Times(Times(2, c.keyHeads), c.linearDim), Times(c.valueHeads, c.linearDim)) \in Nat
    BY <2>1, <2>2, WordFacts
  <2>4. l.qkv \in Nat
    BY <1>3, <2>3, WordFacts
  <2>5. l.recurrent \in Nat
    <3>1. Times(c.valueHeads, Times(c.linearDim, c.linearDim)) \in Nat
      BY <1>1, <2>1, WordFacts
    <3> QED BY <1>3, <3>1
  <2>6. l.kv \in Nat
    <3>1. Times(Times(2, n), Times(c.kvHeads, c.headDim)) \in Nat
      BY <2>1, WordFacts
    <3> QED BY <1>3, <3>1
  <2> QED BY <2>4, <2>5, <2>6
<1>8. l.convolution \in Nat
  <2>1. c.convWidth - 1 \in Nat
    BY <1>1, <1>2
  <2>2. Times(l.qkv, c.convWidth - 1) \in Nat
    BY <1>7, <2>1, WordFacts
  <2> QED BY <1>3, <2>2
<1>9. l.convolutionBytes \in Nat /\ l.recurrentBytes \in Nat /\ l.kvBytes \in Nat
  <2>1. /\ Times(l.linearLayers, l.convolution) \in Nat
        /\ Times(l.linearLayers, l.recurrent) \in Nat
        /\ Times(l.fullLayers, l.kv) \in Nat
    BY <1>5, <1>6, <1>7, <1>8, WordFacts
  <2>2. \A a \in Nat : Bytes(a) \in Nat
    BY WordFacts, 4 \in Nat DEF Bytes
  <2> QED BY <1>3, <2>1, <2>2
<1>10. l \in LayoutSet
  <2>1. l.blockCount \in Nat
    BY <1>2, <1>3, <1>5
  <2> QED BY <1>1, <1>3, <1>4, <1>5, <1>6, <1>7, <1>8, <1>9, <2>1 DEF LayoutSet
<1>11. SizesMatch(l)
  BY <1>3 DEF SizesMatch
<1>12. BytesMatch(l)
  BY <1>2, <1>3 DEF BytesMatch, TotalBytes
<1>13. SlotsMatch(l)
  <2>1. ASSUME NEW b \in 1..l.blockCount
        PROVE  (l.linearSlots[b] # NoSlot) # (l.fullSlots[b] # NoSlot)
    <3>1. b \in DOMAIN l.linearSlots /\ b \in DOMAIN l.fullSlots
      BY <1>5, <1>6
    <3>2. b \in DOMAIN c.blocks /\ c.blocks[b].kind \in {"linear", "full"}
      <4> DEFINE S == [index : 0..HalfMax, kind : {"linear", "full"}]
                 q == c.blocks
      <4>1. q \in Seq(S) /\ b \in 1..Len(q)
        BY <1>1, <1>3
      <4> HIDE DEF S, q
      <4>2. b \in DOMAIN q /\ q[b] \in S
        BY ONLY <4>1
      <4> QED BY <4>2 DEF S, q
    <3>3. l.linearSlots[b] # NoSlot <=> c.blocks[b].kind = "linear"
      BY <1>5, <3>1, <3>2 DEF TakenSlots, linear, BlocksOf
    <3>4. l.fullSlots[b] # NoSlot <=> c.blocks[b].kind = "full"
      BY <1>6, <3>1, <3>2 DEF TakenSlots, full, BlocksOf
    <3> QED BY <3>2, <3>3, <3>4
  <2> QED BY <1>3, <1>5, <1>6, <2>1 DEF SlotsMatch
<1>14. \A f \in NonzeroFields : l[f] # 0
  <2>1. l.blockCount # 0
    BY <1>2, <1>3
  <2> QED BY <1>2, <1>3, <2>1 DEF NonzeroFields
<1>15. FitsVectors(l) => ValidLayout(l)
  BY <1>5, <1>6, <1>11, <1>12, <1>13, <1>14 DEF ValidLayout
<1> QED BY <1>10, <1>15 DEF l

-----------------------------------------------------------------------------
(* Host state: the invariant *)

\* What a state keeps: lengths that follow the position, and floats that are the
\* blocks' own.
KeptInv ==
  /\ ValidLayout(layout)
  /\ position \in 0..layout.maxContext
  /\ lengths = [s \in 0..(layout.fullLayers - 1) |-> position]
  /\ storage = "Full" =>
       /\ DOMAIN floats = Arrays
       /\ \A a \in Arrays :
            /\ DOMAIN floats[a] = 0..(Layers(a) * PerSlot(a) - 1)
            /\ \A b \in Owners(a) : \A i \in SpanOf(a, b) : floats[a][i] \in {0, b}

HostInv ==
  /\ phase \in {"none", "layout", "state", "refused"}
  /\ phase \in {"layout", "state"} => layout \in LayoutSet
  /\ edits \in Nat
  /\ phase = "layout" /\ edits = 0 =>
       \E c \in Configs, n \in ContextSizes : Creatable(c, n) /\ layout = Created(c, n)
  /\ phase = "state" => KeptInv

HostAssumption == LayoutWordsAssumption /\ HostStateAssumption

\* The spans of an accepted layout: disjoint, and together each vector.
LEMMA SpanFacts ==
  ASSUME HostAssumption, layout \in LayoutSet, ValidLayout(layout), NEW a \in Arrays
  PROVE  /\ UNION {SpanOf(a, b) : b \in Owners(a)} = 0..(Layers(a) * PerSlot(a) - 1)
         /\ \A b, d \in Owners(a) : b # d => SpanOf(a, b) \cap SpanOf(a, d) = {}
<1> DEFINE q == SlotsIn(a)
           n == Layers(a)
           p == PerSlot(a)
<1>1. /\ q \in Seq(Nat) /\ n \in Nat /\ p \in Nat /\ SlotsApart(q)
      /\ \A b \in TakenSlots(q) : q[b] < n
      /\ Cardinality(TakenSlots(q)) = n
  <2>1. SlotsMatch(layout)
    BY DEF ValidLayout
  <2>2. CASE a = "kv"
    BY <2>1, <2>2 DEF SlotsMatch, SlotsIn, Layers, PerSlot, LayoutSet
  <2>3. CASE a \in {"convolution", "recurrent"}
    BY <2>1, <2>3 DEF SlotsMatch, SlotsIn, Layers, PerSlot, LayoutSet
  <2> QED BY <2>2, <2>3 DEF Arrays
<1>2. \A b : SpanOf(a, b) = q[b] * p..(q[b] * p + p - 1)
  BY DEF SpanOf
<1>3. Owners(a) = TakenSlots(q)
  BY DEF Owners
<1> HIDE DEF q, n, p
<1>4. /\ UNION {q[b] * p..(q[b] * p + p - 1) : b \in TakenSlots(q)} = 0..(n * p - 1)
      /\ \A b, d \in TakenSlots(q) : b # d =>
           (q[b] * p..(q[b] * p + p - 1)) \cap (q[d] * p..(q[d] * p + p - 1)) = {}
  BY <1>1, SlotsTile
<1>5. {SpanOf(a, b) : b \in Owners(a)} = {q[b] * p..(q[b] * p + p - 1) : b \in TakenSlots(q)}
  BY <1>2, <1>3, Zenon
<1>6. ASSUME NEW b \in Owners(a), NEW d \in Owners(a), b # d
      PROVE  SpanOf(a, b) \cap SpanOf(a, d) = {}
  <2>1. (q[b] * p..(q[b] * p + p - 1)) \cap (q[d] * p..(q[d] * p + p - 1)) = {}
    BY <1>3, <1>4, <1>6, Zenon
  <2>2. /\ SpanOf(a, b) = q[b] * p..(q[b] * p + p - 1)
        /\ SpanOf(a, d) = q[d] * p..(q[d] * p + p - 1)
    BY <1>2, Zenon
  <2> QED BY <2>1, <2>2, Zenon
<1> QED BY <1>4, <1>5, <1>6, Zenon DEF n, p

LEMMA CreateKeeps ==
  ASSUME HostAssumption, HostInv, Create
  PROVE  HostInv'
<1>1. PICK c \in Configs, n \in ContextSizes :
        \/ Creatable(c, n) /\ layout' = Created(c, n) /\ phase' = "layout"
        \/ phase' = "refused"
  BY DEF Create
<1>2. UNCHANGED edits
  BY DEF Create
<1>3. CASE Creatable(c, n) /\ layout' = Created(c, n) /\ phase' = "layout"
  <2>1. layout' \in LayoutSet
    BY <1>3, CreatedLayouts DEF HostAssumption
  <2> QED BY <1>2, <1>3, <2>1 DEF HostInv
<1>4. CASE phase' = "refused"
  BY <1>2, <1>4 DEF HostInv
<1> QED BY <1>1, <1>3, <1>4

LEMMA EditKeeps ==
  ASSUME HostAssumption, HostInv, EditField \/ EditSlot
  PROVE  HostInv'
<1>1. phase = "layout" /\ phase' = "layout" /\ edits' = edits + 1 /\ layout \in LayoutSet
  BY DEF EditField, EditSlot, HostInv
<1>2. layout' \in LayoutSet
  <2>1. EditValue \subseteq 0..HalfMax /\ NoSlot \in Nat /\ HalfMax \in Nat
    BY DEF HostAssumption, HostStateAssumption, LayoutWordsAssumption, NoSlot
  <2>2. CASE EditField
    <3>1. PICK f \in NonzeroFields \cup SizeFields \cup {"linearLayers", "fullLayers"},
               v \in EditValue : layout' = [layout EXCEPT ![f] = v]
      BY <2>2 DEF EditField
    <3>2. v \in Nat /\ v \in 0..HalfMax
      BY <2>1
    <3> QED BY <1>1, <3>1, <3>2, ZenonT(40) DEF LayoutSet, NonzeroFields, SizeFields
  <2>3. CASE EditSlot
    <3>1. PICK f \in {"linearSlots", "fullSlots"}, v \in EditValue \cup {NoSlot} :
            \E b \in DOMAIN layout[f] : layout' = [layout EXCEPT ![f][b] = v]
      BY <2>3 DEF EditSlot
    <3>2. PICK b \in DOMAIN layout[f] : layout' = [layout EXCEPT ![f][b] = v]
      BY <3>1
    <3>3. v \in Nat
      BY <2>1
    <3> DEFINE q == layout[f]
               r == [q EXCEPT ![b] = v]
    <3>4. q \in Seq(Nat)
      BY <1>1 DEF LayoutSet
    <3>5. r \in Seq(Nat)
      <4> HIDE DEF q
      <4>1. Len(q) \in Nat /\ q \in [1..Len(q) -> Nat]
        BY <3>4
      <4>2. r \in [1..Len(q) -> Nat]
        BY <3>3, <4>1
      <4> QED BY <4>1, <4>2
    <3>6. layout' = [layout EXCEPT ![f] = r]
      BY <3>2
    <3> HIDE DEF r
    <3> QED BY <1>1, <3>5, <3>6 DEF LayoutSet
  <2> QED BY <2>2, <2>3
<1> QED BY <1>1, <1>2 DEF HostInv

LEMMA ConstructKeeps ==
  ASSUME HostAssumption, HostInv, Construct
  PROVE  HostInv'
<1>1. phase = "layout" /\ layout \in LayoutSet /\ UNCHANGED <<layout, edits>>
  BY DEF Construct, HostInv
<1>2. CASE ~ValidLayout(layout)
  BY <1>1, <1>2 DEF Construct, HostInv
<1>3. CASE ValidLayout(layout)
  <2>1. /\ phase' = "state" /\ storage' \in {"Full", "LogicalOnly"} /\ position' = 0
        /\ lengths' = [s \in 0..(layout.fullLayers - 1) |-> 0]
        /\ floats' = [a \in Arrays |->
             IF storage' = "Full" THEN [i \in 0..(Layers(a) * PerSlot(a) - 1) |-> 0]
             ELSE <<>>]
    BY <1>3 DEF Construct
  <2>2. position' \in 0..layout.maxContext
    BY <1>1, <2>1 DEF LayoutSet
  <2>3. ASSUME storage' = "Full", NEW a \in Arrays
        PROVE  floats'[a] = [i \in 0..(Layers(a) * PerSlot(a) - 1) |-> 0]
    BY <2>1, <2>3
  <2>4. /\ \A a \in Arrays : UNCHANGED <<Layers(a), PerSlot(a), Owners(a)>>
        /\ \A a \in Arrays : \A b : UNCHANGED SpanOf(a, b)
    BY <1>1 DEF Layers, PerSlot, Owners, SpanOf, SlotsIn
  <2>5. ASSUME storage' = "Full", NEW a \in Arrays
        PROVE  /\ DOMAIN floats'[a] = 0..(Layers(a) * PerSlot(a) - 1)
               /\ \A b \in Owners(a) : \A i \in SpanOf(a, b) : floats'[a][i] = 0
    <3>1. \A b \in Owners(a) : SpanOf(a, b) \subseteq 0..(Layers(a) * PerSlot(a) - 1)
      BY <1>1, <1>3, SpanFacts
    <3> QED BY <2>3, <2>5, <3>1
  <2>6. storage' = "Full" => DOMAIN floats' = Arrays
    BY <2>1
  <2>7. KeptInv'
    BY <1>1, <1>3, <2>1, <2>2, <2>4, <2>5, <2>6 DEF KeptInv
  <2> QED BY <1>1, <2>1, <2>7 DEF HostInv
<1> QED BY <1>2, <1>3

LEMMA WriteKeeps ==
  ASSUME HostAssumption, HostInv, NEW array \in Arrays, NEW block \in 1..HalfMax,
         Write(array, block)
  PROVE  HostInv'
<1>1. /\ phase = "state" /\ storage = "Full" /\ block \in Owners(array)
      /\ floats' = [floats EXCEPT ![array] =
           [i \in DOMAIN floats[array] |->
              IF i \in SpanOf(array, block) THEN block ELSE floats[array][i]]]
      /\ UNCHANGED <<phase, layout, edits, storage, position, lengths>>
  BY DEF Write
<1>2. layout \in LayoutSet /\ KeptInv
  BY <1>1 DEF HostInv
<1>3. /\ \A a \in Arrays : UNCHANGED <<Layers(a), PerSlot(a), Owners(a)>>
      /\ \A a \in Arrays : \A b : UNCHANGED SpanOf(a, b)
  BY <1>1 DEF Layers, PerSlot, Owners, SpanOf, SlotsIn
<1>4. DOMAIN floats = Arrays
  BY <1>1, <1>2 DEF KeptInv
<1>5. DOMAIN floats' = Arrays
  BY <1>1, <1>4
<1>6. ASSUME NEW a \in Arrays
      PROVE  /\ DOMAIN floats'[a] = 0..(Layers(a) * PerSlot(a) - 1)
             /\ \A b \in Owners(a) : \A i \in SpanOf(a, b) : floats'[a][i] \in {0, b}
  <2>1. /\ DOMAIN floats[a] = 0..(Layers(a) * PerSlot(a) - 1)
        /\ \A b \in Owners(a) : \A i \in SpanOf(a, b) : floats[a][i] \in {0, b}
    BY <1>1, <1>2 DEF KeptInv
  <2>2. CASE a # array
    <3>1. floats'[a] = floats[a]
      BY <1>1, <1>4, <2>2
    <3> QED BY <2>1, <3>1
  <2>3. CASE a = array
    <3>1. floats'[a] = [i \in DOMAIN floats[a] |->
                          IF i \in SpanOf(a, block) THEN block ELSE floats[a][i]]
      BY <1>1, <1>4, <2>3
    <3>2. /\ UNION {SpanOf(a, b) : b \in Owners(a)} = DOMAIN floats[a]
          /\ \A b, d \in Owners(a) : b # d => SpanOf(a, b) \cap SpanOf(a, d) = {}
      BY <1>2, <2>1, SpanFacts DEF KeptInv
    <3>3. ASSUME NEW b \in Owners(a), NEW i \in SpanOf(a, b)
          PROVE  floats'[a][i] \in {0, b}
      <4>1. i \in DOMAIN floats[a]
        BY <3>2
      <4>2. CASE b = block
        BY <2>1, <3>1, <4>1, <4>2
      <4>3. CASE b # block
        <5>1. i \notin SpanOf(a, block)
          BY <1>1, <2>3, <3>2, <4>3
        <5> QED BY <2>1, <3>1, <4>1, <5>1
      <4> QED BY <4>2, <4>3
    <3> QED BY <2>1, <3>1, <3>3
  <2> QED BY <2>2, <2>3
<1>7. KeptInv'
  BY <1>1, <1>2, <1>3, <1>5, <1>6 DEF KeptInv
<1> QED BY <1>1, <1>2, <1>7 DEF HostInv

LEMMA CommitKeeps ==
  ASSUME HostAssumption, HostInv, NEW count \in Counts, CommitTokens(count)
  PROVE  HostInv'
<1>1. /\ phase = "state" /\ FitsContext(position, count)
      /\ position' = Advance(position, count)
      /\ lengths' = [s \in DOMAIN lengths |-> Advance(lengths[s], count)]
      /\ UNCHANGED <<phase, layout, edits, storage, floats>>
  BY DEF CommitTokens
<1>2. layout \in LayoutSet /\ KeptInv
  BY <1>1 DEF HostInv
<1>3. /\ position \in Nat /\ layout.maxContext \in Nat /\ count \in Nat /\ HalfMax \in Nat
      /\ layout.maxContext <= HalfMax /\ position + count <= layout.maxContext
  <2>1. /\ position \in 0..layout.maxContext /\ layout.maxContext \in 0..HalfMax
        /\ count \in 0..HalfMax /\ HalfMax \in Nat
        /\ count <= layout.maxContext /\ position <= layout.maxContext - count
    BY <1>1, <1>2
    DEF KeptInv, LayoutSet, HostAssumption, HostStateAssumption, LayoutWordsAssumption,
        FitsContext
  <2> HIDE DEF KeptInv
  <2> QED BY ONLY <2>1
<1>4. Advance(position, count) = position + count
  <2> DEFINE sum == position + count
  <2>1. sum \in Nat /\ sum < HalfMax + 1 /\ HalfMax + 1 \in Nat \ {0}
    BY <1>3
  <2> HIDE DEF sum
  <2>2. sum % (HalfMax + 1) = sum
    BY <1>3, <2>1, SMT
  <2> QED BY <2>2 DEF Advance, sum
<1>5. position' \in 0..layout.maxContext
  BY <1>1, <1>3, <1>4
<1>6. lengths' = [s \in 0..(layout.fullLayers - 1) |-> position']
  <2>1. lengths = [s \in 0..(layout.fullLayers - 1) |-> position]
    BY <1>2 DEF KeptInv
  <2> HIDE DEF Advance
  <2> QED BY <1>1, <2>1
<1>7. /\ \A a \in Arrays : UNCHANGED <<Layers(a), PerSlot(a), Owners(a)>>
      /\ \A a \in Arrays : \A b : UNCHANGED SpanOf(a, b)
  BY <1>1 DEF Layers, PerSlot, Owners, SpanOf, SlotsIn
<1>8. KeptInv'
  BY <1>1, <1>2, <1>5, <1>6, <1>7 DEF KeptInv
<1> QED BY <1>1, <1>2, <1>8 DEF HostInv

LEMMA ClearKeeps ==
  ASSUME HostAssumption, HostInv, Reset
  PROVE  HostInv'
<1>1. /\ phase = "state" /\ position' = 0
      /\ lengths' = [s \in DOMAIN lengths |-> 0]
      /\ floats' = [a \in Arrays |-> [i \in DOMAIN floats[a] |-> 0]]
      /\ UNCHANGED <<phase, layout, edits, storage>>
  BY DEF Reset
<1>2. layout \in LayoutSet /\ KeptInv
  BY <1>1 DEF HostInv
<1>3. position' \in 0..layout.maxContext
  BY <1>1, <1>2 DEF LayoutSet
<1>4. lengths' = [s \in 0..(layout.fullLayers - 1) |-> position']
  BY <1>1, <1>2 DEF KeptInv
<1>5. /\ \A a \in Arrays : UNCHANGED <<Layers(a), PerSlot(a), Owners(a)>>
      /\ \A a \in Arrays : \A b : UNCHANGED SpanOf(a, b)
  BY <1>1 DEF Layers, PerSlot, Owners, SpanOf, SlotsIn
<1>6. ASSUME storage = "Full", NEW a \in Arrays
      PROVE  /\ DOMAIN floats'[a] = 0..(Layers(a) * PerSlot(a) - 1)
             /\ \A b \in Owners(a) : \A i \in SpanOf(a, b) : floats'[a][i] \in {0, b}
  <2>1. DOMAIN floats[a] = 0..(Layers(a) * PerSlot(a) - 1)
    BY <1>2, <1>6 DEF KeptInv
  <2>2. floats'[a] = [i \in DOMAIN floats[a] |-> 0]
    BY <1>1
  <2>3. \A b \in Owners(a) : SpanOf(a, b) \subseteq DOMAIN floats[a]
    BY <1>2, <2>1, SpanFacts DEF KeptInv
  <2> QED BY <2>1, <2>2, <2>3
<1>7. DOMAIN floats' = Arrays
  BY <1>1
<1>8. KeptInv'
  BY <1>1, <1>2, <1>3, <1>4, <1>5, <1>6, <1>7 DEF KeptInv
<1> QED BY <1>1, <1>2, <1>8 DEF HostInv

LEMMA HostStep ==
  ASSUME HostAssumption, HostInv, [HostNext]_hostVars
  PROVE  HostInv'
<1>1. CASE UNCHANGED hostVars
  BY <1>1 DEF hostVars, HostInv, KeptInv, Layers, PerSlot, Owners, SpanOf, SlotsIn
<1>2. CASE HostNext
  BY <1>2, CreateKeeps, EditKeeps, ConstructKeeps, WriteKeeps, CommitKeeps, ClearKeeps
  DEF HostNext
<1> QED BY <1>1, <1>2

LEMMA HostInvServes ==
  ASSUME HostAssumption, HostInv
  PROVE  HostStateServes
<1>1. CreatedIsAccepted
  BY CreatedLayouts DEF CreatedIsAccepted, HostInv, HostAssumption
<1>2. phase = "state" => layout \in LayoutSet /\ KeptInv
  BY DEF HostInv
<1>3. SizesAreTrue
  <2> SUFFICES ASSUME layout \in LayoutSet, ValidLayout(layout)
               PROVE  SizesAreTrue
    BY <1>2 DEF SizesAreTrue, KeptInv
  <2>1. SizesMatch(layout) /\ BytesMatch(layout) /\ layout.convWidth # 0
    BY DEF ValidLayout, NonzeroFields
  <2> QED BY <2>1, AcceptedSizes DEF SizesAreTrue, HostAssumption
<1>4. SpansTile
  BY <1>2, SpanFacts DEF SpansTile, KeptInv
<1>5. BlocksKeepTheirState
  BY <1>2 DEF BlocksKeepTheirState, KeptInv
<1>6. LengthsFollowPosition
  <2> SUFFICES ASSUME phase = "state", layout \in LayoutSet, KeptInv
               PROVE  /\ position <= layout.maxContext
                      /\ \A b \in Owners("kv") : FullKvLength(b) = position
    BY <1>2 DEF LengthsFollowPosition
  <2>1. position <= layout.maxContext
    BY DEF KeptInv, LayoutSet
  <2>2. ASSUME NEW b \in Owners("kv") PROVE FullKvLength(b) = position
    <3>1. layout.fullSlots[b] < layout.fullLayers /\ b \in DOMAIN layout.fullSlots
      BY DEF KeptInv, ValidLayout, SlotsMatch, Owners, SlotsIn, TakenSlots
    <3>2. layout.fullSlots \in Seq(Nat) /\ layout.fullLayers \in Nat
      BY DEF LayoutSet
    <3>3. layout.fullSlots[b] \in 0..(layout.fullLayers - 1)
      BY <3>1, <3>2
    <3> QED BY <3>3 DEF KeptInv, FullKvLength
  <2> QED BY <2>1, <2>2
<1> QED
  BY <1>1, <1>3, <1>4, <1>5, <1>6 DEF HostStateServes

\* For every configuration, context, edited layout and order of writes, commits and
\* resets: the constructor takes what create makes, no size of an accepted layout has
\* wrapped, spans tile the vectors (qwen35_state.cpp, slot_span), blocks keep what
\* they wrote, and every length is the position.
THEOREM HostStatesServe ==
  ASSUME HostAssumption PROVE HostSpec => []HostStateServes
<1>1. HostInv => HostStateServes
  BY HostInvServes
<1>2. HostInv /\ [HostNext]_hostVars => HostInv'
  BY HostStep
<1>3. HostInit => HostInv
  BY DEF HostInit, HostInv
<1> QED
  BY <1>1, <1>2, <1>3, PTL DEF HostSpec

-----------------------------------------------------------------------------
(* Model loading: words *)

LEMMA QuotientFacts ==
  ASSUME NEW a \in Nat, NEW b \in Nat \ {0}
  PROVE  a \div b \in Nat /\ a % b \in 0..(b - 1) /\ a = b * (a \div b) + (a % b)
BY SMT

LEMMA ProductGrows ==
  ASSUME NEW a \in Nat, NEW b \in Nat, NEW c \in Nat, a <= b
  PROVE  a * c <= b * c /\ c * a <= c * b /\ a * c \in Nat /\ b * c \in Nat /\ c * a = a * c
BY SMT

\* A product that is a word is computed, checked or not.
LEMMA ExactWords ==
  ASSUME LayoutWordsAssumption, NEW a \in 0..WordMax, NEW b \in 0..WordMax
  PROVE  /\ a * b \in 0..WordMax => Times(a, b) = a * b
         /\ a + b \in 0..WordMax => Plus(a, b) = a + b
         /\ Wrap(a) = a
<1>1. WordMax \in Nat /\ a \in Nat /\ b \in Nat /\ a # NoWord /\ b # NoWord
  BY DEF LayoutWordsAssumption, NoWord
<1>2. ASSUME a * b \in 0..WordMax, a # 0 PROVE b <= WordMax \div a
  <2> DEFINE q == WordMax \div a
             r == WordMax % a
  <2>1. q \in Nat /\ r \in 0..(a - 1) /\ WordMax = a * q + r
    BY <1>1, <1>2, QuotientFacts
  <2> HIDE DEF q, r
  <2> SUFFICES ASSUME q + 1 <= b PROVE FALSE
    BY <1>1, <2>1 DEF q
  <2>2. a * (q + 1) <= a * b
    BY <1>1, <2>1, ProductGrows
  <2>3. a * (q + 1) = a * q + a /\ a * q \in Nat
    BY <1>1, <2>1, SMT
  <2> QED BY <1>1, <1>2, <2>1, <2>2, <2>3
<1>3. a * b \in 0..WordMax => Times(a, b) = a * b
  BY <1>1, <1>2 DEF Times
<1>4. a + b \in 0..WordMax => Plus(a, b) = a + b
  BY <1>1 DEF Plus, NoWord
<1>5. Wrap(a) = a
  BY <1>1, SMT DEF Wrap
<1> QED BY <1>3, <1>4, <1>5

\* Words are wide enough for a few times what half of one holds.
LEMMA WordsAreWide ==
  ASSUME LayoutWordsAssumption, LoadingAssumption
  PROVE  HalfMax * HalfMax <= WordMax /\ 3 * HalfMax <= WordMax
<1>1. HalfMax \in Nat /\ HalfMax >= 4 /\ WordMax \in Nat
  BY DEF LayoutWordsAssumption
<1>2. (HalfMax + 1) * (HalfMax + 1) = WordMax + 1
  BY DEF LoadingAssumption
<1> QED BY <1>1, <1>2, SMT

-----------------------------------------------------------------------------
(* Model loading: what was derived *)

Positive == {"vocabulary", "hidden", "intermediate", "contextLength", "convWidth",
             "keyHeads", "valueHeads", "linearDim", "heads", "kvHeads", "headDim"}

\* What derive_qwen35_config leaves for all that comes after it.
Derived(c) ==
  /\ \A f \in Positive : c[f] \in 1..HalfMax
  /\ c.rotary \in 1..c.headDim /\ c.rotary % 2 = 0
  /\ c.heads % c.kvHeads = 0 /\ c.heads * c.headDim = c.hidden
  /\ c.keyHeads <= c.valueHeads /\ c.valueHeads % c.keyHeads = 0
  /\ c.valueHeads * c.linearDim <= HalfMax
  /\ Len(c.blocks) \in 1..HalfMax /\ DOMAIN c.blocks = 1..Len(c.blocks)
  /\ \A b \in DOMAIN c.blocks :
       c.blocks[b].index = b - 1 /\ c.blocks[b].kind \in {"full", "linear"}

LEMMA DerivedIsSound ==
  ASSUME LayoutWordsAssumption, LoadingAssumption, NEW m \in Metadata, Derivable(m)
  PROVE  Derived(DerivedConfig(m))
<1> DEFINE c == DerivedConfig(m)
           heads == m.innerSize \div m.stateSize
           n == MainBlocks(m)
<1>1. /\ m.tokens \in 1..HalfMax /\ m.embedding \in 1..HalfMax /\ m.feedForward \in 1..HalfMax
      /\ m.context \in 1..HalfMax /\ m.convKernel \in 1..HalfMax
      /\ m.groupCount \in 1..HalfMax /\ m.stateSize \in 1..HalfMax
      /\ m.headCount \in 1..HalfMax /\ m.kvHeadCount \in 1..HalfMax
      /\ m.keyLength \in 1..HalfMax /\ m.innerSize \in 1..HalfMax
      /\ m.blockCount \in 1..HalfMax
  <2>1. \A f \in Required \ {"rotary"} : m[f] \in 0..HalfMax /\ m[f] # 0
    BY DEF Derivable
  <2>2. \A f \in Required \ {"rotary"} : m[f] \in 1..HalfMax
    BY <2>1 DEF LayoutWordsAssumption
  <2> QED BY <2>2 DEF Required, Numbers
<1>2. /\ m.headCount % m.kvHeadCount = 0 /\ m.headCount * m.keyLength = m.embedding
      /\ m.rotary \in 1..m.keyLength /\ m.rotary % 2 = 0
  BY DEF Derivable
<1>3. heads >= m.groupCount /\ heads % m.groupCount = 0 /\ m.innerSize % m.stateSize = 0
  BY DEF Derivable, LinearHeadsMatch
<1>4. heads \in Nat /\ m.innerSize = m.stateSize * heads + (m.innerSize % m.stateSize)
  <2>1. m.innerSize \in Nat /\ m.stateSize \in Nat \ {0}
    BY <1>1
  <2> QED BY <2>1, QuotientFacts
<1>5. n \in 1..HalfMax
  <2>1. m.nextn \in 0..NoWord
    BY DEF LoadingAssumption, Numbers
  <2>2. NextnLayers(m) \in Nat /\ NextnLayers(m) < m.blockCount
    BY <2>1 DEF Derivable, NextnLayers, NoWord, LayoutWordsAssumption
  <2> QED BY <1>1, <2>2 DEF MainBlocks, LayoutWordsAssumption
<1>6. /\ c.vocabulary = m.tokens /\ c.hidden = m.embedding /\ c.intermediate = m.feedForward
      /\ c.contextLength = m.context /\ c.heads = m.headCount /\ c.kvHeads = m.kvHeadCount
      /\ c.headDim = m.keyLength /\ c.keyHeads = m.groupCount /\ c.valueHeads = heads
      /\ c.linearDim = m.stateSize /\ c.convWidth = m.convKernel /\ c.rotary = m.rotary
      /\ c.blocks = [b \in 1..n |-> [index |-> b - 1, kind |-> KindAt(m, b - 1)]]
  BY DEF DerivedConfig
<1> HIDE DEF c, heads, n
<1>7. heads * m.stateSize = m.innerSize
  <2>1. m.innerSize = m.stateSize * heads /\ m.stateSize \in Nat
    BY <1>1, <1>3, <1>4, SMT
  <2> QED BY <1>4, <2>1, SMT
<1>8. heads \in 1..HalfMax
  <2>1. heads # 0
    <3>1. heads >= m.groupCount /\ heads \in Nat /\ m.groupCount \in 1..HalfMax
      BY <1>1, <1>3, <1>4
    <3> QED BY ONLY <3>1
  <2>2. heads * 1 <= heads * m.stateSize
    BY <1>1, <1>4, ProductGrows, 1 \in Nat
  <2>3. m.innerSize \in Nat /\ HalfMax \in Nat /\ heads * 1 = heads
    BY <1>1, <1>4 DEF LayoutWordsAssumption
  <2> QED BY <1>1, <1>4, <1>7, <2>1, <2>2, <2>3
<1>9. \A f \in Positive : c[f] \in 1..HalfMax
  BY <1>1, <1>6, <1>8 DEF Positive
<1>10. /\ c.rotary \in 1..c.headDim /\ c.rotary % 2 = 0
       /\ c.heads % c.kvHeads = 0 /\ c.heads * c.headDim = c.hidden
       /\ c.keyHeads <= c.valueHeads /\ c.valueHeads % c.keyHeads = 0
  BY <1>1, <1>2, <1>3, <1>4, <1>6
<1>11. c.valueHeads * c.linearDim <= HalfMax
  BY <1>1, <1>6, <1>7
<1>12. /\ Len(c.blocks) \in 1..HalfMax /\ DOMAIN c.blocks = 1..Len(c.blocks)
       /\ \A b \in DOMAIN c.blocks :
            c.blocks[b].index = b - 1 /\ c.blocks[b].kind \in {"full", "linear"}
  <2>1. c.blocks \in Seq([index : Int, kind : {"full", "linear"}])
    BY <1>5, <1>6 DEF KindAt
  <2>2. DOMAIN c.blocks = 1..n /\ Len(c.blocks) = n
    BY <1>5, <1>6, <2>1
  <2> QED BY <1>5, <1>6, <2>2 DEF KindAt
<1> QED BY <1>9, <1>10, <1>11, <1>12 DEF Derived, c

\* The widths that are multiplied without a check, and with one.
LEMMA WidthsFit ==
  ASSUME LayoutWordsAssumption, LoadingAssumption, NEW c, Derived(c)
  PROVE  /\ c.heads * c.headDim * 2 \in 0..WordMax
         /\ c.kvHeads * c.headDim \in 0..WordMax
         /\ c.valueHeads * c.linearDim \in 0..WordMax
         /\ c.keyHeads * c.linearDim \in 0..WordMax
         /\ c.heads * c.headDim \in 0..WordMax
         /\ 2 * (c.keyHeads * c.linearDim) \in 0..WordMax
         /\ 2 * c.keyHeads * c.linearDim = 2 * (c.keyHeads * c.linearDim)
         /\ 2 * (c.keyHeads * c.linearDim) + c.valueHeads * c.linearDim \in 0..WordMax
<1>1. /\ c.heads \in 1..HalfMax /\ c.headDim \in 1..HalfMax /\ c.kvHeads \in 1..HalfMax
      /\ c.valueHeads \in 1..HalfMax /\ c.linearDim \in 1..HalfMax
      /\ c.keyHeads \in 1..HalfMax /\ c.hidden \in 1..HalfMax
  BY DEF Derived, Positive
<1>2. HalfMax \in Nat /\ WordMax \in Nat /\ HalfMax <= WordMax
  BY DEF LayoutWordsAssumption
<1>3. HalfMax * HalfMax <= WordMax /\ 3 * HalfMax <= WordMax
  BY WordsAreWide
<1>4. /\ c.heads * c.headDim = c.hidden /\ c.valueHeads * c.linearDim <= HalfMax
      /\ c.keyHeads <= c.valueHeads
  BY DEF Derived
<1>5. c.kvHeads * c.headDim \in 0..WordMax
  <2>1. c.kvHeads * c.headDim <= HalfMax * c.headDim
    BY <1>1, <1>2, ProductGrows
  <2>2. HalfMax * c.headDim <= HalfMax * HalfMax
    BY <1>1, <1>2, ProductGrows
  <2>3. /\ c.kvHeads * c.headDim \in Nat /\ HalfMax * c.headDim \in Nat
        /\ HalfMax * HalfMax \in Nat
    BY <1>1, <1>2, SMT
  <2> QED BY <1>2, <1>3, <2>1, <2>2, <2>3
<1> DEFINE k == c.keyHeads * c.linearDim
           v == c.valueHeads * c.linearDim
<1>6. k \in Nat /\ v \in Nat /\ k <= v
  BY <1>1, <1>4, ProductGrows
<1>7. 2 * c.keyHeads * c.linearDim = 2 * k
  <2>1. \A x, y \in Nat : 2 * x * y = 2 * (x * y)
    BY SMT
  <2> QED BY <1>1, <2>1
<1>8. v <= HalfMax
  BY <1>4
<1> HIDE DEF k, v
<1>9. k \in 0..WordMax /\ v \in 0..WordMax /\ 2 * k \in 0..WordMax /\ 2 * k + v \in 0..WordMax
  BY <1>2, <1>3, <1>6, <1>8
<1>10. c.hidden * 2 \in 0..WordMax /\ c.hidden \in 0..WordMax
  BY <1>1, <1>2, <1>3
<1> QED BY <1>4, <1>5, <1>7, <1>9, <1>10 DEF k, v

\* Manifest and executor agree on the shape of every tensor.
LEMMA ShapesAgree ==
  ASSUME LayoutWordsAssumption, LoadingAssumption, NEW c, Derived(c), NEW t \in Tensors(c)
  PROVE  ManifestDims(c, t) = ReadAs(c, t)
<1> DEFINE q == c.heads * c.headDim
           kv == c.kvHeads * c.headDim
           k == c.keyHeads * c.linearDim
           v == c.valueHeads * c.linearDim
<1>1. /\ q * 2 \in 0..WordMax /\ q \in 0..WordMax /\ kv \in 0..WordMax /\ v \in 0..WordMax
      /\ k \in 0..WordMax /\ 2 * k \in 0..WordMax /\ 2 * k + v \in 0..WordMax
  BY WidthsFit
<1>2. /\ c.keyHeads \in 0..WordMax /\ c.linearDim \in 0..WordMax
      /\ c.valueHeads \in 0..WordMax /\ 2 \in 0..WordMax
  <2>1. /\ c.keyHeads \in 1..HalfMax /\ c.linearDim \in 1..HalfMax
        /\ c.valueHeads \in 1..HalfMax
    BY DEF Derived, Positive
  <2> QED BY <2>1 DEF LayoutWordsAssumption
<1>3. Times(c.keyHeads, c.linearDim) = k /\ Times(c.valueHeads, c.linearDim) = v
  BY <1>1, <1>2, ExactWords
<1> HIDE DEF q, kv, k, v
<1>4. Times(2, k) = 2 * k /\ Plus(2 * k, v) = 2 * k + v
  BY <1>1, <1>2, ExactWords
<1>5. k * 2 = 2 * k
  BY <1>1, SMT
<1>6. /\ Wrap(q) = q /\ Wrap(q * 2) = q * 2 /\ Wrap(kv) = kv /\ Wrap(v) = v /\ Wrap(k) = k
      /\ Wrap(k * 2) = 2 * k /\ Wrap(2 * k + v) = 2 * k + v
  BY <1>1, <1>5, ExactWords
<1> DEFINE qkv == Plus(Times(2, Times(c.keyHeads, c.linearDim)), Times(c.valueHeads, c.linearDim))
<1>7. /\ QueryRows(c) = q * 2 /\ Wrap(c.heads * c.headDim) = q
      /\ Wrap(c.kvHeads * c.headDim) = kv /\ Wrap(c.valueHeads * c.linearDim) = v
      /\ Wrap(Wrap(Wrap(c.keyHeads * c.linearDim) * 2) + v) = qkv
  BY <1>3, <1>4, <1>6 DEF QueryRows, q, kv, k, v
<1> HIDE DEF qkv
<1>8. ASSUME NEW x \in ModelTensors, t = <<0, x>> PROVE ManifestDims(c, t) = ReadAs(c, t)
  <2>1. x \in {"token_embedding", "output_norm", "output"} /\ t[1] = 0 /\ t[2] = x
    BY <1>8 DEF ModelTensors
  <2>2. CASE x = "token_embedding"
    BY <2>1, <2>2 DEF ManifestDims, ReadAs
  <2>3. CASE x = "output_norm"
    BY <1>8, <2>1, <2>3 DEF ManifestDims, ReadAs
  <2>4. CASE x = "output"
    BY <1>8, <2>1, <2>4 DEF ManifestDims, ReadAs
  <2> QED BY <2>1, <2>2, <2>3, <2>4
<1>9. ASSUME NEW b \in DOMAIN c.blocks, NEW x \in TensorsOf(c.blocks[b].kind), t = <<b, x>>
      PROVE  ManifestDims(c, t) = ReadAs(c, t)
  <2>1. t[1] = b /\ t[2] = x /\ b # 0
    BY <1>9 DEF Derived
  <2>2. CASE x \in CommonTensors
    BY <2>1, <2>2 DEF CommonTensors, ManifestDims, ReadAs
  <2>3. CASE x \in {"query", "key", "value", "query_norm", "key_norm"}
    BY <1>7, <2>1, <2>3 DEF ManifestDims, ReadAs, q, kv
  <2>4. CASE x \in {"qkv", "gate", "convolution"}
    BY <1>7, <2>1, <2>4 DEF ManifestDims, ReadAs, qkv, v
  <2>5. CASE x \in {"time_step_bias", "recurrent_a", "beta", "alpha", "output_norm"}
    BY <2>1, <2>5 DEF ManifestDims, ReadAs
  <2>6. CASE x = "output"
    BY <1>7, <2>1, <2>6 DEF ManifestDims, ReadAs, q, v
  <2> QED BY <2>2, <2>3, <2>4, <2>5, <2>6 DEF TensorsOf, FullTensors, LinearTensors
<1> QED BY <1>8, <1>9 DEF Tensors

\* The executor takes what was derived, but for the reasons it has of its own.
LEMMA ExecutorTakesDerived ==
  ASSUME LayoutWordsAssumption, LoadingAssumption, NEW c, Derived(c),
         NEW context \in 1..c.contextLength,
         c.valueHeads * c.linearDim = c.hidden,
         \A f \in SizeFields : Created(c, context)[f] # NoWord,
         TotalBytes(Created(c, context)) # NoWord
  PROVE  Creatable(c, context) /\ ConfigServes(c, context)
<1>1. \A f \in Positive : c[f] # 0
  BY DEF Derived
<1>2. /\ \A b \in DOMAIN c.blocks : c.blocks[b].index = b - 1
      /\ Len(c.blocks) \in 1..HalfMax /\ DOMAIN c.blocks = 1..Len(c.blocks)
  BY DEF Derived
<1>3. Creatable(c, context)
  <2>1. context # 0
    OBVIOUS
  <2>2. \A f \in {"convWidth", "valueHeads", "keyHeads", "linearDim", "kvHeads", "headDim"} :
          c[f] # 0
    BY <1>1 DEF Positive
  <2> QED BY <1>2, <2>1, <2>2 DEF Creatable
<1>4. /\ Times(c.heads, c.headDim) = c.hidden
      /\ Times(c.valueHeads, c.linearDim) = c.hidden
  <2>1. /\ c.heads \in 1..HalfMax /\ c.headDim \in 1..HalfMax
        /\ c.valueHeads \in 1..HalfMax /\ c.linearDim \in 1..HalfMax
        /\ c.heads * c.headDim = c.hidden
    BY DEF Derived, Positive
  <2>2. /\ c.heads \in 0..WordMax /\ c.headDim \in 0..WordMax
        /\ c.valueHeads \in 0..WordMax /\ c.linearDim \in 0..WordMax
    BY <2>1 DEF LayoutWordsAssumption
  <2>3. c.heads * c.headDim \in 0..WordMax /\ c.valueHeads * c.linearDim \in 0..WordMax
    BY WidthsFit
  <2> QED BY <2>1, <2>2, <2>3, ExactWords
<1>5. c.blocks # <<>>
  <2>1. Len(<<>>) = 0
    OBVIOUS
  <2> QED BY <1>2, <2>1
<1>6. /\ c.rotary \in 1..c.headDim /\ c.rotary % 2 = 0
      /\ c.heads % c.kvHeads = 0 /\ c.valueHeads % c.keyHeads = 0
  BY DEF Derived
<1>7. ConfigServes(c, context)
  BY <1>1, <1>2, <1>4, <1>5, <1>6 DEF ConfigServes, Positive
<1> QED BY <1>3, <1>7

\* Types that validate_weight_dtypes lets through are those the kernels are told.
LEMMA TypesAgree ==
  ASSUME Derived(config), DOMAIN catalog = Tensors(config), TypesServe(config),
         NEW t \in Tensors(config)
  PROVE  catalog[t].type = ToldType(config, t)
<1>1. catalog[t].type = PrimaryType \/ (t[2] \in Auxiliary /\ catalog[t].type = "f32")
  BY DEF TypesServe
<1>2. CASE t[2] \notin Auxiliary
  BY <1>1, <1>2 DEF ToldType
<1>3. CASE t[2] \in Auxiliary /\ ~(t[1] # 0 /\ t[2] \in Auxiliary \cap LinearTensors)
  BY <1>3 DEF ToldType
<1>4. CASE t[1] # 0 /\ t[2] \in Auxiliary \cap LinearTensors
  <2>1. PICK b \in DOMAIN config.blocks :
          t[1] = b /\ t[2] \in TensorsOf(config.blocks[b].kind)
    BY <1>4 DEF Tensors
  <2>2. t[2] \in {"convolution", "time_step_bias", "recurrent_a", "output_norm"}
    BY <1>4 DEF Auxiliary, LinearTensors
  <2>3. config.blocks[b].kind = "linear"
    BY <2>1, <2>2 DEF Derived, TensorsOf, CommonTensors, FullTensors
  <2>4. b \in BlocksOf(config, "linear")
    BY <2>1, <2>3 DEF BlocksOf
  <2>5. t = <<b, t[2]>>
    BY <1>4, <2>1 DEF Tensors
  <2>6. catalog[t].type = catalog[<<b, "convolution">>].type
    BY <2>2, <2>4, <2>5 DEF TypesServe
  <2> QED BY <1>4, <2>1, <2>6 DEF ToldType
<1> QED BY <1>2, <1>3, <1>4

-----------------------------------------------------------------------------
(* Model loading: the invariant *)

Before == {"closed", "opened", "inspected"}
LoadedStages == {"manifest", "model", "weights", "unserved", "session"}

LoadInv ==
  /\ stage \in Before \cup {"refused", "metadata", "config"} \cup LoadedStages
  /\ meta \in Metadata
  /\ stage \in Before => ~mapped
  /\ stage = "refused" => descriptor # "open" /\ ~mapped
  /\ stage \in {"metadata", "config"} \cup LoadedStages => descriptor = "closed" /\ mapped
  /\ stage \in {"config"} \cup LoadedStages => Derived(config)
  /\ stage \in LoadedStages =>
       /\ DOMAIN catalog = Tensors(config)
       /\ \A t \in Tensors(config) : catalog[t].dims = ManifestDims(config, t)
  /\ stage = "session" => TypesServe(config)
  /\ stage = "unserved" =>
       /\ maxContext \in Nat
       /\ ~(/\ maxContext <= config.contextLength
            /\ Creatable(config, maxContext) /\ ConfigServes(config, maxContext)
            /\ TypesServe(config))

LEMMA RefuseKeeps ==
  ASSUME LoadInv, descriptor = "closed", Refuse
  PROVE  LoadInv'
BY DEF LoadInv, Refuse, Before, LoadedStages

LEMMA LoadStep ==
  ASSUME LayoutWordsAssumption, LoadingAssumption, LoadInv, [LoadNext]_loadVars
  PROVE  LoadInv'
<1>1. CASE OpenFile
  BY <1>1 DEF OpenFile, LoadInv, Before, LoadedStages
<1>2. CASE InspectFile
  BY <1>2 DEF InspectFile, LoadInv, Before, LoadedStages
<1>3. CASE MapFile
  BY <1>3 DEF MapFile, LoadInv, Before, LoadedStages
<1>4. CASE Derive
  <2>1. descriptor = "closed" /\ mapped /\ meta \in Metadata
    BY <1>4 DEF Derive, LoadInv
  <2>2. CASE Derivable(meta)
    <3>1. Derived(config')
      BY <1>4, <2>1, <2>2, DerivedIsSound DEF Derive
    <3>2. stage' = "config" /\ UNCHANGED <<descriptor, mapped, meta, catalog, maxContext>>
      BY <1>4, <2>2 DEF Derive
    <3> QED BY <2>1, <3>1, <3>2 DEF LoadInv, Before, LoadedStages
  <2>3. CASE ~Derivable(meta)
    BY <1>4, <2>1, <2>3, RefuseKeeps DEF Derive
  <2> QED BY <2>2, <2>3
<1>5. CASE ValidateManifest
  <2>1. descriptor = "closed" /\ mapped /\ Derived(config)
    BY <1>5 DEF ValidateManifest, LoadInv, LoadedStages
  <2>2. CASE Refuse
    BY <2>1, <2>2, RefuseKeeps
  <2>3. CASE ~Refuse
    <3>1. PICK matrices \in Type, vectors \in Type, odd \in Type, one \in Tensors(config) :
            catalog' = [t \in Tensors(config) |->
               [dims |-> ManifestDims(config, t),
                type |-> IF t = one THEN odd
                         ELSE IF t[2] \in Auxiliary THEN vectors ELSE matrices]]
      BY <1>5, <2>3 DEF ValidateManifest
    <3>2. stage' = "manifest" /\ UNCHANGED <<descriptor, mapped, meta, config, maxContext>>
      BY <1>5, <2>3 DEF ValidateManifest
    <3>3. /\ DOMAIN catalog' = Tensors(config)
          /\ \A t \in Tensors(config) : catalog'[t].dims = ManifestDims(config, t)
      BY <3>1
    <3> QED BY <2>1, <3>2, <3>3 DEF LoadInv, Before, LoadedStages
  <2> QED BY <2>2, <2>3
<1>6. CASE SerializeTokenizer \/ Upload
  <2>1. descriptor = "closed"
    BY <1>6 DEF SerializeTokenizer, Upload, LoadInv, LoadedStages
  <2>2. CASE Refuse
    BY <2>1, <2>2, RefuseKeeps
  <2>3. CASE ~Refuse
    <3>1. /\ stage \in {"manifest", "model"} /\ stage' \in {"model", "weights"}
          /\ UNCHANGED <<descriptor, mapped, meta, config, catalog, maxContext>>
      BY <1>6, <2>3 DEF SerializeTokenizer, Upload
    <3> QED BY <3>1 DEF LoadInv, Before, LoadedStages
  <2> QED BY <2>2, <2>3
<1>7. CASE CreateSession
  <2>1. PICK context \in ContextSize :
          /\ maxContext' = context
          /\ stage' = IF /\ context <= config.contextLength
                         /\ Creatable(config, context)
                         /\ ConfigServes(config, context)
                         /\ TypesServe(config)
                      THEN "session" ELSE "unserved"
    BY <1>7 DEF CreateSession
  <2>2. stage = "weights" /\ UNCHANGED <<descriptor, mapped, meta, config, catalog>>
    BY <1>7 DEF CreateSession
  <2>3. context \in Nat
    BY DEF LoadingAssumption, LayoutWordsAssumption
  <2>4. TypesServe(config)' = TypesServe(config)
    BY <2>2 DEF TypesServe, PrimaryType
  <2>5. CASE stage' = "session"
    <3>1. TypesServe(config)
      BY <2>1, <2>5
    <3> QED BY <2>2, <2>4, <2>5, <3>1 DEF LoadInv, Before, LoadedStages
  <2>6. CASE stage' = "unserved"
    <3>1. ~(/\ context <= config.contextLength /\ Creatable(config, context)
            /\ ConfigServes(config, context) /\ TypesServe(config))
      BY <2>1, <2>6
    <3> QED BY <2>1, <2>2, <2>3, <2>4, <2>6, <3>1 DEF LoadInv, Before, LoadedStages
  <2> QED BY <2>1, <2>5, <2>6
<1>8. CASE UNCHANGED loadVars
  BY <1>8 DEF loadVars, LoadInv, TypesServe, PrimaryType
<1> QED BY <1>1, <1>2, <1>3, <1>4, <1>5, <1>6, <1>7, <1>8 DEF LoadNext

LEMMA LoadInvServes ==
  ASSUME LayoutWordsAssumption, LoadingAssumption, LoadInv
  PROVE  LoadedModelsFit
<1>1. stage \in LoadedStages => Derived(config) /\ DOMAIN catalog = Tensors(config)
  BY DEF LoadInv
<1>2. ShapesFitKernels
  <2> SUFFICES ASSUME stage = "session", NEW t \in DOMAIN catalog
               PROVE  catalog[t].dims = ReadAs(config, t)
    BY DEF ShapesFitKernels
  <2>1. Derived(config) /\ t \in Tensors(config) /\ catalog[t].dims = ManifestDims(config, t)
    BY <1>1 DEF LoadInv, LoadedStages
  <2> QED BY <2>1, ShapesAgree
<1>3. TypesFitKernels
  <2> SUFFICES ASSUME stage = "session", NEW t \in DOMAIN catalog
               PROVE  catalog[t].type = ToldType(config, t)
    BY DEF TypesFitKernels
  <2> QED BY <1>1, TypesAgree DEF LoadInv, LoadedStages
<1>4. WidthsAreTrue
  <2> SUFFICES ASSUME stage \in LoadedStages
               PROVE  /\ config.heads * config.headDim * 2 <= WordMax
                      /\ config.kvHeads * config.headDim <= WordMax
                      /\ 2 * config.keyHeads * config.linearDim
                           + config.valueHeads * config.linearDim <= WordMax
    BY DEF WidthsAreTrue, Loaded, LoadedStages
  <2> QED BY <1>1, WidthsFit
<1>5. LoaderCoversExecutor
  <2> SUFFICES ASSUME stage = "unserved", maxContext \in 1..config.contextLength,
                      config.valueHeads * config.linearDim = config.hidden, TypesServe(config),
                      \A f \in SizeFields : Created(config, maxContext)[f] # NoWord,
                      TotalBytes(Created(config, maxContext)) # NoWord
               PROVE  FALSE
    BY DEF LoaderCoversExecutor
  <2>1. Derived(config)
    BY <1>1 DEF LoadedStages
  <2>2. Creatable(config, maxContext) /\ ConfigServes(config, maxContext)
    BY <2>1, ExecutorTakesDerived
  <2>3. maxContext <= config.contextLength
    OBVIOUS
  <2> QED BY <2>2, <2>3 DEF LoadInv
<1>6. NothingStaysOpen
  BY DEF NothingStaysOpen, LoadInv, Loaded, LoadedStages
<1> QED BY <1>2, <1>3, <1>4, <1>5, <1>6 DEF LoadedModelsFit

\* For every word width and whatever a file says: a model that loads has every weight in
\* the shape and the type that the kernels of a session read (qwen35_manifest.cpp and
\* create_plans list the tensors each on their own), no width of it has wrapped, a
\* session is refused for three reasons only, and no file is left open.
THEOREM LoadingServes ==
  ASSUME LayoutWordsAssumption, LoadingAssumption PROVE LoadSpec => []LoadedModelsFit
<1>1. LoadInit => LoadInv
  BY DEF LoadInit, LoadInv, Before, LoadedStages
<1>2. LoadInv /\ [LoadNext]_loadVars => LoadInv'
  BY LoadStep
<1>3. LoadInv => LoadedModelsFit
  BY LoadInvServes
<1> QED
  BY <1>1, <1>2, <1>3, PTL DEF LoadSpec
===============================================================================
