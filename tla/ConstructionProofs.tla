-------------------------- MODULE ConstructionProofs --------------------------
(***************************************************************************)
(* What is made for a session, and what holds of it for any file and any   *)
(* model.  The catalog: reading stays inside the file, and the tensors of  *)
(* an accepted catalog lie in the file and share no byte.  It is accepted  *)
(* for the ranges it was checked for, so the invariant carries the outcome *)
(* of the checks.  That neighbours which are apart in the sorted order     *)
(* leave all pairs apart needs no induction: a span ends before its        *)
(* neighbour begins, and no later one begins before that neighbour.  That  *)
(* no tensor is empty is an induction over its dimensions: a product that  *)
(* still is a word is that of words above zero.                            *)
(*                                                                         *)
(* The matmul plans: a matmul that has a plan has one of its own           *)
(* configuration, whoever it was made for; while candidates are measured   *)
(* the best is the first of the fastest so far; whatever is held belongs   *)
(* to a plan there is or to the one being made, so it is found again.      *)
(*                                                                         *)
(* The delta schedules: a trial's steps hand each other runs of one bucket *)
(* from a cleared state, each of its own schedule, so what is compared     *)
(* says something of the candidate; a diagnostic names another schedule    *)
(* only if it passed.                                                      *)
(***************************************************************************)
EXTENDS GgufReader, MatmulPlans, DeltaTuning, FiniteSetTheorems, BoundedSeqLemmas

Tensor == [name : Name, offset : 0..WordMax, bytes : 0..WordMax]

-----------------------------------------------------------------------------
(* Words *)

LEMMA AddFacts ==
  ASSUME NEW a \in Nat, NEW b \in Nat
  PROVE  /\ Add(a, b) \in Nat
         /\ Add(a, b) # NoWord => Add(a, b) = a + b
         /\ Add(a, b) <= WordMax => Add(a, b) # NoWord
BY WordsAssumption DEF Add, NoWord

LEMMA MultiplyType ==
  ASSUME NEW a \in Nat, NEW b \in Nat
  PROVE  Multiply(a, b) \in Nat
<1>1. a * b \in Nat
  BY SMT
<1> QED
  BY <1>1, WordsAssumption DEF Multiply, NoWord

LEMMA AlignUpFacts ==
  ASSUME NEW n \in Nat, NEW a \in Nat \ {0}, n <= WordMax
  PROVE  AlignUp(n, a) \in Nat /\ n <= AlignUp(n, a)
<1>1. n % a \in 0..(a - 1)
  BY SMT
<1> DEFINE rest == a - (n % a)
<1>2. rest \in Nat
  BY <1>1
<1>3. Add(n, rest) \in Nat /\ n <= Add(n, rest)
  <2> HIDE DEF rest
  <2>1. Add(n, rest) \in Nat /\ (Add(n, rest) # NoWord => Add(n, rest) = n + rest)
    BY <1>2, AddFacts
  <2>2. n <= NoWord
    BY WordsAssumption DEF NoWord
  <2> QED
    BY <1>2, <2>1, <2>2
<1> QED
  BY <1>3 DEF AlignUp

-----------------------------------------------------------------------------
(* The reader *)

\* What is taken is inside the file and under the limit.
LEMMA TakeFacts ==
  ASSUME ReaderInv, NEW bytes \in Nat, NEW storage \in Nat, Take(bytes, storage)
  PROVE  /\ position' \in Nat /\ position' <= size
         /\ charged' \in Nat /\ charged' <= MaxCatalog
<1>1. size \in Nat /\ position \in Nat /\ charged \in Nat /\ position <= size
  BY WordsAssumption DEF ReaderInv, TypeOK
<1>2. position' = position + bytes /\ charged' = charged + storage
  BY DEF Take
<1>3. bytes <= size - position
  BY <1>1 DEF Take, Truncated
<1>4. Add(charged, storage) <= MaxCatalog
  BY <1>1, AddFacts, LimitAssumption DEF Take, OverCharged
<1>5. Add(charged, storage) = charged + storage
  BY <1>1, <1>4, AddFacts, LimitAssumption, WordsAssumption
<1> QED
  BY <1>1, <1>2, <1>3, <1>4, <1>5

\* The catalog that is accepted is the one that was checked.
Checked ==
  phase = "accepted" =>
    /\ \A i \in 1..Len(tensors) : InsideFile(tensors[i])
    /\ \E p \in Orders : Apart(p)

IInv == ReaderInv /\ Checked

LEMMA InitInv == Init => IInv
<1> SUFFICES ASSUME Init PROVE IInv
  OBVIOUS
<1>1. TypeOK
  BY WordsAssumption DEF Init, TypeOK, Phases
<1>2. position <= size /\ charged <= MaxCatalog
  BY WordsAssumption, LimitAssumption DEF Init
<1> QED
  BY <1>1, <1>2 DEF Init, IInv, ReaderInv, Checked

LEMMA RefuseInv ==
  ASSUME IInv, Refuse
  PROVE  IInv'
BY DEF Refuse, IInv, ReaderInv, Checked, TypeOK, Phases

LEMMA HeaderInv ==
  ASSUME IInv, NEW metadata \in Count, NEW count \in Count,
         ReadHeader(metadata, count)
  PROVE  IInv'
<1>1. CASE Refuse
  BY <1>1, RefuseInv
<1>2. CASE Take(24, 0) /\ phase' = "metadata"
           /\ toRead' = [toRead EXCEPT !.metadata = metadata, !.tensors = count]
           /\ UNCHANGED <<size, keys, alignment, tensors, data>>
  <2>1. metadata \in Nat /\ count \in Nat
    BY WordsAssumption
  <2>2. /\ position' \in Nat /\ position' <= size
        /\ charged' \in Nat /\ charged' <= MaxCatalog
    BY <1>2, TakeFacts DEF IInv
  <2>3. toRead' \in [metadata : Nat, elements : Nat, width : Nat, tensors : Nat]
    BY <1>2, <2>1 DEF IInv, ReaderInv, TypeOK
  <2> QED
    BY <1>2, <2>2, <2>3 DEF IInv, ReaderInv, Checked, TypeOK, Phases
<1> QED
  BY <1>1, <1>2 DEF ReadHeader, NotTaken

\* Whatever the kind of the value.
LEMMA EntryInv ==
  ASSUME IInv, NEW key \in ValidKey, NEW bytes \in Nat, NEW storage \in Nat,
         NEW meaning \in 1..HalfMax \cup {NoWord},
         NEW elements \in Nat, NEW width \in Nat,
         Entry(key, bytes, storage, meaning, elements, width)
  PROVE  IInv'
<1> DEFINE all == 8 + TextBytes[key] + 4 + bytes
           charge == Add(TextBytes[key], storage)
<1>0. TextBytes[key] \in Nat
  BY TextAssumption
<1>1. all \in Nat /\ charge \in Nat
  <2> DEFINE text == TextBytes[key]
  <2>1. text \in Nat
    BY <1>0
  <2> HIDE DEF text
  <2>2. 8 + text + 4 + bytes \in Nat
    BY <2>1
  <2>3. Add(text, storage) \in Nat
    BY <2>1, AddFacts
  <2> QED
    BY <2>2, <2>3 DEF text
<1>2. CASE Refuse
  BY <1>2, RefuseInv
<1>3. CASE /\ Take(all, charge)
           /\ keys' = keys \cup {key}
           /\ alignment' = IF key = AlignmentKey THEN meaning ELSE alignment
           /\ toRead' = [toRead EXCEPT !.metadata = @ - 1, !.elements = elements,
                                       !.width = width]
           /\ UNCHANGED <<size, phase, tensors, data>>
           /\ phase = "metadata" /\ toRead.metadata > 0
  <2>1. /\ position' \in Nat /\ position' <= size
        /\ charged' \in Nat /\ charged' <= MaxCatalog
    <3> HIDE DEF all, charge
    <3> QED
      BY <1>1, <1>3, TakeFacts DEF IInv
  <2>2. toRead' \in [metadata : Nat, elements : Nat, width : Nat, tensors : Nat]
    <3>1. toRead \in [metadata : Nat, elements : Nat, width : Nat, tensors : Nat]
      BY DEF IInv, ReaderInv, TypeOK
    <3>2. toRead.metadata - 1 \in Nat
      BY <1>3, <3>1
    <3> QED
      BY <1>3, <3>1, <3>2
  <2>3. keys' \subseteq ValidKey /\ alignment' \in 1..HalfMax \cup {NoWord}
    BY <1>3 DEF IInv, ReaderInv, TypeOK
  <2> QED
    BY <1>3, <2>1, <2>2, <2>3 DEF IInv, ReaderInv, Checked, TypeOK, Phases
<1> QED
  BY <1>2, <1>3 DEF Entry, NotTaken

LEMMA ElementInv ==
  ASSUME IInv, NEW bytes \in Nat, NEW storage \in Nat, Element(bytes, storage)
  PROVE  IInv'
<1>1. CASE Refuse
  BY <1>1, RefuseInv
<1>2. CASE /\ Take(bytes, storage)
           /\ toRead' = [toRead EXCEPT !.elements = @ - 1]
           /\ UNCHANGED <<size, phase, keys, alignment, tensors, data>>
           /\ phase = "metadata" /\ toRead.elements > 0
  <2>1. /\ position' \in Nat /\ position' <= size
        /\ charged' \in Nat /\ charged' <= MaxCatalog
    BY <1>2, TakeFacts DEF IInv
  <2>2. toRead' \in [metadata : Nat, elements : Nat, width : Nat, tensors : Nat]
    <3>1. toRead \in [metadata : Nat, elements : Nat, width : Nat, tensors : Nat]
      BY DEF IInv, ReaderInv, TypeOK
    <3>2. toRead.elements - 1 \in Nat
      BY <1>2, <3>1
    <3> QED
      BY <1>2, <3>1, <3>2
  <2> QED
    BY <1>2, <2>1, <2>2 DEF IInv, ReaderInv, Checked, TypeOK, Phases
<1> QED
  BY <1>1, <1>2 DEF Element, NotTaken

LEMMA MetadataInv ==
  ASSUME IInv, ReadMetadata
  PROVE  IInv'
<1>1. ASSUME NEW key \in ValidKey, NEW width \in Width, ReadScalar(key, width)
      PROVE  IInv'
  BY <1>1, EntryInv DEF ReadScalar, Width
<1>2. ASSUME NEW key \in ValidKey, NEW length \in Count, ReadText(key, length)
      PROVE  IInv'
  <2>1. length \in Nat /\ 8 + length \in Nat
    BY WordsAssumption
  <2> QED
    BY <1>2, <2>1, EntryInv DEF ReadText
<1>3. ASSUME NEW key \in ValidKey, NEW length \in Count, NEW width \in Width \cup {0},
             ReadArray(key, length, width)
      PROVE  IInv'
  <2>0. length \in Nat /\ ElementStorage \in Nat /\ width \in Nat
    BY WordsAssumption, LimitAssumption DEF Width
  <2>1. Multiply(length, ElementStorage) \in Nat
    BY <2>0, MultiplyType
  <2>2. 4 + 8 \in Nat
    OBVIOUS
  <2>3. Entry(key, 4 + 8, Multiply(length, ElementStorage), NoWord, length, width)
    BY <1>3 DEF ReadArray
  <2> QED
    BY <2>0, <2>1, <2>2, <2>3, EntryInv
<1>4. ASSUME NEW value \in Alignment, NEW width \in {4, 8}, ReadAlignment(value, width)
      PROVE  IInv'
  <2> DEFINE meaning == IF UsableAlignment(value) THEN value ELSE NoWord
  <2>1. meaning \in 1..HalfMax \cup {NoWord}
    BY WordsAssumption DEF UsableAlignment
  <2>2. AlignmentKey \in ValidKey
    BY <1>4 DEF ReadAlignment, Entry
  <2>3. Entry(AlignmentKey, width, width, meaning, 0, 0)
    BY <1>4 DEF ReadAlignment
  <2> HIDE DEF meaning
  <2> QED
    BY <2>1, <2>2, <2>3, EntryInv
<1>5. CASE ReadElement
  BY <1>5, ElementInv DEF ReadElement, IInv, ReaderInv, TypeOK
<1>6. ASSUME NEW length \in Count, ReadTextElement(length)
      PROVE  IInv'
  <2>1. length \in Nat /\ 8 + length \in Nat
    BY WordsAssumption
  <2> QED
    BY <1>6, <2>1, ElementInv DEF ReadTextElement
<1>7. CASE BadMetadata
  BY <1>7, RefuseInv DEF BadMetadata
<1> QED
  BY <1>1, <1>2, <1>3, <1>4, <1>5, <1>6, <1>7 DEF ReadMetadata

LEMMA EndMetadataInv ==
  ASSUME IInv, EndMetadata
  PROVE  IInv'
BY DEF EndMetadata, IInv, ReaderInv, Checked, TypeOK, Phases

LEMMA TensorInv ==
  ASSUME IInv, NEW name \in Name, NEW rank \in 1..MaxRank,
         NEW dimensions \in [1..rank -> Dimension], NEW element \in {2, 4},
         NEW offset \in Offset, ReadTensor(name, dimensions, element, offset)
  PROVE  IInv'
<1> DEFINE bytes == 8 + TextBytes[name] + 4 + 8 * rank + 4 + 8
           storage == TextBytes[name] + 8 * rank
           tensor == [name |-> name, offset |-> offset,
                      bytes |-> ByteSize(dimensions, element)]
<1>1. rank \in Nat /\ TextBytes[name] \in Nat
  BY LimitAssumption, TextAssumption
<1>2. Len(dimensions) = rank
  BY <1>1
<1>3. bytes \in Nat /\ storage \in Nat
  BY <1>1, SMTT(30)
<1>4. CASE Refuse
  BY <1>4, RefuseInv
<1>5. CASE /\ ByteSize(dimensions, element) \in Word
           /\ Take(bytes, storage)
           /\ tensors' = Append(tensors, tensor)
           /\ UNCHANGED <<size, phase, toRead, keys, alignment, data>>
           /\ phase = "tensors"
  <2>1. /\ position' \in Nat /\ position' <= size
        /\ charged' \in Nat /\ charged' <= MaxCatalog
    <3> HIDE DEF bytes, storage
    <3> QED
      BY <1>3, <1>5, TakeFacts DEF IInv
  <2>2. tensor \in Tensor
    BY <1>5, WordsAssumption DEF Tensor, Word
  <2>3. tensors' \in Seq(Tensor)
    <3> HIDE DEF tensor
    <3> QED
      BY <1>5, <2>2 DEF IInv, ReaderInv, TypeOK, Tensor
  <2> QED
    BY <1>5, <2>1, <2>3 DEF IInv, ReaderInv, Checked, TypeOK, Phases, Tensor
<1> QED
  BY <1>2, <1>4, <1>5 DEF ReadTensor, NotTaken

LEMMA EndTensorsInv ==
  ASSUME IInv, EndTensors
  PROVE  IInv'
<1>1. /\ position \in Nat /\ position <= WordMax
      /\ alignment \in Nat \ {0}
  BY WordsAssumption DEF EndTensors, IInv, ReaderInv, TypeOK
<1>2. data' \in Nat /\ position <= data'
  BY <1>1, AlignUpFacts DEF EndTensors
<1>3. size \in Nat /\ (phase' = "spans" => data' <= size)
  BY <1>2, WordsAssumption DEF EndTensors, IInv, ReaderInv, TypeOK
<1> QED
  BY <1>2, <1>3 DEF EndTensors, IInv, ReaderInv, Checked, TypeOK, Phases

LEMMA CheckSpansInv ==
  ASSUME IInv, CheckSpans
  PROVE  IInv'
<1>1. ReaderInv'
  BY DEF CheckSpans, IInv, ReaderInv, TypeOK, Phases
<1>2. ASSUME phase' = "accepted"
      PROVE  /\ \A i \in 1..Len(tensors) : InsideFile(tensors[i])
             /\ \E p \in Orders : Apart(p)
  BY <1>2 DEF CheckSpans
<1>3. UNCHANGED <<size, alignment, tensors, data>>
  BY DEF CheckSpans
<1>4. Checked'
  BY <1>2, <1>3 DEF Checked, InsideFile, Orders, Apart, Begin, End
<1> QED
  BY <1>1, <1>4 DEF IInv

LEMMA NextInv == IInv /\ [Next]_vars => IInv'
<1> SUFFICES ASSUME IInv, [Next]_vars PROVE IInv'
  OBVIOUS
<1>1. ASSUME NEW metadata \in Count, NEW count \in Count, ReadHeader(metadata, count)
      PROVE  IInv'
  BY <1>1, HeaderInv
<1>2. CASE BadHeader
  BY <1>2, RefuseInv DEF BadHeader
<1>3. CASE ReadMetadata
  BY <1>3, MetadataInv
<1>4. CASE EndMetadata
  BY <1>4, EndMetadataInv
<1>5. CASE ReadTensors
  <2>1. CASE BadTensor
    BY <2>1, RefuseInv DEF BadTensor
  <2>2. CASE ~BadTensor
    <3>1. PICK name \in Name, element \in {2, 4}, offset \in Offset, rank \in 1..MaxRank :
            \E dimensions \in [1..rank -> Dimension] :
              ReadTensor(name, dimensions, element, offset)
      BY <1>5, <2>2 DEF ReadTensors
    <3> QED
      BY <3>1, TensorInv
  <2> QED
    BY <2>1, <2>2
<1>6. CASE EndTensors
  BY <1>6, EndTensorsInv
<1>7. CASE CheckSpans
  BY <1>7, CheckSpansInv
<1>8. CASE UNCHANGED vars
  BY <1>8 DEF vars, IInv, ReaderInv, TypeOK, Checked, InsideFile, Orders, Apart,
              Begin, End
<1> QED
  BY <1>1, <1>2, <1>3, <1>4, <1>5, <1>6, <1>7, <1>8 DEF Next

-----------------------------------------------------------------------------
(* What was accepted *)

\* Where a tensor inside the file begins and ends, in numbers.
LEMMA SpanFacts ==
  ASSUME ReaderInv, NEW i \in 1..Len(tensors), InsideFile(tensors[i])
  PROVE  /\ tensors[i].offset \in Nat /\ tensors[i].bytes \in Nat
         /\ Begin(tensors[i]) = data + tensors[i].offset
         /\ End(tensors[i]) = data + tensors[i].offset + tensors[i].bytes
         /\ End(tensors[i]) <= size
<1>1. tensors[i] \in Tensor
  <2>1. tensors \in Seq(Tensor)
    BY DEF ReaderInv, TypeOK, Tensor
  <2> QED
    BY <2>1
<1>2. tensors[i].offset \in Nat /\ tensors[i].bytes \in Nat /\ data \in Nat
  BY <1>1, WordsAssumption, SMTT(30) DEF Tensor, ReaderInv, TypeOK
<1>3. Begin(tensors[i]) # NoWord
  BY DEF InsideFile, End, Add
<1>4. Begin(tensors[i]) = data + tensors[i].offset
  BY <1>2, <1>3, AddFacts DEF Begin
<1>5. End(tensors[i]) = Begin(tensors[i]) + tensors[i].bytes
  <2>1. Begin(tensors[i]) \in Nat
    BY <1>2, AddFacts DEF Begin
  <2> QED
    BY <1>2, <2>1, AddFacts DEF End, InsideFile
<1> QED
  BY <1>2, <1>4, <1>5 DEF InsideFile

LEMMA SpanInNat ==
  ASSUME ReaderInv, NEW k \in 1..Len(tensors), InsideFile(tensors[k])
  PROVE  Begin(tensors[k]) \in Nat /\ End(tensors[k]) \in Nat
<1>1. /\ tensors[k].offset \in Nat /\ tensors[k].bytes \in Nat
      /\ Begin(tensors[k]) = data + tensors[k].offset
      /\ End(tensors[k]) = data + tensors[k].offset + tensors[k].bytes
  BY SpanFacts
<1>2. data \in Nat
  BY DEF ReaderInv, TypeOK
<1> QED
  BY <1>1, <1>2

LEMMA InFile == IInv => TensorsInFile
<1> SUFFICES ASSUME IInv, phase = "accepted", NEW i \in 1..Len(tensors)
             PROVE  /\ position <= data + tensors[i].offset
                    /\ data + tensors[i].offset + tensors[i].bytes <= size
                    /\ tensors[i].offset % alignment = 0
  BY DEF TensorsInFile
<1>1. InsideFile(tensors[i]) /\ ReaderInv
  BY DEF IInv, Checked
<1>2. position \in Nat /\ data \in Nat /\ position <= data
  BY DEF IInv, ReaderInv, TypeOK
<1> QED
  BY <1>1, <1>2, SpanFacts DEF InsideFile

\* Of two tensors the one that comes first in the sorted order ends first.
LEMMA OrderedApart ==
  ASSUME IInv, phase = "accepted", NEW p \in Orders, Apart(p),
         NEW a \in 1..Len(tensors), NEW b \in 1..Len(tensors), a < b
  PROVE  End(tensors[p[a]]) <= Begin(tensors[p[b]])
<1> DEFINE n == Len(tensors)
           next == p[a + 1]
<1>1. n \in Nat
  BY DEF IInv, ReaderInv, TypeOK
<1>2. a + 1 \in 2..n /\ a + 1 \in 1..n /\ (a + 1) - 1 = a
  BY <1>1
<1>3. p \in [1..n -> 1..n]
  BY DEF Orders
<1>4. p[a] \in 1..n /\ p[b] \in 1..n /\ next \in 1..n
  BY <1>2, <1>3
<1>5. /\ InsideFile(tensors[p[a]]) /\ InsideFile(tensors[p[b]])
      /\ InsideFile(tensors[next])
  BY <1>4 DEF IInv, Checked
<1>6. Begin(tensors[next]) >= End(tensors[p[a]])
  BY <1>2 DEF Apart
<1>7. a + 1 = b \/ Begin(tensors[next]) <= Begin(tensors[p[b]])
  BY <1>1, <1>2 DEF Orders
<1>8. data \in Nat /\ ReaderInv
  BY DEF IInv, ReaderInv, TypeOK
<1>9. ASSUME NEW k \in 1..Len(tensors), InsideFile(tensors[k])
      PROVE  Begin(tensors[k]) \in Nat /\ End(tensors[k]) \in Nat
  BY <1>8, <1>9, SpanInNat
<1>10. /\ End(tensors[p[a]]) \in Nat /\ Begin(tensors[next]) \in Nat
       /\ Begin(tensors[p[b]]) \in Nat
  BY <1>4, <1>5, <1>9
<1> QED
  BY <1>6, <1>7, <1>10

\* What is ordered behind the same start is ordered.
LEMMA SameBase ==
  ASSUME NEW base \in Nat, NEW a \in Nat, NEW b \in Nat, NEW c \in Nat,
         base + a + b <= base + c
  PROVE  a + b <= c
OBVIOUS

LEMMA Disjoint == IInv => TensorsDisjoint
<1> SUFFICES ASSUME IInv, phase = "accepted",
                    NEW i \in 1..Len(tensors), NEW j \in 1..Len(tensors), i # j
             PROVE  \/ tensors[i].offset + tensors[i].bytes <= tensors[j].offset
                    \/ tensors[j].offset + tensors[j].bytes <= tensors[i].offset
  BY DEF TensorsDisjoint
<1>1. PICK p \in Orders : Apart(p)
  BY DEF IInv, Checked
<1>2. PICK a \in 1..Len(tensors) : p[a] = i
  BY DEF Orders
<1>3. PICK b \in 1..Len(tensors) : p[b] = j
  BY DEF Orders
<1>4. a < b \/ b < a
  BY <1>2, <1>3
<1>5. \/ End(tensors[i]) <= Begin(tensors[j])
      \/ End(tensors[j]) <= Begin(tensors[i])
  BY <1>1, <1>2, <1>3, <1>4, OrderedApart
<1>6. InsideFile(tensors[i]) /\ InsideFile(tensors[j]) /\ ReaderInv
  BY DEF IInv, Checked
<1>7. data \in Nat
  BY DEF IInv, ReaderInv, TypeOK
<1>8. /\ tensors[i].offset \in Nat /\ tensors[i].bytes \in Nat
      /\ Begin(tensors[i]) = data + tensors[i].offset
      /\ End(tensors[i]) = data + tensors[i].offset + tensors[i].bytes
  BY <1>6, SpanFacts
<1>9. /\ tensors[j].offset \in Nat /\ tensors[j].bytes \in Nat
      /\ Begin(tensors[j]) = data + tensors[j].offset
      /\ End(tensors[j]) = data + tensors[j].offset + tensors[j].bytes
  BY <1>6, SpanFacts
<1>10. CASE End(tensors[i]) <= Begin(tensors[j])
  BY <1>7, <1>8, <1>9, <1>10, SameBase
<1>11. CASE End(tensors[j]) <= Begin(tensors[i])
  BY <1>7, <1>8, <1>9, <1>11, SameBase
<1> QED
  BY <1>5, <1>10, <1>11

LEMMA Invariant == Spec => []IInv
BY InitInv, NextInv, PTL DEF Spec

\* The reader stays in the file and under its limit, and never divides by an
\* alignment that is none: read_catalog on any bytes.
THEOREM ReaderStaysInFile == Spec => []ReaderInv
<1>1. IInv => ReaderInv
  BY DEF IInv
<1> QED
  BY <1>1, Invariant, PTL

\* Every tensor of a catalog that read_catalog returns lies in the file.
THEOREM AcceptedInFile == Spec => []TensorsInFile
BY Invariant, InFile, PTL

\* No two tensors of a catalog that read_catalog returns overlap, however many
\* there are and however they are ordered in the file.
THEOREM AcceptedDisjoint == Spec => []TensorsDisjoint
BY Invariant, Disjoint, PTL

-----------------------------------------------------------------------------
(* No tensor is empty *)

\* The product of dimensions above zero is above zero, or no word.
LEMMA ElementsAreSome ==
  ASSUME NEW rank \in Nat, NEW dimensions \in [1..rank -> Nat \ {0}]
  PROVE  Elements(dimensions) \in Nat \ {0}
<1> DEFINE product == CHOOSE f : f = [k \in 0..rank |->
                        IF k = 0 THEN 1 ELSE Multiply(f[k - 1], dimensions[k])]
           Some == Nat \ {0}
           P == {k \in 0..rank : product[k] \in Some}
<1>1. ASSUME NEW n \in Some, NEW d \in Some
      PROVE  Multiply(n, d) \in Some
  <2>1. n * d \in Some
    BY SMT
  <2> QED
    BY <2>1, WordsAssumption DEF Multiply, NoWord
<1>2. Len(dimensions) = rank
  OBVIOUS
<1>3. Elements(dimensions) = product[rank]
  BY <1>2 DEF Elements
<1>4. product = [k \in 0..rank |->
                   IF k = 0 THEN 1 ELSE Multiply(product[k - 1], dimensions[k])]
  <2> DEFINE g == [k \in 1..rank |-> [n \in Some |-> Multiply(n, dimensions[k])]]
             one == 1
  <2>1. g \in [1..rank -> [Some -> Some]] /\ one \in Some
    <3>1. ASSUME NEW k \in 1..rank, NEW n \in Some
          PROVE  Multiply(n, dimensions[k]) \in Some
      <4>1. dimensions[k] \in Some
        OBVIOUS
      <4> QED BY <1>1, <4>1
    <3>2. one \in Some
      OBVIOUS
    <3> HIDE DEF Some
    <3> QED BY <3>1, <3>2
  <2>2. PICK f \in [0..rank -> Some] : TakesSteps(f, rank, one, g)
    <3> HIDE DEF Some, g, one
    <3> QED BY <2>1, BoundedRecursion
  <2>3. ASSUME NEW k \in 0..rank
        PROVE  f[k] = IF k = 0 THEN 1 ELSE Multiply(f[k - 1], dimensions[k])
    <3>1. k # 0 => k \in 1..rank /\ k - 1 \in 0..rank
      OBVIOUS
    <3>2. k # 0 => f[k - 1] \in Some
      BY <3>1
    <3>3. k # 0 => g[k][f[k - 1]] = Multiply(f[k - 1], dimensions[k])
      BY <3>1, <3>2
    <3> QED BY <2>2, <3>1, <3>3 DEF TakesSteps
  <2>4. f = [k \in 0..rank |-> IF k = 0 THEN 1 ELSE Multiply(f[k - 1], dimensions[k])]
    <3>1. f = [k \in 0..rank |-> f[k]]
      OBVIOUS
    <3> QED BY <2>3, <3>1, Zenon
  <2> QED BY <2>4, Zenon
<1> HIDE DEF product
<1>5. 0 \in P
  BY <1>4
<1>6. ASSUME NEW k \in 1..rank, k - 1 \in P PROVE k \in P
  <2>1. product[k] = Multiply(product[k - 1], dimensions[k])
    BY <1>4
  <2>2. product[k - 1] \in Some /\ dimensions[k] \in Some
    BY <1>6
  <2>3. product[k] \in Some
    <3> HIDE DEF Some, P
    <3> QED BY <1>1, <2>1, <2>2
  <2> QED BY <2>3
<1>7. rank \in P
  <2> HIDE DEF P
  <2>1. \A k \in 0..rank : k \in P
    BY <1>5, <1>6, BoundedInduction
  <2> QED BY <2>1
<1> QED BY <1>3, <1>7

LEMMA BytesAreSome ==
  ASSUME NEW rank \in 1..MaxRank, NEW dimensions \in [1..rank -> Dimension],
         NEW element \in {2, 4}, ByteSize(dimensions, element) \in Word
  PROVE  ByteSize(dimensions, element) > 0
<1>1. 0 \notin Range(dimensions)
  BY WordsAssumption DEF ByteSize, Word, NoWord
<1>2. rank \in Nat
  BY LimitAssumption
<1>3. dimensions \in [1..rank -> Nat \ {0}]
  <2>1. ASSUME NEW i \in 1..rank PROVE dimensions[i] \in Nat \ {0}
    <3>1. dimensions[i] \in Range(dimensions)
      BY Zenon DEF Range
    <3>2. dimensions[i] # 0
      BY <1>1, <3>1, Zenon
    <3>3. dimensions[i] \in Dimension
      OBVIOUS
    <3>4. dimensions[i] \in 0..WordMax
      BY ONLY <3>3, WordsAssumption, Zenon
    <3>5. WordMax \in Nat
      BY WordsAssumption
    <3> QED BY ONLY <3>2, <3>4, <3>5
  <2> QED BY <2>1
<1>4. Elements(dimensions) \in Nat \ {0}
  BY <1>2, <1>3, ElementsAreSome
<1>5. ByteSize(dimensions, element) = Multiply(Elements(dimensions), element)
  BY <1>1 DEF ByteSize
<1>6. Elements(dimensions) * element > 0
  BY <1>4
<1> QED
  BY <1>5, <1>6, WordsAssumption DEF Multiply, Word, NoWord

NotEmpty == \A i \in 1..Len(tensors) : tensors[i].bytes > 0

\* Only a descriptor that was read adds a tensor.
LEMMA NotEmptyStep == IInv /\ NotEmpty /\ [Next]_vars => NotEmpty'
<1> SUFFICES ASSUME IInv, NotEmpty, [Next]_vars PROVE NotEmpty'
  OBVIOUS
<1>1. CASE UNCHANGED tensors
  BY <1>1 DEF NotEmpty
<1>2. ASSUME NEW name \in Name, NEW rank \in 1..MaxRank,
             NEW dimensions \in [1..rank -> Dimension], NEW element \in {2, 4},
             NEW offset \in Offset, ReadTensor(name, dimensions, element, offset)
      PROVE  NotEmpty'
  <2> DEFINE tensor == [name |-> name, offset |-> offset,
                        bytes |-> ByteSize(dimensions, element)]
  <2>1. CASE /\ ByteSize(dimensions, element) \in Word
             /\ tensors' = Append(tensors, tensor)
    <3>1. tensor.bytes > 0
      BY <2>1, BytesAreSome
    <3>2. tensors \in Seq(Tensor)
      BY DEF IInv, ReaderInv, TypeOK, Tensor
    <3> HIDE DEF tensor
    <3> QED
      BY <2>1, <3>1, <3>2 DEF NotEmpty
  <2> QED
    BY <1>1, <1>2, <2>1 DEF ReadTensor, NotTaken, Refuse
<1>3. CASE ReadTensors
  BY <1>1, <1>2, <1>3 DEF ReadTensors, BadTensor, Refuse
<1>4. UNCHANGED tensors \/ ReadTensors
  <2>1. ReadMetadata => UNCHANGED tensors
    BY DEF ReadMetadata, ReadScalar, ReadText, ReadArray, ReadAlignment, Entry,
           ReadElement, ReadTextElement, Element, BadMetadata, NotTaken, Refuse
  <2> QED
    BY <2>1 DEF Next, vars, ReadHeader, NotTaken, BadHeader, Refuse, EndMetadata,
                EndTensors, CheckSpans
<1> QED
  BY <1>1, <1>3, <1>4

LEMMA Payloads == IInv /\ NotEmpty => PayloadsAreThere
<1> SUFFICES ASSUME IInv, NotEmpty, phase = "accepted", NEW i \in 1..Len(tensors)
             PROVE  /\ tensors[i].bytes > 0
                    /\ Payload(tensors[i]) = data + tensors[i].offset
  BY DEF PayloadsAreThere
<1>1. InsideFile(tensors[i]) /\ ReaderInv
  BY DEF IInv, Checked
<1>2. Begin(tensors[i]) = data + tensors[i].offset
  BY <1>1, SpanFacts
<1> QED
  BY <1>1, <1>2 DEF NotEmpty, Payload, InsideFile

\* No tensor of a catalog that read_catalog returns is empty, and the upload
\* (tensor_payload) finds each where the catalog says it is.
THEOREM AcceptedPayloads == Spec => []PayloadsAreThere
<1>1. Init => NotEmpty
  BY DEF Init, NotEmpty
<1> QED
  BY <1>1, NotEmptyStep, Invariant, Payloads, PTL DEF Spec

-----------------------------------------------------------------------------
(* Matmul plans: what create_plans asks for *)

Fitting == {a \in Algorithm : Fits(a)}

BlockRole ==
  {"ffn_gate", "ffn_up", "ffn_down", "query_gate", "key", "value", "full_output",
   "qkv", "beta", "alpha", "gate", "linear_output"}

\* A slot asks for as many rows as a chunk has tokens, but the logits for one.
SlotSet ==
  {s \in [bucket : 1..MaxPrefillTokens, tokens : 1..MaxPrefillTokens,
          role : BlockRole \cup {"lm_head"}] :
     s.bucket = IF s.role = "lm_head" THEN 1 ELSE s.tokens}

\* What sequences of S are put together, it is a sequence over S.
LEMMA FlattenType ==
  ASSUME NEW S, NEW q \in Seq(Seq(S))
  PROVE  FlattenSeq(q) \in Seq(S)
<1>1. CASE Len(q) = 0
  <2>1. q = <<>>
    BY <1>1, EmptySeq
  <2>2. <<>> \in Seq(S)
    OBVIOUS
  <2> QED BY <1>1, <2>1, <2>2 DEF FlattenSeq
<1>2. CASE Len(q) # 0
  <2> DEFINE n == Len(q) - 1
             T == Seq(S)
             flatten == CHOOSE f : f = [i \in 1..Len(q) |->
                          IF i = 1 THEN q[i] ELSE f[i - 1] \o q[i]]
             P == {k \in 0..n : flatten[k + 1] \in T}
  <2>1. n \in Nat /\ Len(q) = n + 1 /\ \A i \in 1..Len(q) : q[i] \in T
    BY <1>2
  <2>2. FlattenSeq(q) = flatten[Len(q)]
    BY <1>2 DEF FlattenSeq
  <2>3. ASSUME NEW v \in T, NEW w \in T PROVE v \o w \in T
    BY <2>3, ConcatProperties
  <2> HIDE DEF T, n
  <2>4. flatten = [i \in 1..Len(q) |-> IF i = 1 THEN q[i] ELSE flatten[i - 1] \o q[i]]
    <3> DEFINE first == q[1]
               g == [k \in 1..n |-> [v \in T |-> v \o q[k + 1]]]
    <3>1. first \in T /\ g \in [1..n -> [T -> T]]
      <4>1. first \in T
        BY <2>1
      <4>2. ASSUME NEW k \in 1..n, NEW v \in T PROVE v \o q[k + 1] \in T
        BY <2>1, <2>3
      <4> QED BY <4>1, <4>2
    <3>2. PICK h \in [0..n -> T] : TakesSteps(h, n, first, g)
      <4> HIDE DEF first, g
      <4> QED BY <2>1, <3>1, BoundedRecursion
    <3> DEFINE f == [i \in 1..Len(q) |-> h[i - 1]]
    <3>3. ASSUME NEW i \in 1..Len(q)
          PROVE  h[i - 1] = IF i = 1 THEN q[i] ELSE f[i - 1] \o q[i]
      <4>1. CASE i = 1
        BY <4>1, <3>2 DEF TakesSteps
      <4>2. CASE i # 1
        <5>1. i - 1 \in 1..n /\ i - 1 \in 1..Len(q) /\ i - 1 - 1 \in 0..n /\ i - 1 + 1 = i
          BY <2>1, <4>2
        <5>2. f[i - 1] = h[i - 1 - 1] /\ h[i - 1 - 1] \in T
          BY <5>1
        <5>3. h[i - 1] = g[i - 1][h[i - 1 - 1]]
          BY <5>1, <3>2 DEF TakesSteps
        <5>4. g[i - 1][h[i - 1 - 1]] = h[i - 1 - 1] \o q[i]
          BY <5>1, <5>2
        <5> QED BY <4>2, <5>2, <5>3, <5>4
      <4> QED BY <4>1, <4>2
    <3>4. f = [i \in 1..Len(q) |-> IF i = 1 THEN q[i] ELSE f[i - 1] \o q[i]]
      BY <3>3, Zenon
    <3> HIDE DEF f
    <3> QED BY <3>4, Zenon
  <2> HIDE DEF flatten
  <2>5. 0 \in P
    BY <2>1, <2>4
  <2>6. ASSUME NEW k \in 1..n, k - 1 \in P PROVE k \in P
    <3>1. PICK i \in 1..Len(q) : i = k + 1
      BY <2>1
    <3>2. i # 1 /\ i - 1 = k /\ k - 1 + 1 = k /\ q[i] \in T
      BY <2>1, <3>1
    <3>3. flatten[i] = flatten[i - 1] \o q[i]
      BY <2>4, <3>2
    <3>4. flatten[k] \in T
      BY <2>6, <3>2
    <3>5. flatten[i] \in T
      BY <2>3, <3>2, <3>3, <3>4
    <3> QED BY <2>1, <3>1, <3>5
  <2>7. n \in P
    <3> HIDE DEF P
    <3>1. \A k \in 0..n : k \in P
      BY <2>1, <2>5, <2>6, BoundedInduction
    <3> QED BY <2>1, <3>1
  <2> QED BY <2>1, <2>2, <2>7 DEF T
<1> QED BY <1>1, <1>2

LEMMA RolesType ==
  ASSUME NEW kind
  PROVE  Roles(kind) \in Seq(BlockRole)
<1>1. /\ <<"ffn_gate", "ffn_up", "ffn_down">> \in Seq(BlockRole)
      /\ <<"query_gate", "key", "value", "full_output">> \in Seq(BlockRole)
      /\ <<"qkv", "beta", "alpha", "gate", "linear_output">> \in Seq(BlockRole)
  BY DEF BlockRole
<1> QED BY <1>1, ConcatProperties DEF Roles

LEMMA BucketSlotsType ==
  ASSUME PlansAssumption, ModelAssumption, NEW c \in Model,
         NEW b \in 1..MaxPrefillTokens
  PROVE  BucketSlots(c, b) \in Seq(SlotSet)
<1> DEFINE slotsOf(l) == [i \in DOMAIN Roles(c.blocks[l]) |->
                           [bucket |-> b, tokens |-> b, role |-> Roles(c.blocks[l])[i]]]
           ofBlocks == [l \in DOMAIN c.blocks |-> slotsOf(l)]
           logits == [bucket |-> 1, tokens |-> b, role |-> "lm_head"]
<1>1. \A role \in BlockRole : [bucket |-> b, tokens |-> b, role |-> role] \in SlotSet
  BY DEF SlotSet, BlockRole
<1>2. logits \in SlotSet
  <2>1. 1 \in 1..MaxPrefillTokens
    BY DEF PlansAssumption
  <2> QED BY <2>1 DEF SlotSet
<1>3. ASSUME NEW l \in DOMAIN c.blocks PROVE slotsOf(l) \in Seq(SlotSet)
  <2> DEFINE r == Roles(c.blocks[l])
  <2>1. r \in Seq(BlockRole)
    BY RolesType
  <2> HIDE DEF r
  <2>2. [i \in DOMAIN r |-> [bucket |-> b, tokens |-> b, role |-> r[i]]] \in Seq(SlotSet)
    <3>1. Len(r) \in Nat /\ DOMAIN r = 1..Len(r) /\ \A i \in 1..Len(r) : r[i] \in BlockRole
      BY <2>1
    <3> DEFINE s == [i \in 1..Len(r) |-> [bucket |-> b, tokens |-> b, role |-> r[i]]]
    <3>2. s \in [1..Len(r) -> SlotSet]
      BY <1>1, <3>1
    <3> HIDE DEF s
    <3>3. s \in Seq(SlotSet)
      BY <3>1, <3>2
    <3> QED BY <3>1, <3>3 DEF s
  <2> QED BY <2>2 DEF r
<1>4. c.blocks \in Seq({"linear", "full"})
  BY DEF ModelAssumption
<1>5. ofBlocks \in Seq(Seq(SlotSet))
  <2> HIDE DEF slotsOf
  <2>1. Len(c.blocks) \in Nat /\ DOMAIN c.blocks = 1..Len(c.blocks)
    BY <1>4
  <2>2. ofBlocks \in [1..Len(c.blocks) -> Seq(SlotSet)]
    BY <1>3, <2>1
  <2> QED BY <2>1, <2>2
<1>6. FlattenSeq(ofBlocks) \in Seq(SlotSet)
  <2> HIDE DEF ofBlocks
  <2> QED BY <1>5, FlattenType
<1>7. <<logits>> \in Seq(SlotSet)
  <2> HIDE DEF logits
  <2> QED BY <1>2
<1>8. BucketSlots(c, b) = FlattenSeq(ofBlocks) \o <<logits>>
  BY DEF BucketSlots
<1> HIDE DEF ofBlocks, logits
<1> QED BY <1>6, <1>7, <1>8, ConcatProperties

LEMMA SlotsType ==
  ASSUME PlansAssumption, ModelAssumption, NEW c \in Model
  PROVE  Slots[c] \in Seq(SlotSet)
<1> DEFINE byBucket == [i \in DOMAIN Bucket |-> BucketSlots(c, Bucket[i])]
<1>1. Len(Bucket) \in Nat /\ DOMAIN Bucket = 1..Len(Bucket)
      /\ \A i \in 1..Len(Bucket) : Bucket[i] \in 1..MaxPrefillTokens
  BY DEF PlansAssumption
<1>2. \A i \in 1..Len(Bucket) : BucketSlots(c, Bucket[i]) \in Seq(SlotSet)
  BY <1>1, BucketSlotsType
<1>3. byBucket \in Seq(Seq(SlotSet))
  <2>1. byBucket \in [1..Len(Bucket) -> Seq(SlotSet)]
    BY <1>1, <1>2
  <2> QED BY <1>1, <2>1
<1>4. Slots[c] = FlattenSeq(byBucket)
  BY DEF Slots
<1> HIDE DEF byBucket
<1> QED BY <1>3, <1>4, FlattenType

\* Matmuls that read the same activation take as many columns and rows of it.
LEMMA GroupsAgree ==
  ASSUME NEW c, NEW group \in Groups, NEW r \in group, NEW s \in group
  PROVE  /\ Consumes(c, r) = Consumes(c, s)
         /\ r = "lm_head" <=> s = "lm_head"
BY DEF Groups, Consumes

-----------------------------------------------------------------------------
(* Matmul plans: the invariant *)

ConfigSet ==
  {MatmulConfig(c, b, r) :
     c \in Model, b \in 1..MaxPrefillTokens, r \in BlockRole \cup {"lm_head"}}

KeptPlan ==
  {p \in [config : ConfigSet, algorithm : Fitting, tuned : BOOLEAN, workspace : Nat] :
     p.workspace = Need[p.algorithm]}

Making == {"create", "query", "queried", "tune", "search", "found", "return",
           "measure", "store"}

\* The plans that were kept are taken down, or have been.
Ending == {"failing", "failed", "closing", "closed"}

PlanStages == Making \cup {"next", "ready", "unwind"} \cup Ending

\* A matmul that has a plan has one of its own configuration.
BindInv ==
  /\ model \in Model /\ cache \in Seq(KeptPlan) /\ bound \in Seq(Nat)
  /\ Len(bound) <= Len(Slots[model])
  /\ \A i \in 1..Len(bound) :
       /\ bound[i] \in 1..Len(cache)
       /\ cache[bound[i]].config = ConfigOf(model, Slots[model][i])
  /\ pc \in PlanStages
  /\ pc \in Making => Len(bound) < Len(Slots[model])
  /\ pc = "ready" => Len(bound) = Len(Slots[model])

TrialSet ==
  [left : Seq(Fitting), measured : Seq(Fitting \X Time), best : Fitting \cup {0}, median : Nat]

\* a is the first of those measured with the least median, which is m.
Wins(t, a, m) ==
  \E i \in 1..Len(t.measured) :
    /\ t.measured[i] = <<a, m>>
    /\ \A j \in 1..Len(t.measured) :
         /\ m <= t.measured[j][2]
         /\ j < i => m < t.measured[j][2]

Tuning ==
  \/ pc \in {"tune", "search", "found", "return", "measure"}
  \/ owner = "probe" /\ pc \in {"create", "query", "queried"}

\* A plan that is tuned is for a bucket within the context, and has an
\* algorithm that fits whenever it may be stored.
TuneInv ==
  /\ owner \in {"plan", "probe"}
  /\ draft \in [plan : Algorithm \cup {0}, probe : Algorithm \cup {0}]
  /\ Tuning => Tuned(model, Slot.bucket)
  /\ Tuning \/ pc \in {"queried", "store"} => draft.plan \in Fitting
  /\ trial \in TrialSet
  /\ pc \in {"next", "create", "query", "queried", "tune", "search"} => trial = NoTrial
  /\ pc \in {"found", "return"} => trial.measured = <<>>
  /\ pc = "measure" =>
       /\ trial.best \in Fitting
       /\ trial.left # <<>> \/ trial.measured # <<>>
       /\ trial.measured # <<>> => Wins(trial, trial.best, trial.median)
  /\ pc = "store" => trial = NoTrial \/ \E m \in Time : Wins(trial, draft.plan, m)

RunInv == LaunchesFit /\ refused = FALSE

PartKind == {"handle", "description", "input", "weight", "output"}
OtherKind == {"preference", "search", "start", "stop"}

\* What is held beside the plans that are kept, by the stage.
MayHold(r) ==
  \/ r \in AllParts(NewPlan) /\ pc \in Making
  \/ /\ r \in AllParts(0)
     /\ \/ pc \in {"search", "found", "return"}
        \/ pc \in {"create", "query", "queried"} /\ owner = "probe"
  \/ r = Part("preference", Building) /\ pc \in {"query", "queried"}
  \/ r = Part("search", 0) /\ pc \in {"search", "found"}
  \/ r \in {Part("start", NewPlan), Part("stop", NewPlan)} /\ pc = "measure"
  \/ r.plan \in {0, NewPlan} /\ pc = "unwind"

\* The plan that is made has all its parts.
Complete == pc \in Making /\ (pc = "create" => owner = "probe")

\* A plan that is kept is whole until it goes, as a whole; whatever else is held
\* is of the stage, and a preference goes before the plan it was made for.
HoldInv ==
  /\ \A r \in live : r = Part(r.kind, r.plan) /\ r.kind \in PartKind \cup OtherKind
  /\ \A r \in live : IF r.plan \in 1..Len(cache) THEN r.kind \in PartKind ELSE MayHold(r)
  /\ \A p \in 1..Len(cache) :
       AllParts(p) \subseteq live \/ (pc \in Ending /\ OwnedBy(p) = {})
  /\ Complete => AllParts(NewPlan) \subseteq live
  /\ pc = "unwind" /\ Preferences # {} => OwnedBy(NewPlan) # {}
  /\ pc \in {"failed", "closed"} => live = {}

\* What was left behind was denied, and of a plan that was kept it is all.
LeakInv ==
  /\ \A r \in leaked :
       <<r.plan, IF r.kind = "preference" THEN "destroy" ELSE "select">> \in denied
  /\ \A p \in 1..Len(cache) : <<p, "select">> \in denied => AllParts(p) \subseteq leaked
  /\ pc \notin Ending \cup {"unwind"} => \A p \in Nat \ {0} : <<p, "select">> \notin denied

\* Only a guard that had switched can leave another device.
DeviceInv ==
  /\ \/ device = atClose
     \/ device = Home /\ \E p \in 1..Len(cache) : <<p, "restore">> \in denied
  /\ pc \notin Ending => device = Home /\ atClose = Home

PlansInv == BindInv /\ TuneInv /\ RunInv /\ HoldInv /\ LeakInv /\ DeviceInv

PlansAndModels == PlansAssumption /\ ModelAssumption

\* What the configurations and the sizes of a model are made of.
LEMMA FittingFacts ==
  ASSUME PlansAssumption
  PROVE  \A a \in Fitting : a \in Algorithm /\ Need[a] \in Nat /\ Need[a] <= Budget
BY DEF PlansAssumption, Fitting, Fits

\* The matmul whose plan is looked for.
LEMMA SlotFacts ==
  ASSUME PlansAndModels, BindInv, ~AllBound
  PROVE  /\ Len(bound) + 1 \in 1..Len(Slots[model])
         /\ Slot \in SlotSet /\ Config \in ConfigSet
         /\ Config = ConfigOf(model, Slots[model][Len(bound) + 1])
         /\ Config.m = Slot.bucket
<1>1. Slots[model] \in Seq(SlotSet)
  BY SlotsType DEF PlansAndModels, BindInv
<1>2. Len(bound) + 1 \in 1..Len(Slots[model])
  BY <1>1 DEF BindInv, AllBound
<1>3. Slot \in SlotSet
  BY <1>1, <1>2 DEF Slot
<1>4. Config \in ConfigSet
  <2>1. Config = MatmulConfig(model, Slot.bucket, Slot.role)
    BY DEF Config, ConfigOf
  <2>2. /\ Slot.bucket \in 1..MaxPrefillTokens
        /\ Slot.role \in BlockRole \cup {"lm_head"}
        /\ model \in Model
    BY <1>3 DEF SlotSet, BindInv
  <2> HIDE DEF Config, Slot
  <2> QED BY <2>1, <2>2 DEF ConfigSet
<1>5. Config = ConfigOf(model, Slots[model][Len(bound) + 1])
  BY DEF Config, Slot
<1>6. Config.m = Slot.bucket
  BY DEF Config, ConfigOf, MatmulConfig
<1> QED BY <1>2, <1>3, <1>4, <1>5, <1>6

LEMMA MakingIsNotBound ==
  ASSUME PlansAndModels, BindInv, pc \in Making
  PROVE  ~AllBound
<1>1. Slots[model] \in Seq(SlotSet)
  BY SlotsType DEF PlansAndModels, BindInv
<1> QED BY <1>1 DEF BindInv, AllBound

LEMMA PlansStart == PlansAndModels /\ PlansInit => PlansInv
<1> SUFFICES ASSUME PlansAndModels, PlansInit PROVE PlansInv
  OBVIOUS
<1>1. Slots[model] \in Seq(SlotSet)
  BY SlotsType DEF PlansAndModels, PlansInit
<1>2. BindInv
  BY <1>1 DEF BindInv, PlansInit, PlanStages, Making
<1>3. NoTrial \in TrialSet
  BY DEF NoTrial, TrialSet
<1>4. TuneInv
  BY <1>3 DEF TuneInv, PlansInit, Undrafted, Tuning
<1> QED
  BY <1>2, <1>4
  DEF PlansInit, PlansInv, RunInv, LaunchesFit, HoldInv, LeakInv, DeviceInv, Complete, Making, Ending

-----------------------------------------------------------------------------
(* Matmul plans: every matmul has a plan of its configuration *)

LEMMA StoredPlanIsKept ==
  ASSUME PlansAndModels, BindInv, TuneInv, Store
  PROVE  PlanOf(Config, draft.plan, Tuned(model, Slot.bucket)) \in KeptPlan
<1>1. ~AllBound
  BY MakingIsNotBound DEF Store, Making
<1>2. Config \in ConfigSet
  BY <1>1, SlotFacts
<1>3. draft.plan \in Fitting
  BY DEF TuneInv, Store
<1>4. Need[draft.plan] \in Nat
  BY <1>3, FittingFacts DEF PlansAndModels
<1>5. Tuned(model, Slot.bucket) \in BOOLEAN
  BY DEF Tuned
<1> HIDE DEF Config, Tuned, Slot, Fitting
<1> QED BY <1>2, <1>3, <1>4, <1>5 DEF PlanOf, KeptPlan

LEMMA BindStep ==
  ASSUME PlansAndModels, PlansInv, PlansNext
  PROVE  BindInv'
<1>1. BindInv /\ TuneInv
  BY DEF PlansInv
<1>2. Slots[model] \in Seq(SlotSet)
  BY <1>1, SlotsType DEF PlansAndModels, BindInv
<1>3. CASE Reuse
  <2>1. ~AllBound /\ pc = "next" /\ UNCHANGED <<model, pc, cache>>
    BY <1>3 DEF Reuse
  <2>2. PICK i \in DOMAIN cache : cache[i].config = Config /\ bound' = Append(bound, i)
    BY <1>3 DEF Reuse, SameConfig
  <2>3. /\ Len(bound) + 1 \in 1..Len(Slots[model])
        /\ Config = ConfigOf(model, Slots[model][Len(bound) + 1])
    BY <1>1, <2>1, SlotFacts
  <2> HIDE DEF Config, ConfigOf
  <2>4. bound \in Seq(Nat) /\ cache \in Seq(KeptPlan)
    BY <1>1 DEF BindInv
  <2>5. i \in Nat /\ i \in 1..Len(cache)
    BY <2>4
  <2>6. /\ bound' \in Seq(Nat) /\ Len(bound') = Len(bound) + 1
        /\ \A k \in 1..Len(bound) : bound'[k] = bound[k]
        /\ bound'[Len(bound) + 1] = i
    BY <2>2, <2>4, <2>5
  <2>7. \A k \in 1..Len(bound') :
          /\ bound'[k] \in 1..Len(cache)
          /\ cache[bound'[k]].config = ConfigOf(model, Slots[model][k])
    BY <1>1, <2>2, <2>3, <2>4, <2>5, <2>6 DEF BindInv
  <2>8. Len(bound') <= Len(Slots[model])
    BY <1>2, <2>3, <2>6
  <2> QED
    BY <1>1, <2>1, <2>6, <2>7, <2>8 DEF BindInv, Making, ConfigOf
<1>4. CASE Store
  <2> DEFINE plan == PlanOf(Config, draft.plan, Tuned(model, Slot.bucket))
  <2>1. ~AllBound /\ pc' = "next" /\ UNCHANGED model
        /\ cache' = Append(cache, plan) /\ bound' = Append(bound, Len(cache) + 1)
    BY <1>1, <1>4, MakingIsNotBound DEF Store, Making, Goto, NewPlan
  <2>2. plan \in KeptPlan
    BY <1>1, <1>4, StoredPlanIsKept
  <2>3. /\ Len(bound) + 1 \in 1..Len(Slots[model])
        /\ Config = ConfigOf(model, Slots[model][Len(bound) + 1])
    BY <1>1, <2>1, SlotFacts
  <2>4. plan.config = Config
    BY DEF PlanOf
  <2> HIDE DEF plan, Config, ConfigOf
  <2>5. bound \in Seq(Nat) /\ cache \in Seq(KeptPlan)
    BY <1>1 DEF BindInv
  <2>6. /\ cache' \in Seq(KeptPlan) /\ Len(cache') = Len(cache) + 1
        /\ \A k \in 1..Len(cache) : cache'[k] = cache[k]
        /\ cache'[Len(cache) + 1] = plan
    BY <2>1, <2>2, <2>5
  <2>7. /\ bound' \in Seq(Nat) /\ Len(bound') = Len(bound) + 1
        /\ \A k \in 1..Len(bound) : bound'[k] = bound[k]
        /\ bound'[Len(bound) + 1] = Len(cache) + 1
    BY <2>1, <2>5
  <2>8. ASSUME NEW k \in 1..Len(bound')
        PROVE  /\ bound'[k] \in 1..Len(cache')
               /\ cache'[bound'[k]].config = ConfigOf(model, Slots[model][k])
    <3>1. CASE k = Len(bound) + 1
      BY <3>1, <2>3, <2>4, <2>5, <2>6, <2>7
    <3>2. CASE k # Len(bound) + 1
      <4>1. k \in 1..Len(bound)
        BY <2>5, <2>7, <3>2
      <4>2. /\ bound[k] \in 1..Len(cache)
            /\ cache[bound[k]].config = ConfigOf(model, Slots[model][k])
        BY <1>1, <4>1 DEF BindInv
      <4> QED BY <4>1, <4>2, <2>5, <2>6, <2>7, SMTT(30)
    <3> QED BY <3>1, <3>2
  <2>9. Len(bound') <= Len(Slots[model])
    BY <1>2, <2>3, <2>7
  <2> QED
    BY <1>1, <2>1, <2>6, <2>7, <2>8, <2>9 DEF BindInv, Making, PlanStages, ConfigOf
<1>5. CASE StartCreate \/ Ready
  BY <1>1, <1>2, <1>5
  DEF StartCreate, Ready, BindInv, AllBound, Goto, Making, PlanStages
<1>6. CASE \/ CreatePart \/ Query \/ FinishCreate \/ BeginTuning \/ Search \/ FinishSearch
           \/ BeginMeasuring \/ Measure \/ Select
  <2>1. /\ UNCHANGED <<model, cache, bound>> /\ pc \in Making
        /\ pc' \in Making \cup {"unwind"}
    BY <1>6
    DEF CreatePart, Query, FinishCreate, BeginTuning, Search, FinishSearch,
        BeginMeasuring, Measure, Select, Goto, Making
  <2> QED BY <1>1, <2>1 DEF BindInv, Making, PlanStages
<1>7. CASE \/ RunMatmul \/ Close \/ ReleasePreference \/ ReleaseEvents \/ ReleasePlan
           \/ LeaveConstructor \/ Gone
  <2>1. /\ UNCHANGED <<model, cache, bound>>
        /\ pc' = pc \/ pc' \in Ending
    BY <1>7
    DEF RunMatmul, Close, ReleasePreference, ReleaseEvents, ReleasePlan, LeaveConstructor, Gone,
        Goto, Ending
  <2> QED BY <1>1, <2>1 DEF BindInv, Making, PlanStages, Ending
<1> QED
  BY <1>3, <1>4, <1>5, <1>6, <1>7 DEF PlansNext

-----------------------------------------------------------------------------
(* Matmul plans: a tuned plan has the algorithm that was fastest *)

\* One more is measured: it wins if it is faster than the winner.
LEMMA OneMoreMeasured ==
  ASSUME NEW q \in Seq(Fitting \X Time), NEW a \in Fitting, NEW median \in Time,
         Time \subseteq Nat, NEW t, t.measured = q,
         NEW u, u.measured = Append(q, <<a, median>>),
         NEW b, NEW m \in Nat, q # <<>> => Wins(t, b, m)
  PROVE  Wins(u, IF q = <<>> \/ median < m THEN a ELSE b,
                 IF q = <<>> \/ median < m THEN median ELSE m)
<1> DEFINE r == Append(q, <<a, median>>)
<1>1. /\ Len(q) \in Nat /\ Len(r) = Len(q) + 1
      /\ \A i \in 1..Len(q) : r[i] = q[i] /\ q[i][2] \in Nat
      /\ r[Len(q) + 1] = <<a, median>>
      /\ median \in Nat
      /\ q = <<>> <=> Len(q) = 0
  <2>1. <<a, median>> \in Fitting \X Time /\ median \in Nat
    OBVIOUS
  <2>2. /\ Len(q) \in Nat /\ Len(r) = Len(q) + 1
        /\ \A i \in 1..Len(q) : r[i] = q[i]
        /\ r[Len(q) + 1] = <<a, median>>
    <3> DEFINE e == <<a, median>>
               S == Fitting \X Time
    <3>1. e \in S /\ q \in Seq(S)
      OBVIOUS
    <3> HIDE DEF e, S
    <3>2. /\ Len(q) \in Nat /\ Len(Append(q, e)) = Len(q) + 1
          /\ \A i \in 1..Len(q) : Append(q, e)[i] = q[i]
          /\ Append(q, e)[Len(q) + 1] = e
      BY ONLY <3>1, SMT
    <3> QED BY <3>2 DEF e
  <2>3. \A i \in 1..Len(q) : q[i][2] \in Nat
    <3>1. \A i \in 1..Len(q) : q[i] \in Fitting \X Time
      OBVIOUS
    <3> QED BY <3>1
  <2>4. q = <<>> <=> Len(q) = 0
    BY EmptySeq
  <2> HIDE DEF r
  <2> QED BY <2>1, <2>2, <2>3, <2>4
<1>2. \A j \in 1..Len(r) : j \in 1..Len(q) \/ j = Len(q) + 1
  BY <1>1
<1>3. u.measured = r
  OBVIOUS
<1> HIDE DEF r
<1>4. CASE q = <<>> \/ median < m
  <2>1. \A j \in 1..Len(q) : median < r[j][2]
    <3>1. CASE q = <<>>
      BY <1>1, <3>1
    <3>2. CASE q # <<>> /\ median < m
      <4>1. \A j \in 1..Len(q) : m <= q[j][2]
        BY <3>2 DEF Wins
      <4> QED BY <1>1, <3>2, <4>1
    <3> QED BY <1>4, <3>1, <3>2
  <2>2. /\ r[Len(q) + 1] = <<a, median>> /\ Len(q) + 1 \in 1..Len(r)
        /\ \A j \in 1..Len(r) :
             /\ median <= r[j][2]
             /\ j < Len(q) + 1 => median < r[j][2]
    BY <1>1, <1>2, <2>1
  <2>3. Wins(u, a, median)
    BY <1>3, <2>2 DEF Wins
  <2> QED BY <1>4, <2>3
<1>5. CASE ~(q = <<>> \/ median < m)
  <2>1. PICK i \in 1..Len(q) :
          /\ q[i] = <<b, m>>
          /\ \A j \in 1..Len(q) : m <= q[j][2] /\ (j < i => m < q[j][2])
    BY <1>5 DEF Wins
  <2>2. i \in 1..Len(r) /\ r[i] = <<b, m>>
    BY <1>1, <2>1
  <2>3. ASSUME NEW j \in 1..Len(r)
        PROVE  m <= r[j][2] /\ (j < i => m < r[j][2])
    <3>1. CASE j \in 1..Len(q)
      BY <1>1, <2>1, <3>1
    <3>2. CASE j = Len(q) + 1
      BY <1>1, <1>5, <2>1, <3>2
    <3> QED BY <1>2, <3>1, <3>2
  <2>4. Wins(u, b, m)
    BY <1>3, <2>2, <2>3 DEF Wins
  <2> QED BY <1>5, <2>4
<1> QED BY <1>4, <1>5

\* What is left of the candidates and what was measured keep their types.
LEMMA MeasureKeeps ==
  ASSUME PlansAndModels, PlansInv, Measure
  PROVE  TuneInv'
<1>1. TuneInv /\ BindInv
  BY DEF PlansInv
<1>2. /\ pc = "measure" /\ trial.left # <<>>
      /\ UNCHANGED <<model, owner, bound, draft>>
      /\ \/ UNCHANGED pc
            /\ \E median \in Time :
                 trial' = [Better(trial, Head(trial.left), median) EXCEPT
                             !.left = Tail(trial.left),
                             !.measured = Append(trial.measured, <<Head(trial.left), median>>)]
         \/ pc' = "unwind" /\ UNCHANGED trial
  BY DEF Measure, Goto
<1>3. CASE pc' = "unwind" /\ UNCHANGED trial
  BY <1>1, <1>2, <1>3 DEF TuneInv, Tuning
<1>4. ASSUME NEW median \in Time, UNCHANGED pc,
             trial' = [Better(trial, Head(trial.left), median) EXCEPT
                         !.left = Tail(trial.left),
                         !.measured = Append(trial.measured, <<Head(trial.left), median>>)]
      PROVE  TuneInv'
  <2> DEFINE t == trial
             a == Head(t.left)
             wins == t.measured = <<>> \/ median < t.median
  <2>1. /\ t \in TrialSet /\ t.best \in Fitting
        /\ t.left \in Seq(Fitting) /\ t.left # <<>>
        /\ t.measured \in Seq(Fitting \X Time) /\ t.median \in Nat
        /\ t.measured # <<>> => Wins(t, t.best, t.median)
    BY <1>1, <1>2 DEF TuneInv, TrialSet
  <2>2. a \in Fitting /\ Tail(t.left) \in Seq(Fitting)
    BY <2>1
  <2>3. Time \subseteq Nat
    BY DEF PlansAndModels, PlansAssumption
  <2>4. Append(t.measured, <<a, median>>) \in Seq(Fitting \X Time)
        /\ Append(t.measured, <<a, median>>) # <<>>
    <3> DEFINE e == <<a, median>>
               S == Fitting \X Time
               q == t.measured
    <3>1. e \in S /\ q \in Seq(S)
      BY <2>1, <2>2
    <3> HIDE DEF e, S, q
    <3>2. Append(q, e) \in Seq(S) /\ Len(Append(q, e)) = Len(q) + 1 /\ Len(q) \in Nat
      BY ONLY <3>1, SMT
    <3>3. Append(q, e) # <<>>
      BY ONLY <3>2, EmptySeq, SMT
    <3> QED BY <3>2, <3>3 DEF e, S, q
  <2>5. /\ trial'.left = Tail(t.left)
        /\ trial'.measured = Append(t.measured, <<a, median>>)
        /\ trial'.best = IF wins THEN a ELSE t.best
        /\ trial'.median = IF wins THEN median ELSE t.median
        /\ trial' = [left |-> trial'.left, measured |-> trial'.measured,
                      best |-> trial'.best, median |-> trial'.median]
    <3> HIDE DEF a
    <3> QED BY <1>4, <2>1 DEF Better, TrialSet, a
  <2> HIDE DEF a, t
  <2>6. trial' \in TrialSet
    BY <2>1, <2>2, <2>3, <2>4, <2>5 DEF TrialSet
  <2>7. Wins(trial', trial'.best, trial'.median)
    <3> DEFINE q == t.measured
               b == t.best
               m == t.median
               u == trial'
    <3>1. /\ q \in Seq(Fitting \X Time) /\ m \in Nat
          /\ u.measured = Append(q, <<a, median>>)
          /\ q # <<>> => Wins(t, b, m)
      BY <2>1, <2>5
    <3>2. Wins(u, IF q = <<>> \/ median < m THEN a ELSE b,
                  IF q = <<>> \/ median < m THEN median ELSE m)
      <4>1. t.measured = q
        OBVIOUS
      <4> HIDE DEF q, b, m, u
      <4> QED BY ONLY <2>2, <2>3, <3>1, <4>1, median \in Time, OneMoreMeasured
    <3> QED BY <2>5, <3>2
  <2>8. trial'.best \in Fitting
    BY <2>1, <2>2, <2>5
  <2>9. Slot' = Slot
    BY <1>2 DEF Slot
  <2> QED
    BY <1>1, <1>2, <1>4, <2>4, <2>5, <2>6, <2>7, <2>8, <2>9 DEF TuneInv, Tuning, Wins
<1> QED BY <1>2, <1>3, <1>4

LEMMA SelectKeeps ==
  ASSUME PlansAndModels, PlansInv, Select
  PROVE  TuneInv'
<1>1. TuneInv /\ BindInv
  BY DEF PlansInv
<1>2. /\ pc = "measure" /\ trial.left = <<>> /\ pc' = "store"
      /\ draft' = [draft EXCEPT !.plan = trial.best]
      /\ UNCHANGED <<model, owner, bound, trial>>
  BY DEF Select, Goto
<1>3. /\ trial.best \in Fitting /\ trial.measured # <<>>
      /\ Wins(trial, trial.best, trial.median)
      /\ draft \in [plan : Algorithm \cup {0}, probe : Algorithm \cup {0}]
  BY <1>1, <1>2 DEF TuneInv
<1>4. trial.best \in Algorithm
  BY <1>3, FittingFacts DEF PlansAndModels
<1>5. draft'.plan = trial.best /\ draft' \in [plan : Algorithm \cup {0}, probe : Algorithm \cup {0}]
  BY <1>2, <1>3, <1>4
<1>6. trial.median \in Time
  <2>1. PICK i \in 1..Len(trial.measured) : trial.measured[i] = <<trial.best, trial.median>>
    BY <1>3 DEF Wins
  <2>2. trial.measured \in Seq(Fitting \X Time)
    BY <1>1 DEF TuneInv, TrialSet
  <2> QED BY <2>1, <2>2
<1>7. \E m \in Time : Wins(trial', draft'.plan, m)
  BY <1>2, <1>3, <1>5, <1>6
<1> QED BY <1>1, <1>2, <1>3, <1>5, <1>7 DEF TuneInv, Tuning

LEMMA QueryKeeps ==
  ASSUME PlansAndModels, PlansInv, Query
  PROVE  TuneInv'
<1>1. TuneInv /\ BindInv
  BY DEF PlansInv
<1>2. /\ pc = "query" /\ UNCHANGED <<model, owner, bound, trial>>
      /\ \/ pc' = "queried" /\ \E a \in Algorithm : Fits(a) /\ draft' = [draft EXCEPT ![owner] = a]
         \/ pc' = "unwind" /\ UNCHANGED draft
  BY DEF Query, Goto
<1>3. Slot' = Slot
  BY <1>2 DEF Slot
<1>4. CASE pc' = "unwind" /\ UNCHANGED draft
  BY <1>1, <1>2, <1>4 DEF TuneInv, Tuning
<1>5. ASSUME NEW a \in Algorithm, Fits(a), draft' = [draft EXCEPT ![owner] = a],
             pc' = "queried"
      PROVE  TuneInv'
  <2>1. a \in Fitting
    BY <1>5 DEF Fitting
  <2>2. CASE owner = "plan"
    <3>1. draft' = [draft EXCEPT !.plan = a]
      BY <1>5, <2>2
    <3>2. draft'.plan = a /\ draft' \in [plan : Algorithm \cup {0}, probe : Algorithm \cup {0}]
      BY <1>1, <3>1 DEF TuneInv
    <3> QED BY <1>1, <1>2, <1>3, <1>5, <2>1, <2>2, <3>2 DEF TuneInv, Tuning
  <2>3. CASE owner = "probe"
    <3>1. draft' = [draft EXCEPT !.probe = a]
      BY <1>5, <2>3
    <3>2. draft'.plan = draft.plan
          /\ draft' \in [plan : Algorithm \cup {0}, probe : Algorithm \cup {0}]
      BY <1>1, <3>1 DEF TuneInv
    <3> QED BY <1>1, <1>2, <1>3, <1>5, <2>3, <3>2 DEF TuneInv, Tuning
  <2> QED BY <1>1, <2>2, <2>3 DEF TuneInv
<1> QED BY <1>2, <1>4, <1>5

LEMMA SearchKeeps ==
  ASSUME PlansAndModels, PlansInv, Search
  PROVE  TuneInv'
<1>1. TuneInv /\ BindInv
  BY DEF PlansInv
<1>2. pc = "search" /\ UNCHANGED <<model, owner, bound, draft>>
  BY DEF Search
<1>3. Slot' = Slot
  BY <1>2 DEF Slot
<1>4. CASE pc' \in {"search", "unwind"} /\ UNCHANGED trial
  BY <1>1, <1>2, <1>3, <1>4 DEF TuneInv, Tuning
<1>5. ASSUME NEW n \in 0..MaxCandidates, NEW kept \in [1..n -> Fitting],
             trial' = [NoTrial EXCEPT !.left = kept], pc' = "found"
      PROVE  TuneInv'
  <2>1. kept \in Seq(Fitting)
    BY DEF PlansAndModels, PlansAssumption
  <2>2. trial' \in TrialSet /\ trial'.measured = <<>>
    <3>1. trial' = [left |-> kept, measured |-> <<>>, best |-> 0, median |-> 0]
      BY <1>5 DEF NoTrial
    <3>2. <<>> \in Seq(Fitting \X Time) /\ 0 \in Nat
      OBVIOUS
    <3> QED BY <2>1, <3>1, <3>2 DEF TrialSet
  <2> QED BY <1>1, <1>2, <1>3, <1>5, <2>2 DEF TuneInv, Tuning
<1>6. \/ pc' \in {"search", "unwind"} /\ UNCHANGED trial
      \/ \E n \in 0..MaxCandidates : \E kept \in [1..n -> Fitting] :
           trial' = [NoTrial EXCEPT !.left = kept] /\ pc' = "found"
  BY <1>2 DEF Search, Goto, Fitting
<1> QED BY <1>4, <1>5, <1>6

LEMMA BeginMeasuringKeeps ==
  ASSUME PlansAndModels, PlansInv, BeginMeasuring
  PROVE  TuneInv'
<1>1. TuneInv /\ BindInv
  BY DEF PlansInv
<1>2. pc = "return" /\ owner' = "plan" /\ UNCHANGED <<model, bound, draft>>
  BY DEF BeginMeasuring
<1>3. Slot' = Slot
  BY <1>2 DEF Slot
<1>4. CASE pc' = "unwind" /\ UNCHANGED trial
  BY <1>1, <1>2, <1>4 DEF TuneInv, Tuning
<1>5. CASE trial.left # <<>> /\ trial' = [trial EXCEPT !.best = Head(trial.left)]
           /\ pc' \in {"unwind", "measure"}
  <2>1. trial \in TrialSet /\ trial.measured = <<>> /\ Head(trial.left) \in Fitting
    BY <1>1, <1>2, <1>5 DEF TuneInv, TrialSet
  <2>2. /\ trial' \in TrialSet /\ trial'.measured = <<>>
        /\ trial'.left # <<>> /\ trial'.best \in Fitting
    BY <1>5, <2>1 DEF TrialSet
  <2> QED BY <1>1, <1>2, <1>3, <1>5, <2>2 DEF TuneInv, Tuning
<1>6. \/ pc' = "unwind" /\ UNCHANGED trial
      \/ /\ trial.left # <<>> /\ trial' = [trial EXCEPT !.best = Head(trial.left)]
         /\ pc' \in {"unwind", "measure"}
  BY DEF BeginMeasuring, Goto
<1> QED BY <1>4, <1>5, <1>6

LEMMA TuneStep ==
  ASSUME PlansAndModels, PlansInv, PlansNext
  PROVE  TuneInv'
<1>1. TuneInv /\ BindInv
  BY DEF PlansInv
<1>2. CASE Reuse
  BY <1>1, <1>2 DEF Reuse, TuneInv, Tuning
<1>3. CASE StartCreate
  BY <1>1, <1>3 DEF StartCreate, Goto, TuneInv, Tuning
<1>4. CASE CreatePart \/ FinishCreate \/ BeginTuning \/ FinishSearch
  <2>1. Slot' = Slot
    BY <1>4 DEF CreatePart, FinishCreate, BeginTuning, FinishSearch, Slot
  <2> QED
    BY <1>1, <1>4, <2>1
    DEF CreatePart, FinishCreate, BeginTuning, FinishSearch, Goto, TuneInv, Tuning
<1>5. CASE Store
  <2>1. NoTrial \in TrialSet
    BY DEF NoTrial, TrialSet
  <2> QED BY <1>1, <1>5, <2>1 DEF Store, Goto, TuneInv, Tuning, Undrafted
<1>6. CASE \/ Ready \/ RunMatmul \/ Close \/ ReleasePreference \/ ReleaseEvents \/ Gone
  <2>1. UNCHANGED <<owner, draft, trial>>
        /\ pc' \in {"ready", "closing", "unwind", "failed", "closed"}
    BY <1>6 DEF Ready, RunMatmul, Close, ReleasePreference, ReleaseEvents, Gone, Goto
  <2> QED BY <1>1, <2>1 DEF TuneInv, Tuning
<1>7. CASE ReleasePlan
  <2>1. Slot' = Slot /\ UNCHANGED <<pc, model, owner, draft, trial>>
    BY <1>7 DEF ReleasePlan, Slot
  <2> QED BY <1>1, <2>1 DEF TuneInv, Tuning
<1>8. CASE LeaveConstructor
  <2>1. NoTrial \in TrialSet /\ Undrafted \in [plan : Algorithm \cup {0}, probe : Algorithm \cup {0}]
    BY DEF NoTrial, TrialSet, Undrafted
  <2> QED BY <1>1, <1>8, <2>1 DEF LeaveConstructor, Goto, TuneInv, Tuning
<1> QED
  BY <1>2, <1>3, <1>4, <1>5, <1>6, <1>7, <1>8, QueryKeeps, SearchKeeps, BeginMeasuringKeeps,
     MeasureKeeps, SelectKeeps DEF PlansNext

-----------------------------------------------------------------------------
(* Matmul plans: runs are accepted, and everything comes back *)

LEMMA RunKeeps ==
  ASSUME PlansAndModels, PlansInv, RunMatmul
  PROVE  RunInv'
<1> DEFINE slots == Slots[model]
<1>1. BindInv /\ RunInv
  BY DEF PlansInv
<1>2. slots \in Seq(SlotSet) /\ model \in Model
  BY <1>1, SlotsType DEF PlansAndModels, BindInv
<1>3. pc = "ready" /\ Len(bound) = Len(slots)
  BY <1>1 DEF RunMatmul, BindInv
<1>4. PICK group \in Groups, tokens \in ToSet(Bucket) \cap 1..model.context :
        LET members == {j \in DOMAIN slots : slots[j].tokens = tokens /\ slots[j].role \in group}
        IN \E i \in members :
             LET plan == cache[bound[i]] IN
               /\ refused' = (refused \/ ~GroupAgrees(members, i) \/ ~Accepts(slots[i].role, plan))
               /\ launch' = [algorithm |-> plan.algorithm, given |-> plan.workspace,
                             rows |-> plan.config.m]
  <2> DEFINE Runs(all) ==
        \E group \in Groups, tokens \in ToSet(Bucket) \cap 1..model.context :
          LET members == {j \in DOMAIN all : all[j].tokens = tokens /\ all[j].role \in group}
          IN \E i \in members :
               LET plan == cache[bound[i]] IN
                 /\ refused' = (refused \/ ~GroupAgrees(members, i)
                                 \/ ~Accepts(all[i].role, plan))
                 /\ launch' = [algorithm |-> plan.algorithm, given |-> plan.workspace,
                               rows |-> plan.config.m]
  <2>1. \E all \in {slots} : Runs(all)
    BY DEF RunMatmul
  <2> HIDE DEF Runs, slots
  <2>2. Runs(slots)
    BY <2>1
  <2> QED BY <2>2 DEF Runs
<1> DEFINE members == {j \in DOMAIN slots : slots[j].tokens = tokens /\ slots[j].role \in group}
<1>5. PICK i \in members :
        /\ refused' = (refused \/ ~GroupAgrees(members, i)
                        \/ ~Accepts(slots[i].role, cache[bound[i]]))
        /\ launch' = [algorithm |-> cache[bound[i]].algorithm,
                      given |-> cache[bound[i]].workspace,
                      rows |-> cache[bound[i]].config.m]
  BY <1>4
<1>6. ASSUME NEW j \in members
      PROVE  /\ slots[j] \in SlotSet /\ slots[j].role \in group /\ slots[j].tokens = tokens
             /\ bound[j] \in 1..Len(cache) /\ cache[bound[j]] \in KeptPlan
             /\ cache[bound[j]].config = ConfigOf(model, slots[j])
  <2>1. j \in 1..Len(slots) /\ slots[j] \in SlotSet
    BY <1>2
  <2>2. /\ bound[j] \in 1..Len(cache) /\ cache \in Seq(KeptPlan)
        /\ cache[bound[j]].config = ConfigOf(model, slots[j])
    BY <1>1, <1>3, <2>1 DEF BindInv
  <2>3. cache[bound[j]] \in KeptPlan
    BY <2>2
  <2> QED BY <2>1, <2>2, <2>3
<1> HIDE DEF slots, members
<1>7. ASSUME NEW j \in members
      PROVE  InputSize(cache[bound[j]].config) = InputSize(cache[bound[i]].config)
  <2> DEFINE sj == slots[j]
             si == slots[i]
             cj == cache[bound[j]].config
             ci == cache[bound[i]].config
  <2>1. /\ sj \in SlotSet /\ sj.role \in group /\ sj.tokens = tokens
        /\ cj = ConfigOf(model, sj)
    BY <1>6
  <2>2. /\ si \in SlotSet /\ si.role \in group /\ si.tokens = tokens
        /\ ci = ConfigOf(model, si)
    BY <1>6
  <2> HIDE DEF sj, si, cj, ci
  <2>3. /\ Consumes(model, sj.role) = Consumes(model, si.role)
        /\ sj.role = "lm_head" <=> si.role = "lm_head"
    BY ONLY <2>1, <2>2, group \in Groups, GroupsAgree
  <2>4. sj.bucket = si.bucket
    BY ONLY <2>1, <2>2, <2>3 DEF SlotSet
  <2>5. cj.m = ci.m /\ cj.k = ci.k
    BY ONLY <2>1, <2>2, <2>3, <2>4 DEF ConfigOf, MatmulConfig
  <2> QED BY <2>5 DEF InputSize, cj, ci
<1>8. GroupAgrees(members, i)
  BY <1>7 DEF GroupAgrees
<1> DEFINE plan == cache[bound[i]]
           slot == slots[i]
<1>9. /\ slot \in SlotSet /\ slot.role \in group /\ slot.tokens = tokens
       /\ plan \in KeptPlan /\ plan.config = ConfigOf(model, slot)
  BY <1>6
<1>10. /\ plan.algorithm \in Fitting /\ plan.workspace = Need[plan.algorithm]
      /\ plan.workspace \in Nat /\ plan.workspace <= Budget
  <2> HIDE DEF plan
  <2>2. plan.algorithm \in Fitting /\ plan.workspace = Need[plan.algorithm]
    BY ONLY <1>9 DEF KeptPlan
  <2> QED BY <2>2, FittingFacts DEF PlansAndModels
<1>11. WeightSize(plan.config) = WeightOf(model, slots[i].role)
  <2>1. /\ plan.config.n = Produces(model, slots[i].role)
        /\ plan.config.k = Consumes(model, slots[i].role)
    <3> HIDE DEF plan, slot
    <3>1. /\ plan.config.n = Produces(model, slot.role)
          /\ plan.config.k = Consumes(model, slot.role)
      BY ONLY <1>9 DEF ConfigOf, MatmulConfig
    <3> QED BY <3>1 DEF slot
  <2> QED BY <2>1 DEF WeightSize, WeightOf
<1>12. Accepts(slots[i].role, plan)
  BY <1>10, <1>11 DEF Accepts
<1>13. refused' = FALSE
  BY <1>1, <1>5, <1>8, <1>12 DEF RunInv
<1>14. plan.config.m \in Nat /\ plan.config.m <= tokens
  <2> HIDE DEF plan, slot
  <2>1. plan.config.m = slot.bucket
    BY ONLY <1>9 DEF ConfigOf, MatmulConfig
  <2>2. slot.bucket \in 1..MaxPrefillTokens /\ tokens \in 1..MaxPrefillTokens
        /\ slot.bucket \in {1, tokens} /\ MaxPrefillTokens \in Nat
    BY ONLY <1>9, PlansAndModels DEF SlotSet, PlansAndModels, PlansAssumption
  <2> QED BY ONLY <2>1, <2>2
<1>15. tokens \in 1..MaxPrefillTokens
  <2>1. PICK k \in DOMAIN Bucket : tokens = Bucket[k]
    BY DEF ToSet
  <2> QED BY <2>1 DEF PlansAndModels, PlansAssumption
<1>16. plan.config.m <= BufferRows(model)
  <2>1. tokens <= model.context /\ model.context \in Nat /\ MaxPrefillTokens \in Nat
    BY <1>2 DEF PlansAndModels, PlansAssumption, ModelAssumption
  <2> HIDE DEF plan
  <2> QED BY <1>14, <1>15, <2>1 DEF BufferRows
<1>17. LaunchesFit'
  <2>1. UNCHANGED model
    BY DEF RunMatmul
  <2> HIDE DEF plan
  <2> QED BY <1>5, <1>10, <1>16, <2>1 DEF LaunchesFit, BufferRows, plan
<1> QED BY <1>13, <1>17 DEF RunInv

LEMMA MeasureRuns ==
  ASSUME PlansAndModels, PlansInv, Measure
  PROVE  RunInv'
<1> DEFINE a == Head(trial.left)
<1>1. BindInv /\ TuneInv /\ RunInv
  BY DEF PlansInv
<1>2. /\ pc = "measure" /\ trial.left # <<>> /\ UNCHANGED <<model, refused>>
      /\ launch' = [algorithm |-> a, given |-> Need[a], rows |-> Config.m]
  BY DEF Measure
<1>3. a \in Fitting
  BY <1>1, <1>2 DEF TuneInv, TrialSet
<1>4. Need[a] \in Nat /\ Need[a] <= Budget
  BY <1>3, FittingFacts DEF PlansAndModels
<1>5. ~AllBound
  BY <1>1, <1>2, MakingIsNotBound DEF Making
<1>6. Config.m = Slot.bucket /\ Slot \in SlotSet
  BY <1>1, <1>5, SlotFacts
<1>7. Slot.bucket <= model.context
  BY <1>1, <1>2 DEF TuneInv, Tuning, Tuned
<1>8. /\ Slot.bucket \in 1..MaxPrefillTokens
      /\ model.context \in Nat /\ MaxPrefillTokens \in Nat
  BY <1>1, <1>6 DEF SlotSet, PlansAndModels, PlansAssumption, ModelAssumption, BindInv
<1>9. Config.m <= BufferRows(model)
  <2> HIDE DEF Config, Slot
  <2> QED BY <1>6, <1>7, <1>8 DEF BufferRows
<1>10. LaunchesFit'
  <2> HIDE DEF Config, a
  <2> QED BY <1>2, <1>4, <1>9 DEF LaunchesFit, BufferRows
<1> QED BY <1>1, <1>2, <1>10 DEF RunInv

LEMMA RunStep ==
  ASSUME PlansAndModels, PlansInv, PlansNext
  PROVE  RunInv'
<1>1. RunInv
  BY DEF PlansInv
<1>2. CASE UNCHANGED <<model, launch, refused>>
  BY <1>1, <1>2 DEF RunInv, LaunchesFit, BufferRows
<1>3. RunMatmul \/ Measure \/ UNCHANGED <<model, launch, refused>>
  BY DEF PlansNext, Reuse, StartCreate, CreatePart, Query, FinishCreate, BeginTuning, Search,
         FinishSearch, BeginMeasuring, Select, Store, Ready, Close, ReleasePreference,
         ReleaseEvents, ReleasePlan, LeaveConstructor, Gone
<1> QED BY <1>2, <1>3, RunKeeps, MeasureRuns

\* A plan is made of five parts.
LEMMA PartsAreFive ==
  /\ ToSet(Parts) = PartKind /\ DOMAIN Parts = 1..5
  /\ \A i \in 1..5 : Parts[i] \in PartKind
  /\ \A k \in PartKind : \E i \in 1..5 : Parts[i] = k
BY DEF ToSet, Parts, PartKind

\* They are told apart by kind and plan.
LEMMA PartsApart ==
  ASSUME NEW p, NEW r
  PROVE  r \in AllParts(p) <=> r = Part(r.kind, p) /\ r.plan = p /\ r.kind \in PartKind
BY PartsAreFive DEF AllParts, Part

\* The numbers of the plans.
LEMMA PlanNumbers ==
  ASSUME PlansInv
  PROVE  /\ Len(cache) \in Nat /\ NewPlan = Len(cache) + 1 /\ DOMAIN cache = 1..Len(cache)
         /\ 0 \notin 1..Len(cache) /\ NewPlan \notin 1..Len(cache) /\ NewPlan # 0
         /\ Building \in {0, NewPlan}
         /\ \A p : OwnedBy(p) = {r \in live : r.plan = p /\ r.kind \in PartKind}
<1>1. cache \in Seq(KeptPlan)
  BY DEF PlansInv, BindInv
<1> QED BY <1>1, PartsAreFive DEF NewPlan, Building, OwnedBy

\* A resource is of the right form, and not of a plan that is kept unless a part.
LEMMA CreateHolds ==
  ASSUME PlansAndModels, PlansInv, CreatePart
  PROVE  HoldInv'
<1>1. HoldInv
  BY DEF PlansInv
<1>2. /\ UNCHANGED <<cache, owner>> /\ NewPlan' = NewPlan /\ Building' = Building
      /\ pc = "create" /\ pc' \in {"create", "query", "unwind"}
  BY DEF CreatePart, Goto, NewPlan, Building
<1>3. CASE pc' = "unwind"
  <2>1. live' = live
    BY <1>2, <1>3 DEF CreatePart, Goto
  <2>2. Preferences = {}
    <3> SUFFICES ASSUME NEW r \in live, r.kind \in {"preference", "search"} PROVE FALSE
      BY DEF Preferences
    <3> QED BY <1>1, <1>2, PartsApart DEF HoldInv, MayHold, PartKind
  <2>3. \A r \in live : r.plan \in 1..Len(cache) \/ r.plan \in {0, NewPlan}
    BY <1>1, <1>2, PartsApart DEF HoldInv, MayHold
  <2> QED
    BY <1>1, <1>2, <1>3, <2>1, <2>2, <2>3
    DEF HoldInv, MayHold, Complete, Making, Ending, Preferences, OwnedBy
<1>4. CASE pc' = "create"
  <2>1. PICK i \in 1..5 : live' = live \cup {Part(Parts[i], Building)}
    BY <1>2, <1>4, PartsAreFive DEF CreatePart, Goto
  <2>2. PICK x : x = Part(Parts[i], Building)
    OBVIOUS
  <2>3. x \in AllParts(Building) /\ x.plan = Building /\ x.kind \in PartKind /\ x = Part(x.kind, x.plan)
    BY <2>2, PartsAreFive DEF AllParts, Part
  <2>4. live' = live \cup {x} /\ x.plan \notin 1..Len(cache)
    BY <2>1, <2>3, <2>2, PlanNumbers
  <2>5. \A r \in live' : r = Part(r.kind, r.plan) /\ r.kind \in PartKind \cup OtherKind
    BY <1>1, <2>3, <2>4 DEF HoldInv
  <2>6. \A r \in live' : IF r.plan \in 1..Len(cache) THEN r.kind \in PartKind ELSE MayHold(r)'
    <3>1. MayHold(x)'
      BY <1>2, <1>4, <2>3 DEF MayHold, Building, Making, AllParts, PlansInv, TuneInv
    <3>2. \A r : MayHold(r) => MayHold(r)'
      BY <1>2, <1>4 DEF MayHold, AllParts
    <3> QED BY <1>1, <2>4, <3>1, <3>2 DEF HoldInv
  <2>7. pc \notin Ending /\ pc' \notin Ending
    BY <1>2, <1>4 DEF Ending
  <2>8. Complete' => AllParts(NewPlan) \subseteq live
    BY <1>1, <1>2, <1>4 DEF HoldInv, Complete, Making
  <2> QED BY <1>1, <1>2, <1>4, <2>1, <2>5, <2>6, <2>7, <2>8 DEF HoldInv, AllParts
<1>5. CASE pc' = "query"
  <2>1. PICK x : x = Part("preference", Building)
    OBVIOUS
  <2>2. live' = live \cup {x} /\ \A i \in 1..5 : Part(Parts[i], Building) \in live
    BY <1>2, <1>5, <2>1, PartsAreFive DEF CreatePart, Goto
  <2>3. x.plan = Building /\ x.kind = "preference" /\ x = Part(x.kind, x.plan)
    BY <2>1 DEF Part
  <2>4. x.plan \notin 1..Len(cache)
    BY <2>3, PlanNumbers
  <2>5. \A r \in live' : r = Part(r.kind, r.plan) /\ r.kind \in PartKind \cup OtherKind
    BY <1>1, <2>2, <2>3 DEF HoldInv, OtherKind
  <2>6. AllParts(Building) \subseteq live
    BY <2>2, PartsAreFive DEF AllParts
  <2>7. \A r \in live' : IF r.plan \in 1..Len(cache) THEN r.kind \in PartKind ELSE MayHold(r)'
    <3>1. MayHold(x)'
      BY <1>2, <1>5, <2>1 DEF MayHold
    <3>2. \A r : MayHold(r) => MayHold(r)'
      BY <1>2, <1>5 DEF MayHold, AllParts, Making
    <3> QED BY <1>1, <2>2, <2>4, <3>1, <3>2 DEF HoldInv
  <2>8. pc \notin Ending /\ pc' \notin Ending
    BY <1>2, <1>5 DEF Ending
  <2>9. AllParts(NewPlan) \subseteq live
    BY <1>1, <1>2, <2>6 DEF HoldInv, Complete, Making, Building
  <2> QED BY <1>1, <1>2, <1>5, <2>2, <2>5, <2>7, <2>8, <2>9 DEF HoldInv, AllParts
<1> QED BY <1>2, <1>3, <1>4, <1>5

\* Everything that is thrown is thrown where a plan that a preference serves is whole.
LEMMA ThrowHolds ==
  ASSUME PlansAndModels, PlansInv, UNCHANGED cache, pc \in Making, pc' = "unwind",
         \/ live' \subseteq live
         \/ pc = "return" /\ live' \subseteq live \cup {Part("start", NewPlan)},
         \A p \in 1..NewPlan : AllParts(p) \subseteq live => AllParts(p) \subseteq live',
         pc # "create"
  PROVE  HoldInv'
<1>1. HoldInv
  BY DEF PlansInv
<1>2. NewPlan' = NewPlan /\ Len(cache)' = Len(cache)
  BY DEF NewPlan
<1>3. \A r \in live : r.plan \in 1..Len(cache) \/ r.plan \in {0, NewPlan}
  BY <1>1, PlanNumbers, PartsApart DEF HoldInv, MayHold, Part
<1>4. \A r \in live' :
        /\ r = Part(r.kind, r.plan) /\ r.kind \in PartKind \cup OtherKind
        /\ IF r.plan \in 1..Len(cache) THEN r.kind \in PartKind ELSE r.plan \in {0, NewPlan}
  <2>1. /\ Part("start", NewPlan).kind = "start" /\ Part("start", NewPlan).plan = NewPlan
        /\ NewPlan \notin 1..Len(cache) /\ "start" \in OtherKind
    BY PlanNumbers DEF Part, OtherKind
  <2> QED BY <1>1, <1>3, <2>1 DEF HoldInv
<1>5. AllParts(NewPlan) \subseteq live'
  BY <1>1, PlanNumbers DEF HoldInv, Complete
<1>6. OwnedBy(NewPlan)' # {}
  <2>1. Part("handle", NewPlan) \in live'
    BY <1>5, PartsApart DEF PartKind, Part
  <2>2. "handle" \in ToSet(Parts) /\ Part("handle", NewPlan).kind = "handle" /\ Part("handle", NewPlan).plan = NewPlan
    BY PartsAreFive DEF PartKind, Part
  <2> QED BY <1>2, <2>1, <2>2 DEF OwnedBy
<1>7. \A p \in 1..Len(cache) : AllParts(p) \subseteq live'
  <2>1. pc \notin Ending
    BY DEF Making, Ending
  <2> QED BY <1>1, <2>1, PlanNumbers DEF HoldInv
<1> QED
  BY <1>2, <1>4, <1>6, <1>7 DEF HoldInv, MayHold, Complete, Making, AllParts

\* Between two stages in which the plan that is made is whole.
LEMMA NextHolds ==
  ASSUME PlansAndModels, PlansInv, UNCHANGED cache, Complete, Complete',
         \A p \in 1..NewPlan : AllParts(p) \subseteq live => AllParts(p) \subseteq live',
         \A r \in live' : r = Part(r.kind, r.plan) /\ r.kind \in PartKind \cup OtherKind,
         \A r \in live' : r.plan \in 1..Len(cache) => r \in live,
         \A r \in live' : r.plan \notin 1..Len(cache) => MayHold(r)'
  PROVE  HoldInv'
<1>1. HoldInv
  BY DEF PlansInv
<1>2. NewPlan' = NewPlan /\ Len(cache)' = Len(cache)
  BY DEF NewPlan
<1>3. pc \notin Ending /\ pc' \notin Ending \cup {"unwind", "failed", "closed"}
  BY DEF Complete, Making, Ending
<1>4. AllParts(NewPlan) \subseteq live'
  BY <1>1, PlanNumbers DEF HoldInv
<1>5. \A p \in 1..Len(cache) : AllParts(p) \subseteq live'
  BY <1>1, <1>3, PlanNumbers DEF HoldInv
<1>6. \A r \in live' : r.plan \in 1..Len(cache) => r.kind \in PartKind
  BY <1>1 DEF HoldInv
<1> QED BY <1>2, <1>3, <1>4, <1>5, <1>6 DEF HoldInv, AllParts

\* Taking handles away, or putting some in hand, leaves the parts of plans.
LEMMA HandlesAreNoParts ==
  ASSUME NEW k \in OtherKind, NEW q, NEW p
  PROVE  Part(k, q) \notin AllParts(p)
BY PartsApart DEF Part, OtherKind, PartKind

LEMMA MakeHolds ==
  ASSUME PlansAndModels, PlansInv,
         \/ Query \/ FinishCreate \/ BeginTuning \/ Search \/ FinishSearch \/ BeginMeasuring
         \/ Measure \/ Select
  PROVE  HoldInv'
<1> DEFINE search == Part("search", 0)
           preference == Part("preference", Building)
           events == {Part("start", NewPlan), Part("stop", NewPlan)}
<1>1. HoldInv /\ owner \in {"plan", "probe"}
  BY DEF PlansInv, TuneInv
<1>2. UNCHANGED cache /\ NewPlan' = NewPlan /\ pc \in Making \ {"create"} /\ Complete
  BY DEF Query, FinishCreate, BeginTuning, Search, FinishSearch, BeginMeasuring, Measure, Select,
         NewPlan, Making, Complete
<1>3. /\ search.kind = "search" /\ search.plan = 0 /\ search = Part(search.kind, search.plan)
      /\ preference.kind = "preference" /\ preference.plan = Building
      /\ \A e \in events : e.kind \in {"start", "stop"} /\ e.plan = NewPlan /\ e = Part(e.kind, e.plan)
  BY DEF Part
<1>4. \A p : /\ search \notin AllParts(p) /\ preference \notin AllParts(p)
             /\ \A e \in events : e \notin AllParts(p)
  BY HandlesAreNoParts DEF OtherKind
<1>5. /\ \A r \in live : r.plan \notin 1..Len(cache) => MayHold(r)
      /\ \A r \in live : r = Part(r.kind, r.plan) /\ r.kind \in PartKind \cup OtherKind
  BY <1>1 DEF HoldInv
<1>6. CASE Query \/ Measure \/ BeginTuning
  <2>1. live' = live
    BY <1>6 DEF Query, Measure, BeginTuning
  <2>2. CASE pc' = "unwind"
    BY <1>2, <2>1, <2>2, ThrowHolds
  <2>3. CASE pc' # "unwind"
    <3>1. \/ pc = "query" /\ pc' = "queried" /\ owner' = owner
          \/ pc = "measure" /\ pc' = "measure" /\ owner' = owner
          \/ pc = "tune" /\ pc' = "create" /\ owner' = "probe"
      BY <1>6, <2>3 DEF Query, Measure, BeginTuning, Goto
    <3>2. \A r : MayHold(r) => MayHold(r)'
      BY <1>2, <3>1 DEF MayHold, Making, AllParts, Building, NewPlan
    <3>3. Complete'
      BY <3>1 DEF Complete, Making
    <3> QED BY <1>2, <1>5, <2>1, <3>2, <3>3, NextHolds
  <2> QED BY <2>2, <2>3
<1>7. CASE FinishCreate
  <2>1. live' = live \ {preference} /\ owner' = owner /\ pc = "queried"
        /\ (pc' = "unwind" \/ pc' = IF owner = "probe" THEN "search"
                                    ELSE IF Tuned(model, Slot.bucket) THEN "tune" ELSE "store")
    BY <1>7 DEF FinishCreate, Goto
  <2>2. \A p : AllParts(p) \subseteq live => AllParts(p) \subseteq live'
    BY <1>4, <2>1
  <2>3. CASE pc' = "unwind"
    BY <1>2, <2>1, <2>2, <2>3, ThrowHolds
  <2>4. CASE pc' # "unwind"
    <3>1. \A r \in live' : MayHold(r) => MayHold(r)'
      BY <1>1, <1>2, <2>1, <2>4 DEF MayHold, Making, AllParts, Building, NewPlan
    <3>2. Complete'
      BY <2>1, <2>4 DEF Complete, Making
    <3>3. live' \subseteq live
      BY <2>1
    <3> HIDE DEF preference, search, events
    <3> QED BY <1>2, <1>5, <2>2, <3>1, <3>2, <3>3, NextHolds
  <2> QED BY <2>3, <2>4
<1>8. CASE Search
  <2>1. /\ pc = "search" /\ owner' = owner
        /\ \/ pc' = "search" /\ live' = live \cup {search}
           \/ pc' \in {"found", "unwind"} /\ live' = live
    BY <1>8 DEF Search, Goto
  <2>2. CASE pc' = "unwind"
    BY <1>2, <2>1, <2>2, ThrowHolds
  <2>3. CASE pc' # "unwind"
    <3>1. \A r : MayHold(r) => MayHold(r)'
      BY <1>2, <2>1, <2>3 DEF MayHold, Making, AllParts, NewPlan
    <3>2. pc' = "search" => MayHold(search)'
      BY DEF MayHold
    <3>3. Complete' /\ "search" \in OtherKind
      BY <2>1, <2>3 DEF Complete, Making, OtherKind
    <3> HIDE DEF search, preference, events
    <3> QED BY <1>2, <1>3, <1>5, <2>1, <2>3, <3>1, <3>2, <3>3, PlanNumbers, NextHolds
  <2> QED BY <2>2, <2>3
<1>9. CASE FinishSearch
  <2>1. /\ pc = "found" /\ owner' = owner
        /\ \/ pc' = "return" /\ live' = live \ {search}
           \/ pc' = "unwind" /\ live' = live
    BY <1>9 DEF FinishSearch, Goto
  <2>2. CASE pc' = "unwind"
    BY <1>2, <2>1, <2>2, ThrowHolds
  <2>3. CASE pc' = "return"
    <3>1. \A r \in live' : MayHold(r) => MayHold(r)'
      BY <1>2, <2>1, <2>3 DEF MayHold, Making, AllParts, NewPlan
    <3>2. Complete' /\ live' \subseteq live
      BY <2>1, <2>3 DEF Complete, Making
    <3>3. \A p : AllParts(p) \subseteq live => AllParts(p) \subseteq live'
      BY <1>4, <2>1, <2>3
    <3> HIDE DEF search, preference, events
    <3> QED BY <1>2, <1>5, <3>1, <3>2, <3>3, NextHolds
  <2> QED BY <2>1, <2>2, <2>3
<1>10. CASE BeginMeasuring
  <2>1. /\ pc = "return" /\ OwnedBy(0) = {} /\ owner' = "plan"
        /\ \/ pc' = "measure" /\ live' = live \cup events
           \/ pc' = "unwind" /\ (live' = live \cup {Part("start", NewPlan)} \/ live' = live)
    <3>1. \/ \E made \in {{"start"}, {"start", "stop"}} :
               /\ live' = live \cup {Part(e, NewPlan) : e \in made}
               /\ pc' = IF made = {"start"} THEN "unwind" ELSE "measure"
          \/ pc' = "unwind" /\ live' = live
      BY <1>10 DEF BeginMeasuring, Goto
    <3>2. CASE /\ live' = live \cup {Part(e, NewPlan) : e \in {"start"}} /\ pc' = "unwind"
      BY <1>10, <3>2 DEF BeginMeasuring
    <3>3. CASE /\ live' = live \cup {Part(e, NewPlan) : e \in {"start", "stop"}} /\ pc' = "measure"
      <4>1. {Part(e, NewPlan) : e \in {"start", "stop"}} = events
        OBVIOUS
      <4> QED BY <1>10, <3>3, <4>1 DEF BeginMeasuring
    <3>4. {"start"} # {"start", "stop"}
      OBVIOUS
    <3> QED BY <1>10, <3>1, <3>2, <3>3, <3>4 DEF BeginMeasuring
  <2>2. CASE pc' = "unwind"
    BY <1>2, <2>1, <2>2, ThrowHolds
  <2>3. CASE pc' = "measure"
    <3>1. \A r \in live : MayHold(r) => MayHold(r)'
      <4>1. \A r \in live : r \notin AllParts(0)
        <5>1. OwnedBy(0) = {r \in live : r.plan = 0 /\ r.kind \in PartKind}
          BY PlanNumbers
        <5> QED BY <2>1, <5>1, PartsApart
      <4> QED BY <1>2, <2>1, <2>3, <4>1 DEF MayHold, Making, AllParts, NewPlan
    <3>2. \A e \in events : MayHold(e)'
      BY <1>2, <2>3 DEF MayHold
    <3>3. Complete' /\ {"start", "stop"} \subseteq OtherKind
      BY <2>3 DEF Complete, Making, OtherKind
    <3>4. live' = live \cup events
      BY <2>1, <2>3
    <3> HIDE DEF search, preference, events
    <3> QED BY <1>2, <1>3, <1>5, <3>1, <3>2, <3>3, <3>4, PlanNumbers, NextHolds
  <2> QED BY <2>1, <2>2, <2>3
<1>11. CASE Select
  <2>1. /\ pc = "measure" /\ pc' = "store" /\ owner' = owner /\ live' = live \ Events
    BY <1>11 DEF Select, Goto
  <2>2. \A r \in live' : r.kind \notin {"start", "stop"}
    BY <2>1 DEF Events
  <2>3. \A r \in live' : MayHold(r) => MayHold(r)'
    <3>1. \A r \in live' : r \notin events
      BY <1>3, <2>2
    <3> QED BY <1>2, <2>1, <3>1 DEF MayHold, Making, AllParts, NewPlan
  <2>4. \A p : AllParts(p) \subseteq live => AllParts(p) \subseteq live'
    BY <2>1, PartsApart DEF Events, PartKind
  <2>5. Complete' /\ live' \subseteq live
    BY <2>1 DEF Complete, Making
  <2> HIDE DEF search, preference, events
  <2> QED BY <1>2, <1>5, <2>3, <2>4, <2>5, NextHolds
<1> QED BY <1>6, <1>7, <1>8, <1>9, <1>10, <1>11

\* A plan that is stored is kept; nothing else is in hand then.
LEMMA KeepHolds ==
  ASSUME PlansAndModels, PlansInv, Reuse \/ StartCreate \/ Store \/ Ready \/ RunMatmul \/ Close
  PROVE  HoldInv'
<1>1. HoldInv
  BY DEF PlansInv
<1>2. live' = live
  BY DEF Reuse, StartCreate, Store, Ready, RunMatmul, Close
<1>3. CASE Store
  <2>1. /\ pc = "store" /\ pc' = "next" /\ Len(cache') = NewPlan
    BY <1>3, PlanNumbers DEF Store, Goto, PlansInv, BindInv
  <2>2. AllParts(NewPlan) \subseteq live
    BY <1>1, <2>1 DEF HoldInv, Complete, Making
  <2>3. \A p \in 1..NewPlan : AllParts(p) \subseteq live
    BY <1>1, <2>1, <2>2, PlanNumbers DEF HoldInv, Ending
  <2>4. \A r \in live : r.plan \in 1..NewPlan /\ r.kind \in PartKind
    <3> SUFFICES ASSUME NEW r \in live PROVE r.plan \in 1..NewPlan /\ r.kind \in PartKind
      OBVIOUS
    <3>1. CASE r.plan \in 1..Len(cache)
      BY <1>1, <3>1, PlanNumbers DEF HoldInv
    <3>2. CASE r.plan \notin 1..Len(cache)
      <4>1. r \in AllParts(NewPlan)
        BY <1>1, <2>1, <3>2 DEF HoldInv, MayHold
      <4> QED BY <4>1, PartsApart, PlanNumbers
    <3> QED BY <3>1, <3>2
  <2> QED
    BY <1>1, <1>2, <2>1, <2>3, <2>4 DEF HoldInv, Complete, Making, Ending, AllParts
<1>4. CASE Reuse \/ StartCreate \/ Ready \/ RunMatmul \/ Close
  <2>1. /\ UNCHANGED cache /\ pc \in {"next", "ready"}
        /\ \/ pc' \in {"next", "ready", "closing", "unwind"}
           \/ pc' = "create" /\ owner' = "plan"
    BY <1>4 DEF Reuse, StartCreate, Ready, RunMatmul, Close, Goto
  <2>2. \A r \in live : r.plan \in 1..Len(cache) /\ r.kind \in PartKind
    BY <1>1, <2>1 DEF HoldInv, MayHold, Making
  <2>3. \A p \in 1..Len(cache) : AllParts(p) \subseteq live
    BY <1>1, <2>1 DEF HoldInv, Ending
  <2>4. Preferences' = {}
    BY <1>2, <2>2 DEF Preferences, PartKind
  <2> QED
    BY <1>1, <1>2, <2>1, <2>2, <2>3, <2>4 DEF HoldInv, Complete, Making, Ending, AllParts
<1> QED BY <1>3, <1>4

\* What is taken down leaves the rest.
LEMMA DownHolds ==
  ASSUME PlansAndModels, PlansInv,
         ReleasePreference \/ ReleaseEvents \/ ReleasePlan \/ LeaveConstructor \/ Gone
  PROVE  HoldInv'
<1>1. HoldInv /\ pc \in PlanStages
  BY DEF PlansInv, BindInv
<1>2. UNCHANGED cache /\ NewPlan' = NewPlan /\ live' \subseteq live
  BY DEF ReleasePreference, ReleaseEvents, ReleasePlan, LeaveConstructor, Gone, NewPlan
<1>3. \A r \in live' : r = Part(r.kind, r.plan) /\ r.kind \in PartKind \cup OtherKind
  BY <1>1, <1>2 DEF HoldInv
<1>4. CASE ReleasePreference \/ ReleaseEvents
  <2>1. pc = "unwind" /\ pc' = "unwind" /\ \A r \in live : r.kind \in PartKind => r \in live'
    BY <1>4 DEF ReleasePreference, ReleaseEvents, Preferences, Events, PartKind
  <2>2. \A p : OwnedBy(p)' = OwnedBy(p)
    BY <1>2, <2>1, PartsAreFive DEF OwnedBy
  <2>3. \A p : AllParts(p) \subseteq live => AllParts(p) \subseteq live'
    BY <2>1, PartsApart
  <2>4. Preferences' # {} => Preferences # {}
    BY <1>2 DEF Preferences
  <2> QED
    BY <1>1, <1>2, <1>3, <2>1, <2>2, <2>3, <2>4
    DEF HoldInv, MayHold, Complete, Making, Ending, AllParts
<1>5. CASE ReleasePlan
  <2>1. PICK p \in Falling : First(p) /\ live' = live \ OwnedBy(p) /\ UNCHANGED <<pc, owner>>
    BY <1>5 DEF ReleasePlan, Owned
  <2>2. \/ pc = "return" /\ p = 0
        \/ pc = "unwind" /\ p \in {0, NewPlan}
        \/ pc \in Ending /\ p \in 1..Len(cache)
    BY <1>1, <2>1, PlanNumbers DEF Falling, PlanStages, Making, Ending
  <2>3. \A q : q # p => (AllParts(q) \subseteq live => AllParts(q) \subseteq live')
    BY <2>1, PlanNumbers, PartsApart
  <2>4. pc = "unwind" => Preferences' = {}
    BY <1>2, <2>1 DEF First, Preferences
  <2>5. /\ OwnedBy(p)' = {}
        /\ \A q : OwnedBy(q) = {} => OwnedBy(q)' = {}
    BY <1>2, <2>1 DEF OwnedBy
  <2>6. \A r : MayHold(r) => MayHold(r)'
    BY <1>2, <2>1 DEF MayHold, AllParts, Building, NewPlan
  <2>7. pc \in {"failed", "closed"} => live' = {}
    BY <1>1, <1>2 DEF HoldInv
  <2>8. Complete' => AllParts(NewPlan) \subseteq live'
    BY <1>1, <2>1, <2>2, <2>3, PlanNumbers DEF HoldInv, Complete, Making, Ending
  <2>9. \A q \in 1..Len(cache) : AllParts(q) \subseteq live' \/ (pc \in Ending /\ OwnedBy(q)' = {})
    BY <1>1, <2>2, <2>3, <2>5, PlanNumbers DEF HoldInv
  <2>10. \A r \in live' : IF r.plan \in 1..Len(cache) THEN r.kind \in PartKind ELSE MayHold(r)'
    BY <1>1, <1>2, <2>6 DEF HoldInv
  <2> QED
    BY <1>2, <1>3, <2>1, <2>4, <2>7, <2>8, <2>9, <2>10 DEF HoldInv, AllParts
<1>6. CASE LeaveConstructor
  <2>1. /\ pc = "unwind" /\ pc' = "failing" /\ live' = live /\ Events = {}
        /\ OwnedBy(0) = {} /\ OwnedBy(NewPlan) = {}
    BY <1>6 DEF LeaveConstructor, Goto, Falling, Owned
  <2>2. Preferences = {}
    BY <1>1, <2>1 DEF HoldInv
  <2>3. \A r \in live : r.plan \in 1..Len(cache) /\ r.kind \in PartKind
    <3> SUFFICES ASSUME NEW r \in live, r.plan \notin 1..Len(cache) PROVE FALSE
      BY <1>1 DEF HoldInv
    <3>1. r.plan \in {0, NewPlan}
      BY <1>1, <2>1 DEF HoldInv, MayHold, Making
    <3>2. r.kind \notin PartKind
      BY <2>1, <3>1, PlanNumbers
    <3>3. r.kind \in OtherKind
      BY <1>1, <3>2 DEF HoldInv
    <3> QED BY <2>1, <2>2, <3>3 DEF Events, Preferences, OtherKind
  <2>4. \A p \in 1..Len(cache) : AllParts(p) \subseteq live
    BY <1>1, <2>1 DEF HoldInv, Ending
  <2> QED
    BY <1>2, <1>3, <2>1, <2>3, <2>4 DEF HoldInv, Complete, Making, AllParts
<1>7. CASE Gone
  <2>1. /\ pc \in {"failing", "closing"} /\ pc' \in {"failed", "closed"} /\ live' = live
        /\ \A p \in 1..Len(cache) : OwnedBy(p) = {}
    BY <1>7, PlanNumbers DEF Gone, Goto, Falling, Owned
  <2>2. live = {}
    <3> SUFFICES ASSUME NEW r \in live PROVE FALSE
      OBVIOUS
    <3>1. r.plan \in 1..Len(cache) /\ r.kind \in PartKind
      BY <1>1, <2>1 DEF HoldInv, MayHold, Making
    <3> QED BY <2>1, <3>1, PlanNumbers
  <2>3. \A p : OwnedBy(p)' = {}
    BY <2>1, <2>2 DEF OwnedBy
  <2> QED BY <1>2, <2>1, <2>2, <2>3 DEF HoldInv, Complete, Making, Ending
<1> QED BY <1>4, <1>5, <1>6, <1>7

LEMMA HoldStep ==
  ASSUME PlansAndModels, PlansInv, PlansNext
  PROVE  HoldInv'
BY CreateHolds, MakeHolds, KeepHolds, DownHolds DEF PlansNext

LEMMA LeakStep ==
  ASSUME PlansAndModels, PlansInv, PlansNext
  PROVE  LeakInv'
<1>1. LeakInv /\ HoldInv /\ pc \in PlanStages
  BY DEF PlansInv, BindInv
<1>2. CASE FinishCreate
  <2>1. UNCHANGED cache /\ pc \notin Ending \cup {"unwind"}
    BY <1>2 DEF FinishCreate, Ending
  <2> DEFINE x == Part("preference", Building)
  <2>2. x.kind = "preference" /\ x.plan = Building
    BY DEF Part
  <2>3. \/ UNCHANGED <<leaked, denied>>
        \/ leaked' = leaked \cup {x} /\ denied' = denied \cup {<<Building, "destroy">>}
    BY <1>2 DEF FinishCreate, Deny
  <2> HIDE DEF x
  <2>4. /\ leaked \subseteq leaked' /\ denied \subseteq denied'
        /\ \A p : <<p, "select">> \in denied' => <<p, "select">> \in denied
    BY <2>3
  <2>5. \A r \in leaked' :
          <<r.plan, IF r.kind = "preference" THEN "destroy" ELSE "select">> \in denied'
    BY <1>1, <2>2, <2>3, <2>4 DEF LeakInv
  <2> QED BY <1>1, <2>1, <2>4, <2>5 DEF LeakInv, AllParts
<1>3. CASE ReleasePlan
  <2>1. PICK p \in Falling, guard \in Guards :
          /\ OwnedBy(p) # {} /\ UNCHANGED <<pc, cache>>
          /\ leaked' = IF guard.selected THEN leaked ELSE leaked \cup OwnedBy(p)
          /\ \/ guard.denied = "nothing" /\ UNCHANGED denied
             \/ guard.denied # "nothing" /\ denied' = denied \cup {<<p, guard.denied>>}
    BY <1>3 DEF ReleasePlan, Owned, Deny
  <2>2. guard.selected => guard.denied \in {"nothing", "restore"}
    BY DEF Guards, Guard
  <2>3. ~guard.selected => guard.denied = "select"
    BY DEF Guards, Guard
  <2>4. \/ pc = "return" /\ p = 0
        \/ pc = "unwind" /\ p \in {0, NewPlan}
        \/ pc \in Ending /\ p \in 1..Len(cache)
    BY <1>1, <2>1, PlanNumbers DEF Falling, PlanStages, Making, Ending
  <2>5. \A r \in OwnedBy(p) : r.plan = p /\ r.kind # "preference"
    BY PlanNumbers DEF PartKind
  <2>6. \A r \in leaked' :
          <<r.plan, IF r.kind = "preference" THEN "destroy" ELSE "select">> \in denied'
    BY <1>1, <2>1, <2>3, <2>5 DEF LeakInv
  <2>7. p \in 1..Len(cache) /\ ~guard.selected => AllParts(p) \subseteq leaked'
    <3>1. p \in 1..Len(cache) => AllParts(p) \subseteq live
      BY <1>1, <2>1 DEF HoldInv
    <3> QED BY <2>1, <3>1, PlanNumbers, PartsApart
  <2>8. \A q \in 1..Len(cache) : <<q, "select">> \in denied' => AllParts(q) \subseteq leaked'
    BY <1>1, <2>1, <2>2, <2>7 DEF LeakInv
  <2>9. pc \notin Ending \cup {"unwind"} => \A q \in Nat \ {0} : <<q, "select">> \notin denied'
    <3> SUFFICES ASSUME pc \notin Ending \cup {"unwind"}, NEW q \in Nat \ {0}
                 PROVE  <<q, "select">> \notin denied'
      OBVIOUS
    <3>1. p = 0
      BY <2>4
    <3>2. <<q, "select">> # <<p, guard.denied>>
      BY <3>1
    <3>3. <<q, "select">> \notin denied
      BY <1>1 DEF LeakInv
    <3> QED BY <2>1, <3>2, <3>3
  <2> QED BY <2>1, <2>6, <2>8, <2>9 DEF LeakInv, AllParts
<1>4. CASE Store
  <2>1. UNCHANGED <<leaked, denied>> /\ pc = "store" /\ pc' = "next" /\ Len(cache') = Len(cache) + 1
    BY <1>4 DEF Store, Goto, downVars, PlansInv, BindInv
  <2>2. \A p \in Nat \ {0} : <<p, "select">> \notin denied
    BY <1>1, <2>1 DEF LeakInv, Ending
  <2>3. \A p \in 1..Len(cache') : p \in Nat \ {0}
    BY <2>1, PlanNumbers
  <2> QED BY <1>1, <2>1, <2>2, <2>3 DEF LeakInv
<1>5. CASE UNCHANGED <<cache, leaked, denied>> /\ (pc' \in Ending \cup {"unwind"} \/ pc \notin Ending \cup {"unwind"})
  BY <1>1, <1>5 DEF LeakInv, AllParts
<1>6. CASE \/ Reuse \/ StartCreate \/ CreatePart \/ Query \/ BeginTuning \/ Search \/ FinishSearch
           \/ BeginMeasuring \/ Measure \/ Select \/ Ready \/ RunMatmul \/ Close
  <2>1. UNCHANGED <<cache, leaked, denied>> /\ pc \notin Ending \cup {"unwind"}
    BY <1>6
    DEF Reuse, StartCreate, CreatePart, Query, BeginTuning, Search, FinishSearch, BeginMeasuring,
        Measure, Select, Ready, RunMatmul, Close, downVars, Ending
  <2> QED BY <1>5, <2>1
<1>7. CASE ReleasePreference \/ ReleaseEvents \/ LeaveConstructor \/ Gone
  <2>1. UNCHANGED <<cache, leaked, denied>> /\ pc' \in Ending \cup {"unwind"}
    BY <1>7 DEF ReleasePreference, ReleaseEvents, LeaveConstructor, Gone, downVars, Goto, Ending
  <2> QED BY <1>5, <2>1
<1> QED BY <1>2, <1>3, <1>4, <1>6, <1>7 DEF PlansNext

LEMMA DeviceStep ==
  ASSUME PlansAndModels, PlansInv, PlansNext
  PROVE  DeviceInv'
<1>1. DeviceInv /\ pc \in PlanStages
  BY DEF PlansInv, BindInv
<1>2. CASE Close \/ LeaveConstructor
  BY <1>2 DEF Close, LeaveConstructor, Goto, DeviceInv, Ending
<1>3. CASE ReleasePlan
  <2>1. PICK p \in Falling, guard \in Guards :
          /\ UNCHANGED <<pc, cache, atClose>> /\ device' = guard.after
          /\ \/ guard.denied = "nothing" /\ UNCHANGED denied
             \/ guard.denied # "nothing" /\ denied' = denied \cup {<<p, guard.denied>>}
    BY <1>3 DEF ReleasePlan, Deny
  <2>2. CASE guard.after = device
    BY <1>1, <2>1, <2>2 DEF DeviceInv
  <2>3. CASE guard.after # device
    <3>1. guard.after = Home /\ guard.denied = "restore" /\ device # Home
      BY <2>3 DEF Guards, Guard
    <3>2. p \in 1..Len(cache)
      BY <1>1, <2>1, <3>1, PlanNumbers DEF DeviceInv, Falling, PlanStages, Making, Ending
    <3> QED BY <1>1, <2>1, <3>1, <3>2 DEF DeviceInv
  <2> QED BY <2>2, <2>3
<1>4. CASE Store
  <2>1. UNCHANGED <<device, atClose, denied>> /\ pc = "store" /\ pc' = "next" /\ Len(cache') = Len(cache) + 1
    BY <1>4 DEF Store, Goto, downVars, PlansInv, BindInv
  <2> QED BY <1>1, <2>1, PlanNumbers DEF DeviceInv, Ending
<1>5. CASE /\ UNCHANGED <<cache, device, atClose>> /\ denied \subseteq denied'
           /\ (pc' \in Ending \/ pc \notin Ending)
  BY <1>1, <1>5 DEF DeviceInv
<1>6. CASE \/ Reuse \/ StartCreate \/ CreatePart \/ Query \/ FinishCreate \/ BeginTuning \/ Search
           \/ FinishSearch \/ BeginMeasuring \/ Measure \/ Select \/ Ready \/ RunMatmul
           \/ ReleasePreference \/ ReleaseEvents
  <2>1. UNCHANGED <<cache, device, atClose>> /\ denied \subseteq denied' /\ pc \notin Ending
    BY <1>6
    DEF Reuse, StartCreate, CreatePart, Query, FinishCreate, Deny, BeginTuning, Search, FinishSearch,
        BeginMeasuring, Measure, Select, Ready, RunMatmul, ReleasePreference, ReleaseEvents,
        downVars, Ending
  <2> QED BY <1>5, <2>1
<1>7. CASE Gone
  <2>1. UNCHANGED <<cache, device, atClose, denied>> /\ pc' \in Ending
    BY <1>7 DEF Gone, downVars, Goto, Ending
  <2> QED BY <1>5, <2>1
<1> QED BY <1>2, <1>3, <1>4, <1>6, <1>7 DEF PlansNext

LEMMA PlansStep ==
  ASSUME PlansAndModels, PlansInv, [PlansNext]_planVars
  PROVE  PlansInv'
<1>1. CASE UNCHANGED planVars
  BY <1>1
  DEF planVars, PlansInv, BindInv, TuneInv, RunInv, HoldInv, LeakInv, DeviceInv, LaunchesFit,
      BufferRows, Tuning, Slot, NewPlan, Building, MayHold, Complete, OwnedBy, Preferences
<1> QED
  BY <1>1, BindStep, TuneStep, RunStep, HoldStep, LeakStep, DeviceStep DEF PlansInv

LEMMA PlansInvServes ==
  ASSUME PlansAndModels, PlansInv
  PROVE  PlansServe
<1>1. TunesToTheFastest
  <2> SUFFICES ASSUME pc = "store", trial # NoTrial
               PROVE  \E i \in DOMAIN trial.measured :
                        /\ draft.plan = trial.measured[i][1]
                        /\ \A j \in DOMAIN trial.measured :
                             /\ trial.measured[j][2] >= trial.measured[i][2]
                             /\ j < i => trial.measured[j][2] > trial.measured[i][2]
    BY DEF TunesToTheFastest
  <2>1. trial.measured \in Seq(Fitting \X Time) /\ Time \subseteq Nat
    BY DEF PlansInv, TuneInv, TrialSet, PlansAndModels, PlansAssumption
  <2>2. PICK m \in Time : Wins(trial, draft.plan, m)
    BY DEF PlansInv, TuneInv
  <2>3. PICK i \in 1..Len(trial.measured) :
          /\ trial.measured[i] = <<draft.plan, m>>
          /\ \A j \in 1..Len(trial.measured) :
               m <= trial.measured[j][2] /\ (j < i => m < trial.measured[j][2])
    BY <2>2 DEF Wins
  <2> DEFINE q == trial.measured
  <2>4. DOMAIN q = 1..Len(q) /\ \A j \in 1..Len(q) : q[j] \in Fitting \X Time
    <3> DEFINE S == Fitting \X Time
    <3>1. q \in Seq(S)
      BY <2>1
    <3> HIDE DEF q, S
    <3>2. DOMAIN q = 1..Len(q) /\ \A j \in 1..Len(q) : q[j] \in S
      BY ONLY <3>1, SMT
    <3> QED BY <3>2 DEF S
  <2>5. /\ \A j \in 1..Len(q) : q[j][2] \in Nat
        /\ draft.plan = q[i][1] /\ m = q[i][2] /\ i \in 1..Len(q) /\ m \in Nat
        /\ \A j \in 1..Len(q) : m <= q[j][2] /\ (j < i => m < q[j][2])
    <3>1. \A j \in 1..Len(q) : m <= q[j][2] /\ (j < i => m < q[j][2])
      BY <2>3
    <3>2. q[i] = <<draft.plan, m>> /\ i \in 1..Len(q)
      BY <2>3
    <3> HIDE DEF q
    <3>3. \A j \in 1..Len(q) : q[j][2] \in Nat
      BY ONLY <2>1, <2>4
    <3>4. draft.plan = q[i][1] /\ m = q[i][2]
      BY ONLY <3>2
    <3>5. m \in Nat
      BY ONLY <3>2, <3>3, <3>4
    <3> QED BY <3>1, <3>2, <3>3, <3>4, <3>5
  <2> HIDE DEF q
  <2>6. /\ i \in DOMAIN q /\ draft.plan = q[i][1]
        /\ \A j \in DOMAIN q : q[j][2] >= q[i][2] /\ (j < i => q[j][2] > q[i][2])
    BY ONLY <2>4, <2>5
  <2> QED BY <2>6, Zenon DEF q
<1>2. LaunchesFit /\ RunsAreAccepted
  BY DEF PlansInv, RunInv, RunsAreAccepted
<1>3. NothingLeaks /\ CallerDeviceKept
  <2>1. DOMAIN cache = 1..Len(cache)
    BY DEF PlansInv, BindInv
  <2> QED
    BY <2>1 DEF PlansInv, HoldInv, LeakInv, DeviceInv, NothingLeaks, CallerDeviceKept
<1> QED BY <1>1, <1>2, <1>3 DEF PlansServe

\* For every model, set of buckets and set of algorithms, whatever the heuristic
\* answers and whichever call of the library fails: launches have the workspace
\* they need and rows there are, no run of a shared plan is refused, a tuned plan
\* is the fastest (cublaslt_matmul.cu, select_fastest), and when construction has
\* failed or the session is gone nothing is left but what was denied: the parts of
\* plans that could not select their device (~Impl), preferences that were not
\* destroyed.  The thread is on the device it was on, unless a plan was denied to
\* go back there.
THEOREM MatmulPlansServe ==
  ASSUME PlansAndModels PROVE PlansSpec => []PlansServe
<1>1. PlansInv => PlansServe
  BY PlansInvServes
<1>2. PlansInv /\ [PlansNext]_planVars => PlansInv'
  BY PlansStep
<1>3. PlansInit => PlansInv
  BY PlansStart
<1> QED
  BY <1>1, <1>2, <1>3, PTL DEF PlansSpec

-----------------------------------------------------------------------------
(* Delta schedules: the invariant *)

TunedStages == {"current", "download", "candidate", "compare", "time", "time_candidate", "decide"}

Schedule(bucket) == CandidateFor(bucket).schedule

\* What a run of a schedule leaves, from a state that was cleared.
CleanRun(schedule) == <<"run", schedule, TrialBucket, "zero">>

\* A diagnostic says what is true of its bucket, and names another schedule only if
\* that one is right.
Truthful(d) ==
  /\ d.dims = Shape /\ d.passed \in BOOLEAN
  /\ d.passed <=> layer.linear > 0 /\ Supported /\ d.bucket \in right
  /\ d.schedule # "current" => d.passed /\ d.schedule = Schedule(d.bucket)

\* Each step of a trial finds what the steps before it left of the same bucket.
TuningInv ==
  /\ layer.linear \in Nat
  /\ DOMAIN recurrent = 1..layer.linear
  /\ DOMAIN buffers = {"attention_out", "mixer_projected"}
  /\ DOMAIN downloaded = {"current", "candidate"}
  /\ DOMAIN verdict = {"passed", "current", "candidate"}
  /\ step \in TunedStages \cup {"next", "ready", "failed"}
  /\ step \in TunedStages => layer.linear # 0 /\ Supported
  /\ step = "download" =>
       recurrent[1] = CleanRun("current") /\ buffers.attention_out = CleanRun("current")
  /\ step \in {"candidate", "compare"} =>
       downloaded.current = <<CleanRun("current"), CleanRun("current")>>
  /\ step = "compare" =>
       /\ recurrent[1] = CleanRun(Schedule(TrialBucket))
       /\ buffers.mixer_projected = CleanRun(Schedule(TrialBucket))
  /\ step \in {"time", "time_candidate", "decide"} =>
       verdict.passed \in BOOLEAN /\ (verdict.passed <=> TrialBucket \in right)
  /\ step = "ready" => \A l \in DOMAIN recurrent : recurrent[l] = "zero"
  /\ \E S : diagnostics \in Seq(S)
  /\ \A i \in DOMAIN diagnostics : Truthful(diagnostics[i])

LEMMA TuningStart ==
  ASSUME LayersAssumption, TuningInit PROVE TuningInv
<1>1. layer.linear \in Nat
  BY DEF TuningInit, LayersAssumption
<1>2. diagnostics \in Seq({}) /\ DOMAIN diagnostics = {}
  BY DEF TuningInit
<1> QED
  BY <1>1, <1>2 DEF TuningInit, TuningInv, TunedStages, NoCopies, NoVerdict

\* A run of the bucket on trial starts from nothing.
LEMMA RunsAreClean ==
  ASSUME TuningInv, step \in TunedStages, NEW policy,
         NEW target \in {"attention_out", "mixer_projected"}, TrialRun(policy, target),
         UNCHANGED <<layer, diagnostics>>
  PROVE  /\ recurrent'[1] = CleanRun(policy.schedule)
         /\ buffers'[target] = CleanRun(policy.schedule)
         /\ DOMAIN recurrent' = 1..layer.linear
         /\ DOMAIN buffers' = {"attention_out", "mixer_projected"}
<1>1. 1 \in DOMAIN recurrent /\ DOMAIN recurrent = 1..layer.linear
  BY DEF TuningInv
<1>2. Cleared(policy)[1] = "zero" /\ DOMAIN Cleared(policy) = DOMAIN recurrent
  BY <1>1 DEF Cleared
<1>3. After(policy, Cleared(policy)[1]) = CleanRun(policy.schedule)
  BY <1>2 DEF After, CleanRun
<1>4. /\ recurrent' = [Cleared(policy) EXCEPT ![1] = CleanRun(policy.schedule)]
      /\ buffers' = [buffers EXCEPT ![target] = CleanRun(policy.schedule)]
  BY <1>3 DEF TrialRun
<1>5. DOMAIN buffers = {"attention_out", "mixer_projected"}
  BY DEF TuningInv
<1> HIDE DEF Cleared, CleanRun
<1> QED BY <1>1, <1>2, <1>4, <1>5

\* What a trial's steps share: the shape, the bucket and the diagnostics stay.
LEMMA TrialKeeps ==
  ASSUME TuningInv, UNCHANGED <<layer, right, diagnostics>>
  PROVE  /\ TrialBucket' = TrialBucket /\ Supported' = Supported
         /\ \A s : CleanRun(s)' = CleanRun(s)
         /\ layer'.linear \in Nat
         /\ (\E S : diagnostics \in Seq(S))'
         /\ (\A i \in DOMAIN diagnostics : Truthful(diagnostics[i]))'
<1>1. TrialBucket' = TrialBucket /\ Supported' = Supported
  BY DEF TrialBucket, Todo, Supported, Shape
<1>2. \A s : CleanRun(s)' = CleanRun(s)
  BY <1>1 DEF CleanRun
<1>3. \A d : Truthful(d)' <=> Truthful(d)
  BY <1>1 DEF Truthful, Shape
<1> QED BY <1>1, <1>2, <1>3 DEF TuningInv

LEMMA RunKept ==
  ASSUME TuningInv, RunCurrent \/ RunCandidate \/ TimeCurrent \/ TimeCandidate
  PROVE  TuningInv'
<1>1. /\ step \in TunedStages /\ UNCHANGED <<layer, right, diagnostics, downloaded>>
      /\ layer.linear # 0 /\ Supported
  BY DEF RunCurrent, RunCandidate, TimeCurrent, TimeCandidate, TunedStages, TuningInv
<1>2. /\ TrialBucket' = TrialBucket /\ Supported' = Supported
      /\ \A s : CleanRun(s)' = CleanRun(s)
      /\ layer'.linear \in Nat
      /\ (\E S : diagnostics \in Seq(S))'
      /\ (\A i \in DOMAIN diagnostics : Truthful(diagnostics[i]))'
  BY <1>1, TrialKeeps
<1>3. Current.schedule = "current"
  BY DEF Current
<1>4. CASE RunCurrent
  <2>1. /\ recurrent'[1] = CleanRun("current") /\ buffers'["attention_out"] = CleanRun("current")
        /\ DOMAIN recurrent' = 1..layer.linear
        /\ DOMAIN buffers' = {"attention_out", "mixer_projected"}
    BY <1>1, <1>3, <1>4, RunsAreClean DEF RunCurrent
  <2>2. step' = "download" /\ UNCHANGED verdict
    BY <1>4 DEF RunCurrent, Proceed
  <2> QED BY <1>1, <1>2, <2>1, <2>2 DEF TuningInv, TunedStages
<1>5. CASE RunCandidate
  <2> DEFINE s == Schedule(TrialBucket)
  <2>1. /\ recurrent'[1] = CleanRun(s) /\ buffers'["mixer_projected"] = CleanRun(s)
        /\ DOMAIN recurrent' = 1..layer.linear
        /\ DOMAIN buffers' = {"attention_out", "mixer_projected"}
    BY <1>1, <1>5, RunsAreClean DEF RunCandidate, Schedule
  <2>2. step = "candidate" /\ step' = "compare" /\ UNCHANGED verdict
    BY <1>5 DEF RunCandidate, Proceed
  <2>3. Schedule(TrialBucket)' = Schedule(TrialBucket)
    BY <1>2 DEF Schedule, CandidateFor
  <2> QED BY <1>1, <1>2, <2>1, <2>2, <2>3 DEF TuningInv, TunedStages
<1>6. CASE TimeCurrent \/ TimeCandidate
  <2>1. /\ DOMAIN recurrent' = 1..layer.linear
        /\ DOMAIN buffers' = {"attention_out", "mixer_projected"}
    BY <1>1, <1>6, RunsAreClean DEF TimeCurrent, TimeCandidate
  <2>2. /\ step \in {"time", "time_candidate"} /\ step' \in {"time_candidate", "decide"}
        /\ \E f \in {"current", "candidate"}, median \in Median :
             verdict' = [verdict EXCEPT ![f] = median]
    BY <1>6 DEF TimeCurrent, TimeCandidate, Proceed
  <2>3. DOMAIN verdict' = {"passed", "current", "candidate"} /\ verdict'.passed = verdict.passed
    BY <2>2 DEF TuningInv
  <2> QED BY <1>1, <1>2, <2>1, <2>2, <2>3 DEF TuningInv, TunedStages
<1> QED BY <1>4, <1>5, <1>6

LEMMA CompareKept ==
  ASSUME TuningInv, DownloadCurrent \/ Compare
  PROVE  TuningInv'
<1>1. /\ step \in TunedStages /\ UNCHANGED <<layer, right, diagnostics, recurrent, buffers>>
      /\ layer.linear # 0 /\ Supported
  BY DEF DownloadCurrent, Compare, TunedStages, TuningInv
<1>2. /\ TrialBucket' = TrialBucket /\ Supported' = Supported
      /\ \A s : CleanRun(s)' = CleanRun(s)
      /\ layer'.linear \in Nat
      /\ (\E S : diagnostics \in Seq(S))'
      /\ (\A i \in DOMAIN diagnostics : Truthful(diagnostics[i]))'
  BY <1>1, TrialKeeps
<1>3. CASE DownloadCurrent
  <2>1. /\ step = "download" /\ step' = "candidate" /\ UNCHANGED verdict
        /\ downloaded' = [downloaded EXCEPT !.current = <<buffers.attention_out, recurrent[1]>>]
    BY <1>3 DEF DownloadCurrent, Proceed
  <2>2. /\ DOMAIN downloaded' = {"current", "candidate"}
        /\ downloaded'.current = <<CleanRun("current"), CleanRun("current")>>
    BY <2>1 DEF TuningInv
  <2> QED BY <1>1, <1>2, <2>1, <2>2 DEF TuningInv, TunedStages
<1>4. CASE Compare
  <2> DEFINE candidate == <<buffers.mixer_projected, recurrent[1]>>
             a == CleanRun(Schedule(TrialBucket))
             b == CleanRun("current")
             near == \A i \in 1..2 : CloseEnough(candidate[i], downloaded.current[i])
  <2>1. /\ step = "compare" /\ step' = "time"
        /\ downloaded' = [downloaded EXCEPT !.candidate = candidate]
        /\ verdict' = [verdict EXCEPT !.passed = near]
    BY <1>4 DEF Compare, Proceed
  <2>2. candidate = <<a, a>> /\ downloaded.current = <<b, b>>
    BY <2>1 DEF TuningInv
  <2>3. CloseEnough(a, b) <=> TrialBucket \in right
    <3>1. Schedule(TrialBucket) # "current"
      BY DEF Schedule, CandidateFor, Current
    <3> QED BY <3>1 DEF CloseEnough, CleanRun
  <2>4. near <=> CloseEnough(a, b)
    <3> HIDE DEF candidate, a, b
    <3>1. candidate[1] = a /\ candidate[2] = a
          /\ downloaded.current[1] = b /\ downloaded.current[2] = b
      BY <2>2
    <3>2. 1..2 = {1, 2}
      OBVIOUS
    <3> QED BY <3>1, <3>2, Zenon
  <2>5. near \in BOOLEAN
    OBVIOUS
  <2> HIDE DEF near, candidate
  <2>6. /\ DOMAIN downloaded' = {"current", "candidate"}
        /\ DOMAIN verdict' = {"passed", "current", "candidate"}
        /\ verdict'.passed = near
    BY <2>1 DEF TuningInv
  <2>7. verdict'.passed \in BOOLEAN /\ (verdict'.passed <=> TrialBucket \in right)
    BY <2>3, <2>4, <2>5, <2>6, Zenon
  <2> QED BY <1>1, <1>2, <2>1, <2>6, <2>7 DEF TuningInv, TunedStages
<1> QED BY <1>3, <1>4

LEMMA BeginKept ==
  ASSUME TuningInv, BeginBucket \/ Decide
  PROVE  TuningInv'
<1>1. UNCHANGED <<layer, right, recurrent, buffers>>
  BY DEF BeginBucket, Decide
<1>2. CASE /\ step' = "current" /\ UNCHANGED <<verdict, downloaded, diagnostics>>
           /\ layer.linear # 0 /\ Supported
  <2>1. /\ Supported' = Supported /\ (\E S : diagnostics \in Seq(S))'
        /\ (\A i \in DOMAIN diagnostics : Truthful(diagnostics[i]))'
    BY <1>1, <1>2, TrialKeeps
  <2> QED BY <1>1, <1>2, <2>1 DEF TuningInv, TunedStages
<1>3. ASSUME NEW d, Truthful(d), Conclude(d)
      PROVE  TuningInv'
  <2>1. /\ diagnostics' = Append(diagnostics, d) /\ verdict' = NoVerdict
        /\ downloaded' = NoCopies /\ step' = "next"
    BY <1>3 DEF Conclude, Proceed
  <2>2. PICK S : diagnostics \in Seq(S)
    BY DEF TuningInv
  <2>3. /\ diagnostics' \in Seq(S \cup {d}) /\ DOMAIN diagnostics' = 1..(Len(diagnostics) + 1)
        /\ Len(diagnostics) \in Nat /\ DOMAIN diagnostics = 1..Len(diagnostics)
        /\ \A i \in 1..Len(diagnostics) : diagnostics'[i] = diagnostics[i]
        /\ diagnostics'[Len(diagnostics) + 1] = d
    <3> DEFINE T == S \cup {d}
    <3>1. diagnostics \in Seq(T) /\ d \in T
      BY <2>2
    <3> HIDE DEF T
    <3>2. /\ Append(diagnostics, d) \in Seq(T)
          /\ Len(Append(diagnostics, d)) = Len(diagnostics) + 1
          /\ Len(diagnostics) \in Nat /\ DOMAIN diagnostics = 1..Len(diagnostics)
          /\ \A i \in 1..Len(diagnostics) : Append(diagnostics, d)[i] = diagnostics[i]
          /\ Append(diagnostics, d)[Len(diagnostics) + 1] = d
      BY ONLY <3>1
    <3>3. DOMAIN Append(diagnostics, d) = 1..(Len(diagnostics) + 1)
      BY ONLY <3>2
    <3> QED BY <2>1, <3>2, <3>3 DEF T
  <2>4. \A e : Truthful(e)' <=> Truthful(e)
    BY <1>1 DEF Truthful, Shape, Supported
  <2>5. ASSUME NEW i \in DOMAIN diagnostics', NEW e, e = diagnostics'[i]
        PROVE  Truthful(e)
    <3>1. CASE i \in 1..Len(diagnostics)
      <4>1. Truthful(diagnostics[i])
        BY <2>3, <3>1 DEF TuningInv
      <4>2. e = diagnostics[i]
        BY <2>3, <2>5, <3>1
      <4> QED BY <4>1, <4>2
    <3>2. CASE i = Len(diagnostics) + 1
      <4>1. e = d
        BY <2>3, <2>5, <3>2
      <4> QED BY <1>3, <4>1
    <3> QED BY <2>3, <2>5, <3>1, <3>2
  <2>6. (\E T : diagnostics \in Seq(T))'
    BY <2>3
  <2>7. (\A i \in DOMAIN diagnostics : Truthful(diagnostics[i]))'
    BY <2>4, <2>5
  <2> QED
    BY <1>1, <2>1, <2>6, <2>7 DEF TuningInv, TunedStages, NoCopies, NoVerdict
<1>4. CASE BeginBucket
  <2>1. CASE layer.linear = 0 \/ ~Supported
    <3>1. Conclude(Kept(FALSE))
      BY <1>4, <2>1 DEF BeginBucket
    <3>2. Truthful(Kept(FALSE))
      <4>1. ~(layer.linear > 0 /\ Supported)
        BY <2>1 DEF TuningInv
      <4> QED BY <4>1 DEF Kept, Truthful
    <3> QED BY <1>3, <3>1, <3>2
  <2>2. CASE layer.linear # 0 /\ Supported
    BY <1>2, <1>4, <2>2 DEF BeginBucket, Proceed
  <2> QED BY <2>1, <2>2
<1>5. CASE Decide
  <2>1. /\ layer.linear > 0 /\ Supported /\ verdict.passed \in BOOLEAN
        /\ verdict.passed <=> TrialBucket \in right
    BY <1>5 DEF Decide, TuningInv, TunedStages
  <2>2. CASE verdict.passed /\ verdict.candidate * 100 < verdict.current * SpeedupPercent
    <3> DEFINE d == [Kept(TRUE) EXCEPT !.schedule = CandidateFor(TrialBucket).schedule]
    <3>1. Conclude(d)
      BY <1>5, <2>2 DEF Decide
    <3>2. /\ d.bucket = TrialBucket /\ d.dims = Shape /\ d.passed = TRUE
          /\ d.schedule = Schedule(TrialBucket)
      <4> DEFINE b == TrialBucket
                 w == Shape
                 s == Schedule(b)
      <4>1. d = [[bucket |-> b, dims |-> w, schedule |-> "current", passed |-> TRUE]
                  EXCEPT !.schedule = s]
        BY DEF Kept, Schedule
      <4> HIDE DEF d, b, w, s
      <4>2. d.bucket = b /\ d.dims = w /\ d.passed = TRUE /\ d.schedule = s
        BY ONLY <4>1
      <4> QED BY <4>2 DEF b, w, s
    <3>3. Truthful(d)
      <4> HIDE DEF d
      <4> QED BY <2>1, <2>2, <3>2 DEF Truthful
    <3> QED BY <1>3, <3>1, <3>3
  <2>3. CASE ~(verdict.passed /\ verdict.candidate * 100 < verdict.current * SpeedupPercent)
    <3>1. Conclude(Kept(verdict.passed))
      BY <1>5, <2>3 DEF Decide
    <3>2. Truthful(Kept(verdict.passed))
      <4> DEFINE p == verdict.passed
                 d == Kept(p)
      <4>1. p \in BOOLEAN /\ (p <=> layer.linear > 0 /\ Supported /\ TrialBucket \in right)
        BY <2>1
      <4>2. d.dims = Shape /\ d.passed = p /\ d.bucket = TrialBucket /\ d.schedule = "current"
        BY DEF Kept
      <4> HIDE DEF p, d
      <4>3. Truthful(d)
        BY <4>1, <4>2, Zenon DEF Truthful
      <4> QED BY <4>3 DEF p, d
    <3> QED BY <1>3, <3>1, <3>2
  <2> QED BY <2>2, <2>3
<1> QED BY <1>4, <1>5

LEMMA FinishKept ==
  ASSUME TuningInv, Finish \/ Fail \/ UNCHANGED tuningVars
  PROVE  TuningInv'
<1>1. UNCHANGED <<layer, right, diagnostics, buffers, downloaded, verdict>>
  BY DEF Finish, Fail, tuningVars
<1>2. /\ TrialBucket' = TrialBucket /\ Supported' = Supported
      /\ \A s : CleanRun(s)' = CleanRun(s)
      /\ layer'.linear \in Nat
      /\ (\E S : diagnostics \in Seq(S))'
      /\ (\A i \in DOMAIN diagnostics : Truthful(diagnostics[i]))'
  BY <1>1, TrialKeeps
<1>3. CASE Finish
  <2>1. step' = "ready" /\ recurrent' = [l \in DOMAIN recurrent |-> "zero"]
    BY <1>3 DEF Finish, Proceed
  <2> QED BY <1>1, <1>2, <2>1 DEF TuningInv, TunedStages
<1>4. CASE Fail
  <2>1. step' = "failed" /\ UNCHANGED recurrent
    BY <1>4 DEF Fail, Proceed
  <2> QED BY <1>1, <1>2, <2>1 DEF TuningInv, TunedStages
<1>5. CASE UNCHANGED tuningVars
  <2>1. UNCHANGED <<step, recurrent>>
    BY <1>5 DEF tuningVars
  <2>2. Schedule(TrialBucket)' = Schedule(TrialBucket)
    BY <1>2 DEF Schedule, CandidateFor
  <2> QED BY <1>1, <1>2, <2>1, <2>2 DEF TuningInv, TunedStages
<1> QED BY <1>3, <1>4, <1>5

LEMMA TuningStep ==
  ASSUME TuningInv, [TuningNext]_tuningVars
  PROVE  TuningInv'
BY RunKept, CompareKept, BeginKept, FinishKept DEF TuningNext

\* A chunk that is not given the current schedule has a diagnostic of its size.
LEMMA LookupFacts ==
  ASSUME TuningInv, NEW n, PolicyFor(n) # Current
  PROVE  \E i \in DOMAIN diagnostics :
           /\ diagnostics[i].bucket = n
           /\ PolicyFor(n) = [Current EXCEPT !.schedule = diagnostics[i].schedule]
<1> DEFINE known == {i \in DOMAIN diagnostics :
                       diagnostics[i].bucket = n /\ diagnostics[i].dims = Shape}
           first == CHOOSE i \in known : \A j \in known : i <= j
<1>1. known # {} /\ PolicyFor(n) = [Current EXCEPT !.schedule = diagnostics[first].schedule]
  BY DEF PolicyFor
<1>2. known \in SUBSET Nat
  <2>1. PICK S : diagnostics \in Seq(S)
    BY DEF TuningInv
  <2> QED BY <2>1
<1>3. \E i \in known : \A j \in known : i <= j
  <2> HIDE DEF known
  <2> QED BY <1>1, <1>2, LeastNatural
<1>4. first \in known
  <2> HIDE DEF known
  <2> QED BY <1>3
<1> QED BY <1>1, <1>4

LEMMA TuningInvServes ==
  ASSUME TuningInv PROVE TunedSchedulesServe
<1>1. ASSUME NEW n, PolicyFor(n) # Current
      PROVE  Allowed(PolicyFor(n), Shape, n) /\ n \in right
  <2>1. PICK i \in DOMAIN diagnostics :
          /\ diagnostics[i].bucket = n
          /\ PolicyFor(n) = [Current EXCEPT !.schedule = diagnostics[i].schedule]
    BY <1>1, LookupFacts
  <2> DEFINE d == diagnostics[i]
  <2>2. Truthful(d) /\ d.bucket = n
    BY <2>1 DEF TuningInv
  <2>3. d.schedule # "current"
    <3>1. CASE d.schedule = "current"
      BY <1>1, <2>1, <3>1 DEF Current
    <3> QED BY <3>1
  <2> HIDE DEF d
  <2>4. d.schedule = Schedule(n) /\ Supported /\ n \in right
    BY <2>2, <2>3, Zenon DEF Truthful
  <2>5. Schedule(n) = "decode_sm120" => n = 1
    BY DEF Schedule, CandidateFor, Current
  <2>6. PolicyFor(n).schedule = Schedule(n) /\ PolicyFor(n).warps = 4 /\ ~PolicyFor(n).transposed
    BY <2>1, <2>4 DEF Current, d
  <2> QED BY <2>4, <2>5, <2>6 DEF Allowed, Supported, Registers
<1>2. ASSUME NEW n PROVE Allowed(Current, Shape, n)
  BY DEF Allowed, Registers, Current
<1>3. ChunksAreAllowed
  <2>1. \A n : Allowed(PolicyFor(n), Shape, n)
    <3> SUFFICES ASSUME NEW n PROVE Allowed(PolicyFor(n), Shape, n)
      OBVIOUS
    <3>1. CASE PolicyFor(n) = Current
      BY <1>2, <3>1
    <3> QED BY <1>1, <3>1
  <2> QED BY <2>1 DEF ChunksAreAllowed
<1>4. ChunksAreRight
  BY <1>1 DEF ChunksAreRight
<1>5. VerdictIsTrue
  BY Zenon DEF TuningInv, VerdictIsTrue, Truthful
<1>6. StartsClean
  BY DEF TuningInv, StartsClean
<1> QED BY <1>3, <1>4, <1>5, <1>6 DEF TunedSchedulesServe

\* For every set of buckets, contexts, dimensions and layers, whichever candidates
\* are right and whatever the medians: a chunk gets a schedule that its kernels take
\* and that computes what the current one does, a verdict is about its own candidate
\* (qwen35_executor.cu, tune_delta_schedule), and the session's state is clean.
THEOREM TuningServes ==
  ASSUME LayersAssumption PROVE TuningSpec => []TunedSchedulesServe
<1>1. TuningInv => TunedSchedulesServe
  BY TuningInvServes
<1>2. TuningInv /\ [TuningNext]_tuningVars => TuningInv'
  BY TuningStep
<1>3. TuningInit => TuningInv
  BY TuningStart
<1> QED
  BY <1>1, <1>2, <1>3, PTL DEF TuningSpec
===============================================================================
