-------------------------- MODULE TensorValidation --------------------------
(***************************************************************************)
(* The check of a tensor descriptor that crosses the C ABI: how many bytes *)
(* its shape and strides reach, added up dimension by dimension in words   *)
(* that could wrap, against the bytes its owner says are there.            *)
(***************************************************************************)
EXTENDS Naturals, Integers, Sequences

CONSTANTS
  WordMax,    \* the largest size_t; int64 goes to half of it
  Dtype,      \* the dtypes a caller may write, known or not
  ElementSize,\* element_size of those that are stored element by element
  Extent,     \* what a caller writes into shape and strides
  ByteSize,   \* and into byte_size
  RankValue,  \* and into rank
  Dims        \* entries of the four of shape and strides that differ

ASSUME SizeAssumption ==
  /\ WordMax \in Nat
  /\ Extent \subseteq Int /\ ByteSize \subseteq 0..WordMax /\ RankValue \subseteq Nat
  /\ Dims \in 1..4 /\ RankValue \cap 1..4 \subseteq 1..Dims
  /\ DOMAIN ElementSize \subseteq Dtype
  /\ \A d \in DOMAIN ElementSize : ElementSize[d] \in 1..WordMax

VARIABLES desc, dim, required, verdict

checkVars == <<desc, dim, required, verdict>>

\* The formats of tensor.h: quantized blocks have no size of an element.
Known == DOMAIN ElementSize \cup {"q4_k"}

CheckInit ==
  /\ desc \in [rank : RankValue, dtype : Dtype, quant : {"none", "q4_k"},
               shape : [1..Dims -> Extent], strides : [1..Dims -> Extent],
               bytes : ByteSize, data : BOOLEAN, scales : BOOLEAN]
  /\ dim = 0 /\ required = 0 /\ verdict = "open"

-----------------------------------------------------------------------------

\* Words wrap.
Word(n) == n % (WordMax + 1)

\* Mutation: the product is taken as it comes.
MutProductFits(i) == TRUE
\* Mutation: so is the sum.
MutSumFits(i) == TRUE
\* Mutation: a dimension reaches one stride too far.
MutLast(i) == desc.shape[i]

\* The last index of a dimension.
Last(i) == desc.shape[i] - 1
DimBytes(i) == Word(Last(i) * desc.strides[i])

\* checked_mul and checked_add throw for what no word can hold.
ProductFits(i) == Last(i) # 0 => desc.strides[i] <= WordMax \div Last(i)
SumFits(i) == DimBytes(i) <= WordMax - required

Fits(i) == desc.strides[i] > 0 /\ ProductFits(i) /\ SumFits(i)

\* validate_common_metadata.
Common ==
  /\ desc.data /\ desc.rank \in 1..4 /\ desc.dtype \in Known
  /\ \A i \in 1..desc.rank : desc.shape[i] > 0

Conclude(v) == verdict' = v /\ UNCHANGED <<desc, dim, required>>

Quantized ==
  /\ dim = 0 /\ verdict = "open" /\ Common /\ desc.quant # "none"
  /\ Conclude(IF desc.scales /\ desc.bytes # 0 /\ desc.dtype = "q4_k"
              THEN "accepted" ELSE "refused")

StartUnquantized ==
  /\ dim = 0 /\ verdict = "open" /\ Common /\ desc.quant = "none"
  /\ desc.dtype \in DOMAIN ElementSize
  /\ required' = ElementSize[desc.dtype]
  /\ dim' = 1
  /\ UNCHANGED <<desc, verdict>>

NextDimension ==
  /\ dim \in 1..desc.rank /\ verdict = "open"
  /\ Fits(dim)
  /\ required' = Word(required + DimBytes(dim))
  /\ dim' = dim + 1
  /\ UNCHANGED <<desc, verdict>>

Throw ==
  /\ verdict = "open"
  /\ \/ dim = 0 /\ ~Common
     \/ dim = 0 /\ desc.quant = "none" /\ desc.dtype \notin DOMAIN ElementSize
     \/ dim \in 1..desc.rank /\ ~Fits(dim)
  /\ Conclude("refused")

CompareBytes ==
  /\ dim = desc.rank + 1 /\ verdict = "open"
  /\ Conclude(IF desc.bytes < required THEN "refused" ELSE "accepted")

CheckNext == Quantized \/ StartUnquantized \/ NextDimension \/ Throw \/ CompareBytes

CheckSpec == CheckInit /\ [][CheckNext]_checkVars

-----------------------------------------------------------------------------

\* How far the first k dimensions reach, in numbers that do not wrap.
Term(i) == IF i <= desc.rank THEN (desc.shape[i] - 1) * desc.strides[i] ELSE 0
Reach(k) ==
  ElementSize[desc.dtype] + (IF k >= 1 THEN Term(1) ELSE 0)
    + (IF k >= 2 THEN Term(2) ELSE 0) + (IF k >= 3 THEN Term(3) ELSE 0)
    + (IF k >= 4 THEN Term(4) ELSE 0)

\* No element of a tensor that is accepted lies behind the bytes it was given,
\* however large its shape and strides (validate_unquantized_tensor).
ElementsStayInside ==
  verdict = "accepted" /\ desc.quant = "none" => Reach(desc.rank) <= desc.bytes

\* And nothing is refused that would have fitted.
FittingIsAccepted ==
  /\ verdict = "refused" /\ Common
  /\ desc.quant = "none" /\ desc.dtype \in DOMAIN ElementSize
  /\ \A i \in 1..desc.rank : desc.strides[i] > 0
  => Reach(desc.rank) > desc.bytes

\* The check is exact: words that wrap neither let a tensor through that
\* reaches behind its bytes nor stop one that fits.
AcceptsExactly == ElementsStayInside /\ FittingIsAccepted
=============================================================================
