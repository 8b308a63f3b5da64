------------------------------ MODULE GgufReader ------------------------------
(***************************************************************************)
(* read_catalog: the table of a GGUF file, of which nothing is known but   *)
(* its size.  The file is chosen as it is read: a step reads one entry,    *)
(* whose fields may have any value, and moves on by the bytes they take.   *)
(* Whatever is wrong is a ParseError, "refused" here.                      *)
(*                                                                         *)
(* Sizes and offsets are words of the file and of the machine; a checked   *)
(* operation that does not fit is NoWord.  Strings are named, not spelled. *)
(***************************************************************************)
EXTENDS Naturals, Sequences, FiniteSets, Functions

CONSTANTS
  WordMax,            \* the largest uint64 and size_t
  HalfMax,            \* the largest uint32
  FileSize,           \* sizes of files
  Count,              \* values a count or a length may have
  Dimension, Offset,  \* values a dimension and an offset may have
  Alignment,          \* values general.alignment may have
  ValidKey,           \* metadata keys that valid_metadata_key accepts
  Name,               \* names of tensors
  TextBytes,          \* how long a key or a name is
  ElementStorage,     \* sizeof(MetadataValue)
  MaxMetadata, MaxTensors, MaxString, MaxArray, MaxCatalog, MaxRank \* ReaderLimits

AlignmentKey == "general.alignment"

ASSUME WordsAssumption ==
  /\ WordMax \in Nat /\ HalfMax \in 32..WordMax
  /\ FileSize \subseteq 1..WordMax
  /\ Count \subseteq 0..WordMax /\ Dimension \subseteq 0..WordMax
  /\ Offset \subseteq 0..WordMax /\ Alignment \subseteq 0..WordMax
ASSUME TextAssumption ==
  /\ \A t \in ValidKey \cup Name : TextBytes[t] \in Nat /\ TextBytes[t] <= MaxString
ASSUME LimitAssumption ==
  /\ ElementStorage \in Nat /\ MaxString \in Nat /\ MaxArray \in Nat
  /\ MaxMetadata \in Nat /\ MaxTensors \in Nat /\ MaxRank \in Nat
  /\ MaxCatalog \in 0..WordMax

VARIABLES
  size,        \* bytes of the file
  position,    \* how far it has been read
  charged,     \* catalog_bytes_
  phase,       \* what is read next, or how it ended
  toRead,      \* metadata entries, elements of an array and tensors to come
  keys,        \* keys seen
  alignment,   \* of the tensor data; NoWord if it cannot be one
  tensors,     \* descriptors read: name, offset and byte_size
  data         \* tensor_data_offset

vars == <<size, position, charged, phase, toRead, keys, alignment, tensors, data>>

-----------------------------------------------------------------------------
(* Words *)

Word == 0..WordMax
NoWord == WordMax + 1

\* checked_add and checked_multiply.
Add(a, b) == IF a # NoWord /\ b # NoWord /\ b <= WordMax - a THEN a + b ELSE NoWord
Multiply(a, b) ==
  IF a # NoWord /\ b # NoWord /\ (a = 0 \/ b <= WordMax \div a) THEN a * b ELSE NoWord

\* align_up
AlignUp(n, a) == IF n % a = 0 THEN n ELSE Add(n, a - (n % a))

\* Reader::require
Truncated(bytes) == bytes > size - position

\* charge_catalog_bytes
OverCharged(bytes) == Add(charged, bytes) > MaxCatalog

Refuse ==
  /\ phase' = "refused"
  /\ UNCHANGED <<size, position, charged, toRead, keys, alignment, tensors, data>>

\* An entry that is all there moves the reader on and is charged.
Take(bytes, storage) ==
  /\ ~Truncated(bytes) /\ ~OverCharged(storage)
  /\ position' = position + bytes
  /\ charged' = charged + storage

NotTaken(bytes, storage) == (Truncated(bytes) \/ OverCharged(storage)) /\ Refuse

Init ==
  /\ size \in FileSize
  /\ position = 0
  /\ charged = 0
  /\ phase = "header"
  /\ toRead = [metadata |-> 0, elements |-> 0, width |-> 0, tensors |-> 0]
  /\ keys = {}
  /\ alignment = 32
  /\ tensors = <<>>
  /\ data = 0

-----------------------------------------------------------------------------
(* Header and metadata *)

\* Magic, version and the two counts.
ReadHeader(metadata, count) ==
  /\ phase = "header"
  /\ \/ /\ metadata <= MaxMetadata /\ count <= MaxTensors
        /\ Take(24, 0)
        /\ phase' = "metadata"
        /\ toRead' = [toRead EXCEPT !.metadata = metadata, !.tensors = count]
        /\ UNCHANGED <<size, keys, alignment, tensors, data>>
     \/ NotTaken(24, 0)
     \/ (metadata > MaxMetadata \/ count > MaxTensors) /\ Refuse

BadHeader == phase = "header" /\ Refuse

\* catalog_alignment, of an unsigned value.
UsableAlignment(value) == value # 0 /\ value % 8 = 0 /\ value <= HalfMax

\* A key, its type and its value; an array's elements are to follow.  A key
\* that was there before, or is not one, is refused.  The value of the
\* alignment is looked at when all metadata has been read.
Entry(key, bytes, storage, meaning, elements, width) ==
  /\ phase = "metadata"
  /\ toRead.elements = 0 /\ toRead.metadata > 0
  /\ key \in ValidKey \ keys
  /\ \/ /\ Take(8 + TextBytes[key] + 4 + bytes, Add(TextBytes[key], storage))
        /\ keys' = keys \cup {key}
        /\ alignment' = IF key = AlignmentKey THEN meaning ELSE alignment
        /\ toRead' = [toRead EXCEPT !.metadata = @ - 1, !.elements = elements,
                                    !.width = width]
        /\ UNCHANGED <<size, phase, tensors, data>>
     \/ NotTaken(8 + TextBytes[key] + 4 + bytes, Add(TextBytes[key], storage))

\* Not a key or one there was, a type that is not known, a truth value that is
\* none, an array of arrays, a string or an array beyond its limit.
BadMetadata == phase = "metadata" /\ toRead.metadata + toRead.elements > 0 /\ Refuse

ReadScalar(key, width) == Entry(key, width, width, NoWord, 0, 0)

\* The alignment as an unsigned integer of either width.
ReadAlignment(value, width) ==
  /\ width = 4 => value <= HalfMax
  /\ Entry(AlignmentKey, width, width,
           IF UsableAlignment(value) THEN value ELSE NoWord, 0, 0)

ReadText(key, length) == length <= MaxString /\ Entry(key, 8 + length, length, NoWord, 0, 0)

\* An array is charged for as a whole before there is room made for it.
ReadArray(key, length, width) ==
  /\ length <= MaxArray
  /\ Entry(key, 4 + 8, Multiply(length, ElementStorage), NoWord, length, width)

Element(bytes, storage) ==
  /\ phase = "metadata" /\ toRead.elements > 0
  /\ \/ /\ Take(bytes, storage)
        /\ toRead' = [toRead EXCEPT !.elements = @ - 1]
        /\ UNCHANGED <<size, phase, keys, alignment, tensors, data>>
     \/ NotTaken(bytes, storage)

\* An element is charged once more; one without a width is a string.
ReadElement == toRead.width > 0 /\ Element(toRead.width, toRead.width)

ReadTextElement(length) ==
  /\ toRead.width = 0 /\ length <= MaxString
  /\ Element(8 + length, length)

EndMetadata ==
  /\ phase = "metadata"
  /\ toRead.metadata = 0 /\ toRead.elements = 0
  /\ phase' = IF alignment = NoWord THEN "refused" ELSE "tensors"
  /\ UNCHANGED <<size, position, charged, toRead, keys, alignment, tensors, data>>

-----------------------------------------------------------------------------
(* Tensors *)

\* The product of the dimensions, none of which is zero.
Elements(dimensions) ==
  LET product[k \in 0..Len(dimensions)] ==
        IF k = 0 THEN 1 ELSE Multiply(product[k - 1], dimensions[k])
  IN product[Len(dimensions)]

\* tensor_byte_size
ByteSize(dimensions, element) ==
  IF 0 \in Range(dimensions) THEN NoWord
  ELSE Multiply(Elements(dimensions), element)

\* A descriptor: name, rank, dimensions, type and offset.  An element has the
\* bytes of its type.
ReadTensor(name, dimensions, element, offset) ==
  LET rank == Len(dimensions)
      bytes == 8 + TextBytes[name] + 4 + 8 * rank + 4 + 8
      storage == TextBytes[name] + 8 * rank
      byteSize == ByteSize(dimensions, element)
  IN /\ phase = "tensors" /\ Len(tensors) < toRead.tensors
     /\ \A i \in 1..Len(tensors) : tensors[i].name # name
     /\ rank \in 1..MaxRank
     /\ \/ /\ byteSize \in Word
           /\ Take(bytes, storage)
           /\ tensors' = Append(tensors, [name |-> name, offset |-> offset,
                                         bytes |-> byteSize])
           /\ UNCHANGED <<size, phase, toRead, keys, alignment, data>>
        \/ byteSize \notin Word /\ Refuse
        \/ NotTaken(bytes, storage)

\* A name there was, a rank or a type there is not.
BadTensor == phase = "tensors" /\ Len(tensors) < toRead.tensors /\ Refuse

EndTensors ==
  /\ phase = "tensors" /\ Len(tensors) = toRead.tensors
  /\ data' = AlignUp(position, alignment)
  /\ phase' = IF data' > size THEN "refused" ELSE "spans"
  /\ UNCHANGED <<size, position, charged, toRead, keys, alignment, tensors>>

-----------------------------------------------------------------------------
(* Spans *)

Begin(t) == Add(data, t.offset)
End(t) == Add(Begin(t), t.bytes)

\* Mutation: only where a tensor begins is compared with the file.
MutInsideFile(t) == t.offset % alignment = 0 /\ Begin(t) <= size

InsideFile(t) == t.offset % alignment = 0 /\ End(t) # NoWord /\ End(t) <= size

\* std::sort by begin: any order that is one, for it need not be stable.
Orders ==
  {p \in [1..Len(tensors) -> 1..Len(tensors)] :
     /\ \A i \in 1..Len(tensors) : \E j \in 1..Len(tensors) : p[j] = i
     /\ \A i, j \in 1..Len(tensors) : i < j => Begin(tensors[p[i]]) <= Begin(tensors[p[j]])}

\* Mutation: two spans that begin at the same byte pass.
MutApart(p) ==
  \A i \in 2..Len(tensors) :
    \/ Begin(tensors[p[i]]) >= End(tensors[p[i - 1]])
    \/ Begin(tensors[p[i]]) = Begin(tensors[p[i - 1]])

\* Neighbours in that order are compared.
Apart(p) ==
  \A i \in 2..Len(tensors) : Begin(tensors[p[i]]) >= End(tensors[p[i - 1]])

CheckSpans ==
  /\ phase = "spans"
  /\ \/ /\ \A i \in 1..Len(tensors) : InsideFile(tensors[i])
        /\ \E p \in Orders : phase' = IF Apart(p) THEN "accepted" ELSE "refused"
     \/ /\ \E i \in 1..Len(tensors) : ~InsideFile(tensors[i])
        /\ phase' = "refused"
  /\ UNCHANGED <<size, position, charged, toRead, keys, alignment, tensors, data>>

Width == {1, 2, 4, 8}

ReadMetadata ==
  \/ \E key \in ValidKey :
       \/ \E width \in Width : ReadScalar(key, width)
       \/ \E length \in Count : ReadText(key, length)
       \/ \E length \in Count, width \in Width \cup {0} : ReadArray(key, length, width)
  \/ \E value \in Alignment, width \in {4, 8} : ReadAlignment(value, width)
  \/ ReadElement
  \/ \E length \in Count : ReadTextElement(length)
  \/ BadMetadata

ReadTensors ==
  \/ /\ phase = "tensors"
     /\ \E name \in Name, element \in {2, 4}, offset \in Offset, rank \in 1..MaxRank :
          \E dimensions \in [1..rank -> Dimension] :
            ReadTensor(name, dimensions, element, offset)
  \/ BadTensor

Next ==
  \/ \E metadata, count \in Count : ReadHeader(metadata, count)
  \/ BadHeader
  \/ ReadMetadata
  \/ EndMetadata
  \/ ReadTensors
  \/ EndTensors
  \/ CheckSpans

Spec == Init /\ [][Next]_vars

-----------------------------------------------------------------------------
(* After the catalog *)

\* tensor_payload computes where the bytes are once more, for the upload.
Payload(t) == IF End(t) # NoWord /\ End(t) <= size THEN Begin(t) ELSE NoWord

-----------------------------------------------------------------------------
(* Properties *)

Phases == {"header", "metadata", "tensors", "spans", "accepted", "refused"}

TypeOK ==
  /\ size \in FileSize /\ position \in Nat /\ charged \in Nat
  /\ phase \in Phases
  /\ toRead \in [metadata : Nat, elements : Nat, width : Nat, tensors : Nat]
  /\ keys \subseteq ValidKey
  /\ alignment \in 1..HalfMax \cup {NoWord}
  /\ tensors \in Seq([name : Name, offset : 0..WordMax, bytes : 0..WordMax])
  /\ data \in Nat

\* The reader stays in the file, so what is left of it can be subtracted; the
\* catalog stays under its limit; what could not be an alignment is never
\* divided by; tensor data comes behind the table and inside the file.
ReaderInv ==
  /\ TypeOK
  /\ position <= size
  /\ charged <= MaxCatalog
  /\ phase \in {"tensors", "spans", "accepted"} => alignment \in 1..HalfMax
  /\ phase \in {"spans", "accepted"} => position <= data /\ data <= size

\* Every tensor of an accepted catalog lies in the file behind the table, at a
\* multiple of the alignment from where tensor data begins.
TensorsInFile ==
  phase = "accepted" =>
    \A i \in 1..Len(tensors) :
      /\ position <= data + tensors[i].offset
      /\ data + tensors[i].offset + tensors[i].bytes <= size
      /\ tensors[i].offset % alignment = 0

\* No two tensors of an accepted catalog share a byte, though only neighbours
\* were compared.
TensorsDisjoint ==
  phase = "accepted" =>
    \A i, j \in 1..Len(tensors) :
      i # j =>
        \/ tensors[i].offset + tensors[i].bytes <= tensors[j].offset
        \/ tensors[j].offset + tensors[j].bytes <= tensors[i].offset

\* The upload is never refused the payload of a tensor whose catalog was
\* accepted, and it is never empty.
PayloadsAreThere ==
  phase = "accepted" =>
    \A i \in 1..Len(tensors) :
      /\ tensors[i].bytes > 0
      /\ Payload(tensors[i]) = data + tensors[i].offset
=============================================================================
