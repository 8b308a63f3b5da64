--------------------------- MODULE TokenizerSpec ---------------------------
(***************************************************************************)
(* The tokenizer's metadata on its way from the loader, in C++, to the     *)
(* tokenizer, in Rust: one writes a buffer of bytes, the other reads it    *)
(* back, each by its own idea of the format.  The buffer passes through    *)
(* the C ABI as version and bytes; a caller may also make one up, which    *)
(* here is one of the loader's that was cut short or has grown.            *)
(*                                                                         *)
(* A value is [type, value]; the value of a scalar and of a string is the  *)
(* bytes it is written as, that of an array has an element type and a      *)
(* sequence of such values.                                                *)
(***************************************************************************)
EXTENDS Integers, Sequences, FiniteSets, SequencesExt

CONSTANTS
  Catalog,      \* metadata of models: sets of entries [key, value]
  Prefix,       \* "tokenizer.", as bytes
  TokensKey, MergesKey, TypesKey, \* the arrays the tokenizer wants to see
  Version       \* spec.version

KeyAssumption ==
  \A k \in {TokensKey, MergesKey, TypesKey} : IsPrefix(Prefix, k)

VARIABLES
  entries,   \* catalog.metadata in the order an unordered_map gives it out
  bytes,     \* tokenizer_spec_bytes, then what from_spec gets
  version, damage,
  pc, at,    \* Reader: what it reads next and its offset
  toRead, previous,
  metadata   \* Metadata.entries: key -> what is kept of the value

vars == <<entries, bytes, version, damage, pc, at, toRead, previous, metadata>>

-----------------------------------------------------------------------------
(* The writer, model.cpp *)

MetadataType == <<"uint8", "int8", "uint16", "int16", "uint32", "int32", "float32",
                  "boolean", "string", "array", "uint64", "int64", "float64">>
TypeId(type) == (CHOOSE i \in DOMAIN MetadataType : MetadataType[i] = type) - 1

\* append_integer
Little(n, width) == [i \in 1..width |-> (n \div 256^(i - 1)) % 256]
U32Bytes(n) == Little(n, 4)
U64Bytes(n) == Little(n, 4) \o <<0, 0, 0, 0>>

AppendBytes(text) == U32Bytes(Len(text)) \o text

AppendScalar(type, value) == IF type = "string" THEN AppendBytes(value) ELSE value

AppendValue(v) ==
  U32Bytes(TypeId(v.type)) \o
    IF v.type # "array" THEN AppendScalar(v.type, v.value)
    ELSE U32Bytes(TypeId(v.element)) \o U64Bytes(Len(v.values)) \o
           FlattenSeq([i \in DOMAIN v.values |-> AppendScalar(v.element, v.values[i])])

\* Texts have the order of their bytes.
TextBelow(a, b) ==
  \/ IsStrictPrefix(a, b)
  \/ \E i \in DOMAIN a \cap DOMAIN b :
       a[i] < b[i] /\ SubSeq(a, 1, i - 1) = SubSeq(b, 1, i - 1)

\* Mutation: entries are written as the map gives them out.
MutSorted(listed) == listed

Sorted(listed) == SortSeq(listed, LAMBDA a, b : TextBelow(a.key, b.key))

Selected == SelectSeq(entries, LAMBDA e : IsPrefix(Prefix, e.key))

Nested(e) == e.value.type = "array" /\ e.value.element = "array"

Magic == <<82, 73, 70, 84, 79, 75, 0>>

SerializeTokenizerSpec ==
  /\ pc = "serialize"
  /\ IF Selected = <<>> \/ \E i \in DOMAIN Selected : Nested(Selected[i])
     THEN pc' = "not_loaded" /\ UNCHANGED bytes
     ELSE /\ pc' = "deliver"
          /\ bytes' = Magic \o <<1>> \o U32Bytes(Len(Selected)) \o
               FlattenSeq([i \in DOMAIN Selected |->
                 AppendBytes(Sorted(Selected)[i].key) \o
                 AppendValue(Sorted(Selected)[i].value)])
  /\ UNCHANGED <<entries, version, damage, at, toRead, previous, metadata>>

\* What a caller hands to Tokenizer::from_spec.
Deliver ==
  /\ pc = "deliver"
  /\ \/ damage' = "none" /\ UNCHANGED bytes
     \/ damage' = "cut" /\ \E n \in 0..(Len(bytes) - 1) : bytes' = SubSeq(bytes, 1, n)
     \/ damage' = "grown" /\ bytes' = Append(bytes, 0)
  /\ version' \in Version
  /\ pc' = "header"
  /\ UNCHANGED <<entries, at, toRead, previous, metadata>>

-----------------------------------------------------------------------------
(* The reader, tokenizer.rs: an offset, or Truncated when bytes ran out *)

Truncated == -1

Advance(from, n) ==
  IF from # Truncated /\ n <= Len(bytes) - from THEN from + n ELSE Truncated
Slice(from, n) == SubSeq(bytes, from + 1, from + n)

Number(from) ==
  bytes[from + 1] + 256 * bytes[from + 2] + 65536 * bytes[from + 3]
    + 16777216 * bytes[from + 4]
Remaining(from) == Len(bytes) - from

\* from_utf8 refuses what is not UTF-8: 255 is in no text that is.
Utf8(text) == \A i \in DOMAIN text : text[i] # 255

\* Where a string that starts there ends.
StringEnd(from) ==
  IF Advance(from, 4) = Truncated THEN Truncated
  ELSE LET end == Advance(from + 4, Number(from)) IN
       IF end # Truncated /\ Utf8(Slice(from + 4, Number(from))) THEN end ELSE Truncated
Text(from) == Slice(from + 4, Number(from))

\* Mutation: 16-bit values are skipped byte by byte.
MutSize(type) ==
  CASE type \in {"uint8", "int8", "uint16", "int16", "boolean"} -> 1
    [] type \in {"uint32", "int32", "float32", "string"} -> 4
    [] OTHER -> 8

\* Bytes of a value in read_value, the least of an element in ensure_array_fits.
Size(type) ==
  CASE type \in {"uint8", "int8", "boolean"} -> 1
    [] type \in {"uint16", "int16"} -> 2
    [] type \in {"uint32", "int32", "float32", "string"} -> 4
    [] OTHER -> 8

TypeAt(from) ==
  IF Number(from) < Len(MetadataType) THEN MetadataType[Number(from) + 1] ELSE "unknown"

\* Where each element of an array starts; the last is where it ends.
Starts(from, type, n) ==
  LET start[i \in 0..n] ==
        IF i = 0 THEN from
        ELSE IF start[i - 1] = Truncated THEN Truncated
        ELSE IF type = "string" THEN StringEnd(start[i - 1])
        ELSE Advance(start[i - 1], Size(type))
  IN start

Ignored == [type |-> "ignored"]

Kept(key, type, from, n) ==
  LET start == Starts(from, type, n) IN
  CASE type = "string" /\ key \in {TokensKey, MergesKey} ->
         [type |-> "strings", value |-> [i \in 1..n |-> Text(start[i - 1])]]
    [] type = "int32" /\ key = TypesKey ->
         [type |-> "int32s", value |-> [i \in 1..n |-> Slice(start[i - 1], 4)]]
    [] OTHER -> Ignored

BooleanOk(type, from) == type = "boolean" => bytes[from + 1] \in {0, 1}

\* read_array: where it ends and what is kept of it.
ReadArray(key, from) ==
  LET type == TypeAt(from)  n == Number(from + 4)  values == from + 12 IN
  IF \/ Advance(from, 12) = Truncated
     \/ type \in {"array", "unknown"}
     \/ Slice(from + 8, 4) # <<0, 0, 0, 0>>
     \/ n > Remaining(values) \div Size(type)
  THEN [end |-> Truncated, kept |-> Ignored]
  ELSE LET start == Starts(values, type, n) IN
       IF /\ start[n] # Truncated
          /\ \A i \in 0..(n - 1) : BooleanOk(type, start[i])
       THEN [end |-> start[n], kept |-> Kept(key, type, values, n)]
       ELSE [end |-> Truncated, kept |-> Ignored]

ReadScalar(type, from) ==
  LET end == IF type = "string" THEN StringEnd(from) ELSE Advance(from, Size(type)) IN
  IF end = Truncated \/ ~BooleanOk(type, from)
  THEN [end |-> Truncated, kept |-> Ignored]
  ELSE [end |-> end,
        kept |-> CASE type = "string" -> [type |-> "string", value |-> Text(from)]
                   [] type \in {"uint32", "boolean"} ->
                        [type |-> type, value |-> Slice(from, Size(type))]
                   [] OTHER -> Ignored]

ReadValue(key, from) ==
  IF Advance(from, 4) = Truncated \/ TypeAt(from) = "unknown"
  THEN [end |-> Truncated, kept |-> Ignored]
  ELSE IF TypeAt(from) = "array" THEN ReadArray(key, from + 4)
  ELSE ReadScalar(TypeAt(from), from + 4)

Error == pc' = "error" /\ UNCHANGED <<at, toRead, previous, metadata>>

\* parse_spec up to the entry count.
ReadHeader ==
  /\ pc = "header"
  /\ IF \/ version # 1 \/ Len(bytes) < 12
        \/ Slice(0, 7) # Magic \/ bytes[8] # 1
        \/ Number(8) > Remaining(12) \div 8
     THEN Error
     ELSE /\ at' = 12 /\ toRead' = Number(8) /\ pc' = "entries"
          /\ UNCHANGED <<previous, metadata>>
  /\ UNCHANGED <<entries, bytes, version, damage>>

ReadEntry ==
  /\ pc = "entries" /\ toRead > 0
  /\ LET end == StringEnd(at)  key == Text(at)  value == ReadValue(key, end) IN
     IF end = Truncated THEN Error
     ELSE IF previous # <<>> /\ ~TextBelow(previous, key) THEN Error
     ELSE IF value.end = Truncated THEN Error
     ELSE /\ metadata' = [k \in DOMAIN metadata \cup {key} |->
                            IF k = key THEN value.kept ELSE metadata[k]]
          /\ at' = value.end /\ toRead' = toRead - 1 /\ previous' = key
          /\ UNCHANGED pc
  /\ UNCHANGED <<entries, bytes, version, damage>>

\* Mutation: trailing bytes are let through.
MutIsEmpty == TRUE

IsEmpty == at = Len(bytes)

Finish ==
  /\ pc = "entries" /\ toRead = 0
  /\ IF IsEmpty THEN pc' = "done" /\ UNCHANGED <<at, toRead, previous, metadata>> ELSE Error
  /\ UNCHANGED <<entries, bytes, version, damage>>

Init ==
  /\ \E c \in Catalog : entries \in SetToSeqs(c)
  /\ bytes = <<>> /\ version = 0 /\ damage = "none"
  /\ pc = "serialize" /\ at = 0 /\ toRead = 0 /\ previous = <<>> /\ metadata = <<>>

Next == SerializeTokenizerSpec \/ Deliver \/ ReadHeader \/ ReadEntry \/ Finish

Spec == Init /\ [][Next]_vars

-----------------------------------------------------------------------------

\* What the tokenizer is to know of an entry: what it never asks for is read
\* over.
Wanted(e) ==
  LET v == e.value IN
  CASE v.type \in {"uint32", "boolean", "string"} -> v
    [] v.type = "array" /\ v.element = "string" /\ e.key \in {TokensKey, MergesKey} ->
         [type |-> "strings", value |-> v.values]
    [] v.type = "array" /\ v.element = "int32" /\ e.key = TypesKey ->
         [type |-> "int32s", value |-> v.values]
    [] OTHER -> Ignored

\* What the reader makes of a buffer is what the loader's catalog says, entry
\* for entry, and no buffer that was cut or has grown is taken for one
\* (serialize_tokenizer_spec against parse_spec).
SpecArrives ==
  pc = "done" =>
    /\ damage = "none"
    /\ DOMAIN metadata = {Selected[i].key : i \in DOMAIN Selected}
    /\ \A i \in DOMAIN Selected : metadata[Selected[i].key] = Wanted(Selected[i])

\* Texts of an entry.
Texts(e) ==
  {e.key} \cup
    (IF e.value.type = "string" THEN {e.value.value}
     ELSE IF e.value.type = "array" /\ e.value.element = "string"
     THEN {e.value.values[i] : i \in DOMAIN e.value.values} ELSE {})

\* And what the loader writes is read, whatever order the map had and whatever
\* types the entries are of; only a text that is not UTF-8, which the loader
\* does not look at, is refused on the other side.
WrittenIsRead ==
  pc = "error" /\ damage = "none" /\ version = 1 =>
    \E i \in DOMAIN Selected : \E text \in Texts(Selected[i]) : ~Utf8(text)
=============================================================================
