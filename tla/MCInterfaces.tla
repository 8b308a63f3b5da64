---------------------------- MODULE MCInterfaces ----------------------------
(***************************************************************************)
(* What crosses between caller, runtime and kernels, each part on its own: *)
(* a tensor descriptor, a request for a kernel, a text to encode, and the  *)
(* tokenizer's metadata.                                                   *)
(*                                                                         *)
(* Words of four bits: one product, one sum, or only the last of several   *)
(* sums is too large.  Texts have a letter, one of two bytes, a digit,     *)
(* spaces, a newline and what makes contractions and protected tokens, of  *)
(* which one is the beginning of another.  Tokenizers are a trained one,   *)
(* one with merges out of order, one that lacks a byte and adds tokens of  *)
(* its own, and four that are refused.                                     *)
(***************************************************************************)
EXTENDS TensorValidation, OperatorRegistry

VARIABLES part, spec, protected, pc, text, addSpecial, at, until, tokens, specials, piece, parts, entries,
  bytes, version, damage, toRead, previous, metadata

-----------------------------------------------------------------------------
(* Small instances *)

CONSTANT None

MCElementSize == [f32 |-> 4, f16 |-> 2]
MCExtent == {0, 1, 2, 4, 7}

\* Kernels of several priorities, two of the same one, one that must not be
\* captured, one for another shape, a name used twice, one without provenance.
Limit(max) == [dtype |-> "f32", quant |-> "none", rank |-> 1, alignment |-> 16,
               min |-> <<1>>, max |-> <<max>>]

Kernel(name, priority, graphSafe, workspace, max) ==
  [name |-> name, priority |-> priority, op |-> "matmul", regime |-> "host",
   architecture |-> "sm_120a", bucket |-> "decode", provenance |-> "native",
   graphSafe |-> graphSafe, deterministic |-> TRUE, workspace |-> workspace,
   inputs |-> <<Limit(max)>>]

Kernels == {
  Kernel(1, 2, FALSE, 4, 8), Kernel(2, 1, TRUE, 0, 8), Kernel(3, 1, TRUE, 4, 8),
  Kernel(4, 1, TRUE, 0, 2), Kernel(2, 3, TRUE, 0, 8),
  [Kernel(5, 9, TRUE, 0, 8) EXCEPT !.provenance = "unspecified"]}

Ask(capture, workspace, size) ==
  [op |-> "matmul", regime |-> "host", architecture |-> "sm_120a",
   bucket |-> "decode", capture |-> capture, deterministic |-> FALSE,
   workspace |-> workspace,
   inputs |-> <<[dtype |-> "f32", quant |-> "none", rank |-> 1,
                 alignment |-> 16, shape |-> <<size>>]>>]

Asked == {Ask(TRUE, 4, 2), Ask(FALSE, 4, 8), Ask(FALSE, 0, 2)}

\* As the byte encoder shows them: a, aa, an e with an acute accent, a space.
A == <<97>>
AA == <<97, 97>>
E == <<195, 169>>
G == <<288>>

Alphabet == <<A, <<115>>, <<49>>, <<33>>, <<39>>, <<60>>, <<195>>, <<169>>, G, <<266>>>>
Merged == <<AA, AA \o A, G \o A, E, G \o G, A \o E, AA \o AA>>
Marked == <<<<60, 97>>, <<60, 97, 97>>, <<233, 60>>>>

Normal(list) == [i \in DOMAIN list |-> 1]

Whole ==
  [tokens |-> Alphabet \o Merged \o Marked,
   types |-> Normal(Alphabet \o Merged) \o <<3, 4, 4>>,
   merges |-> <<<<A, A>>, <<AA, A>>, <<<<195>>, <<169>>>>, <<G, A>>, <<G, G>>, <<A, E>>, <<AA, AA>>>>,
   bos |-> None, eos |-> 17, eot |-> None, pad |-> None, addBos |-> FALSE, addEos |-> TRUE]

Untrained == [Whole EXCEPT !.merges =
  <<<<A, E>>, <<AA, A>>, <<G, A>>, <<A, A>>, <<<<195>>, <<169>>>>>>]

Lacking ==
  [tokens |-> <<<<60>>, A, G, <<115>>>>, types |-> <<1, 1, 1, 3>>, merges |-> <<>>,
   bos |-> 0, eos |-> 3, eot |-> 3, pad |-> None, addBos |-> TRUE, addEos |-> FALSE]

Models ==
  {Whole, Untrained, Lacking,
   [Lacking EXCEPT !.tokens = <<<<60>>, A, G, <<>>>>],
   [Lacking EXCEPT !.tokens = <<<<60>>, A, A, <<115>>>>],
   [Lacking EXCEPT !.types = <<1, 1, 1>>],
   [Lacking EXCEPT !.pad = 4]}

Seqs == INSTANCE SequencesExt

Prompts ==
  Seqs!BoundedSeq({97, 233, 49, 32, 10, 33, 39, 115, 60}, 3)
    \cup Seqs!BoundedSeq({97, 60, 233}, 5) \cup Seqs!BoundedSeq({97, 32, 10}, 4)

\* Catalogs with every type of value, as a scalar and in an array; keys of which
\* one is a prefix of another, a text that is not UTF-8, an array of arrays.

ScalarOf(key, type, value) == [key |-> key, value |-> [type |-> type, value |-> value]]
ArrayOf(key, element, values) ==
  [key |-> key, value |-> [type |-> "array", element |-> element, values |-> values]]

TokenList == ArrayOf(<<9, 1>>, "string", <<<<97>>, <<98, 99>>, <<>>>>)
MergeList == ArrayOf(<<9, 1, 2>>, "string", <<>>)
TypeList == ArrayOf(<<9, 3>>, "int32", <<<<1, 0, 0, 0>>, <<3, 0, 0, 0>>>>)

Width(type) ==
  CASE type \in {"boolean", "uint8", "int8"} -> 1
    [] type \in {"uint16", "int16"} -> 2
    [] type \in {"uint32", "int32", "float32"} -> 4
    [] OTHER -> 8
Wide(type) == [i \in 1..Width(type) |-> i]
NumberType == {"uint8", "int8", "uint16", "int16", "uint32", "int32", "float32",
  "boolean", "uint64", "int64", "float64"}

Catalogs ==
  {{TokenList, MergeList, TypeList, ScalarOf(<<7>>, "uint32", <<5, 5, 5, 5>>)},
   {TokenList, ScalarOf(<<9>>, "string", <<>>), ArrayOf(<<9, 0>>, "string", <<<<9>>>>)},
   {ScalarOf(<<9, 4>>, "string", <<255>>), TokenList},
   {ArrayOf(<<9, 4>>, "array", <<<<>>>>)},
   {ScalarOf(<<7>>, "string", <<9>>)}, {}}
  \cup {{ScalarOf(<<9, 2>>, t, Wide(t)), ArrayOf(<<9, 2, 1>>, t, <<Wide(t), Wide(t)>>), TokenList} :
          t \in NumberType}

-----------------------------------------------------------------------------
(* The parts; what is not of the part at work is off *)

Text == INSTANCE Tokenizer WITH
  Metadata <- Models, Texts <- Prompts, Letter <- {97, 115, 233}, Numeric <- {49},
  Whitespace <- {10, 32}, MaxPiece <- 5

Spelling == INSTANCE TokenizerSpec WITH
  Catalog <- Catalogs, Prefix <- <<9>>, TokensKey <- <<9, 1>>, MergesKey <- <<9, 1, 2>>,
  TypesKey <- <<9, 3>>, Version <- {1, 2}

\* What the format takes for granted of its keys, and the registry of names.
ASSUME InterfaceAssumption == Spelling!KeyAssumption /\ OrderedCapabilities

Off == "off"

TensorAlone ==
  /\ RegistryInit
  /\ spec = Off /\ protected = Off /\ pc = Off /\ text = Off
  /\ addSpecial = Off /\ at = Off /\ until = Off /\ tokens = Off
  /\ specials = Off /\ piece = Off /\ parts = Off /\ entries = Off
  /\ bytes = Off /\ version = Off /\ damage = Off /\ toRead = Off
  /\ previous = Off /\ metadata = Off

RegistryAlone ==
  /\ desc = Off /\ dim = Off /\ required = Off /\ verdict = Off /\ spec = Off
  /\ protected = Off /\ pc = Off /\ text = Off /\ addSpecial = Off
  /\ at = Off /\ until = Off /\ tokens = Off /\ specials = Off /\ piece = Off
  /\ parts = Off /\ entries = Off /\ bytes = Off /\ version = Off
  /\ damage = Off /\ toRead = Off /\ previous = Off /\ metadata = Off

TextAlone ==
  /\ desc = Off /\ dim = Off /\ required = Off /\ verdict = Off
  /\ RegistryInit
  /\ entries = Off /\ bytes = Off /\ version = Off /\ damage = Off
  /\ toRead = Off /\ previous = Off /\ metadata = Off

SpellingAlone ==
  /\ desc = Off /\ dim = Off /\ required = Off /\ verdict = Off
  /\ RegistryInit
  /\ spec = Off /\ protected = Off /\ text = Off /\ addSpecial = Off
  /\ until = Off /\ tokens = Off /\ specials = Off /\ piece = Off
  /\ parts = Off

AnyInit ==
  \/ part = "tensor" /\ CheckInit /\ TensorAlone
  \/ part = "registry" /\ RegistryInit /\ RegistryAlone
  \/ part = "text" /\ Text!Init /\ TextAlone
  \/ part = "spelling" /\ Spelling!Init /\ SpellingAlone

AnyNext ==
  \/ /\ part = "tensor" /\ CheckNext
     /\ UNCHANGED <<part, registrations, names, cache, reply, spec,
                    protected, pc, text, addSpecial, at, until, tokens,
                    specials, piece, parts, entries, bytes, version, damage,
                    toRead, previous, metadata>>
  \/ /\ part = "registry" /\ RegistryNext
     /\ UNCHANGED <<part, desc, dim, required, verdict, spec, protected, pc,
                    text, addSpecial, at, until, tokens, specials, piece,
                    parts, entries, bytes, version, damage, toRead,
                    previous, metadata>>
  \/ /\ part = "text" /\ Text!Next
     /\ UNCHANGED <<part, desc, dim, required, verdict, registrations,
                    names, cache, reply, entries, bytes, version, damage,
                    toRead, previous, metadata>>
  \/ /\ part = "spelling" /\ Spelling!Next
     /\ UNCHANGED <<part, desc, dim, required, verdict, registrations,
                    names, cache, reply, spec, protected, text, addSpecial,
                    until, tokens, specials, piece, parts>>

anyVars == <<part, desc, dim, required, verdict, registrations, names,
             cache, reply, spec, protected, pc, text, addSpecial, at, until,
             tokens, specials, piece, parts, entries, bytes, version,
             damage, toRead, previous, metadata>>

AnySpec == AnyInit /\ [][AnyNext]_anyVars

-----------------------------------------------------------------------------
(* Properties *)

\* Encoding uses up its text and decoding gives its bytes back, with the tokens
\* that were added, or without any that are skipped (encode, decode).
RoundTrips == part = "text" => Text!TokensUseText /\ Text!RoundTrips

\* Protected tokens are found whole, and what lies between is merged to what the
\* merges define, pair after pair (encode_piece, apply_bpe).
MergesInOrder == part = "text" => Text!ProtectedStayWhole /\ Text!MergesInOrder

\* What the loader writes is read, and nothing else is; what is read is what the
\* catalog says (serialize_tokenizer_spec against parse_spec).
WrittenIsRead == part = "spelling" => Spelling!SpecArrives /\ Spelling!WrittenIsRead
=============================================================================
