----------------------------- MODULE Tokenizer -----------------------------
(***************************************************************************)
(* The tokenizer of the runtime: built from a model's metadata, it cuts a  *)
(* text into protected tokens and what lies between, that into pieces, and *)
(* merges the bytes of each piece as long as a merge applies; decode puts  *)
(* the bytes together again.                                               *)
(*                                                                         *)
(* Characters are their code points, up to 2047, so that their UTF-8 is    *)
(* one byte or two.  A piece is encoded as soon as it is cut; the code     *)
(* cuts all of a segment first, which only a refused text could tell.      *)
(***************************************************************************)
EXTENDS Integers, Sequences, FiniteSets, SequencesExt

CONSTANTS
  Metadata,  \* of models: tokens, types, merges, bos, eos, eot, pad, addBos, addEos
  Texts,
  Letter, Numeric, Whitespace,  \* the characters of each class; others are punctuation
  MaxPiece   \* MAX_PRETOKEN_PIECE_BYTES

CONSTANTS None   \* an id that is not given

VARIABLES
  spec, protected,  \* the metadata and protected_tokens made of it
  pc,
  text, addSpecial, \* encode's arguments
  at, until,        \* byte_index and next_special, in characters
  tokens,
  specials,         \* where each protected token was found, as <<place, id>>
  piece, parts      \* the piece being encoded, and what it is merged to so far

vars == <<spec, protected, pc, text, addSpecial, at, until, tokens, specials, piece, parts>>

Control == 3
UserDefined == 4

-----------------------------------------------------------------------------
(* Bytes *)

Utf8Char(c) == IF c < 128 THEN <<c>> ELSE <<192 + c \div 64, 128 + (c % 64)>>
Utf8(chars) == FlattenSeq([i \in DOMAIN chars |-> Utf8Char(chars[i])])

\* byte_maps: a byte that can be shown stands for itself, the others for
\* characters from 256 on.
Shown == 33..126 \cup 161..172 \cup 174..255
Hidden(b) == CASE b <= 32 -> b [] b \in 127..160 -> b - 94 [] b = 173 -> 67
Encoder(b) == IF b \in Shown THEN b ELSE 256 + Hidden(b)
Decodable == Shown \cup 256..323
Decoder(c) == IF c \in Shown THEN c ELSE CHOOSE b \in 0..255 \ Shown : Encoder(b) = c

-----------------------------------------------------------------------------
(* from_spec *)

Ids == 0..(Len(spec.tokens) - 1)
Token(id) == spec.tokens[id + 1]
Given == {spec.bos, spec.eos, spec.eot, spec.pad} \ {None}
Typed(types) == {id \in Ids : spec.types[id + 1] \in types}
ProtectedIds == Given \cup Typed({Control, UserDefined})
SkipSpecialIds == Given \cup Typed({Control})

\* Mutation: empty tokens are let through.
MutValidTokens == spec.tokens # <<>> /\ IsInjective(spec.tokens)

ValidTokens ==
  spec.tokens # <<>> /\ IsInjective(spec.tokens) /\ <<>> \notin Range(spec.tokens)

ValidSpec ==
  /\ ValidTokens
  /\ Len(spec.types) = Len(spec.tokens)
  /\ IsInjective(spec.merges)
  /\ \A i \in DOMAIN spec.merges : <<>> \notin Range(spec.merges[i])
  /\ Given \subseteq Ids

\* Mutation: short tokens are tried first.
MutTriedBefore(a, b) == Len(Utf8(Token(a))) <= Len(Utf8(Token(b)))

\* sort_by_key(Reverse(len)).
TriedBefore(a, b) == Len(Utf8(Token(a))) >= Len(Utf8(Token(b)))

\* protected_ids is a hash set: tokens of one length come in any order.
FromSpec ==
  /\ pc = "from_spec"
  /\ IF ValidSpec
     THEN /\ protected' \in {p \in SetToSeqs(ProtectedIds) :
               \A i, j \in DOMAIN p : i < j => TriedBefore(p[i], p[j])}
          /\ pc' = "encode"
     ELSE pc' = "refused" /\ UNCHANGED protected
  /\ UNCHANGED <<spec, text, addSpecial, at, until, tokens, specials, piece, parts>>

-----------------------------------------------------------------------------
(* apply_bpe *)

PairAt(i) == <<parts[i], parts[i + 1]>>
Rank(pair) == CHOOSE r \in DOMAIN spec.merges : spec.merges[r] = pair
Mergeable == {i \in 1..(Len(parts) - 1) : PairAt(i) \in Range(spec.merges)}

\* Mutation: of equal ranks the last one is merged.
MutMergedBefore(i, j) ==
  Rank(PairAt(i)) < Rank(PairAt(j)) \/ (PairAt(i) = PairAt(j) /\ i > j)

\* min_by_key: the lowest rank, and of equal ones the first.
MergedBefore(i, j) ==
  Rank(PairAt(i)) < Rank(PairAt(j)) \/ (PairAt(i) = PairAt(j) /\ i < j)

Merge ==
  /\ pc = "merge"
  /\ \E i \in Mergeable :
       /\ \A j \in Mergeable \ {i} : MergedBefore(i, j)
       /\ parts' = SubSeq(parts, 1, i - 1) \o <<parts[i] \o parts[i + 1]>>
                     \o SubSeq(parts, i + 2, Len(parts))
  /\ UNCHANGED <<spec, protected, pc, text, addSpecial, at, until, tokens, specials, piece>>

Encoded(bytes) == [i \in DOMAIN bytes |-> <<Encoder(bytes[i])>>]

-----------------------------------------------------------------------------
(* pretokenize: how long the piece is that s starts with *)

Newline == {10, 13}
Space == 32
Punctuation(c) == c \notin Whitespace \cup Letter \cup Numeric

\* run_len, from a place on.
Run(s, from, class) ==
  CHOOSE n \in 0..(Len(s) - from + 1) :
    /\ \A i \in from..(from + n - 1) : s[i] \in class
    /\ from + n \in DOMAIN s => s[from + n] \notin class

LetterRun(s, from) == Run(s, from, Letter)
NewlineRun(s, from) == Run(s, from, Newline)
PunctuationRun(s, from) ==
  LET n == Run(s, from, {c \in ToSet(s) : Punctuation(c)}) IN n + NewlineRun(s, from + n)

Lower(c) == IF c \in 65..90 THEN c + 32 ELSE c
Contractions == {<<39, 115>>, <<39, 116>>, <<39, 114, 101>>, <<39, 118, 101>>,
                 <<39, 109>>, <<39, 108, 108>>, <<39, 100>>}
Contracted(s) ==
  {c \in Contractions : IsPrefix(c, [i \in DOMAIN s |-> Lower(s[i])])}

\* whitespace_piece_len: the last space may belong to what follows.
WhitespacePiece(s) ==
  LET n == Run(s, 1, Whitespace \ Newline) IN
  IF NewlineRun(s, n + 1) > 0 THEN n + NewlineRun(s, n + 1)
  ELSE IF /\ n < Len(s) /\ n > 1
          /\ s[n + 1] \in Letter \/ (s[n] = Space /\ Punctuation(s[n + 1]))
  THEN n - 1 ELSE n

\* An opening character takes the letters after it along.
OpensWord(s) ==
  /\ s[1] \notin Newline \cup Letter \cup Numeric
  /\ Len(s) > 1 /\ s[2] \in Letter

PieceLength(s) ==
  CASE Contracted(s) # {} -> Len(CHOOSE c \in Contracted(s) : TRUE)
    [] Contracted(s) = {} /\ OpensWord(s) -> 1 + LetterRun(s, 2)
    [] s[1] \in Numeric -> 1
    [] Contracted(s) = {} /\ s[1] = Space /\ Len(s) > 1 /\ Punctuation(s[2]) ->
         1 + PunctuationRun(s, 2)
    [] s[1] \in Letter -> LetterRun(s, 1)
    [] OTHER -> IF s[1] \in Whitespace THEN WhitespacePiece(s) ELSE PunctuationRun(s, 1)

-----------------------------------------------------------------------------
(* encode *)

StartsAt(id, i) == IsPrefix(Token(id), SubSeq(text, i, Len(text)))

\* match_special
Matching == {k \in DOMAIN protected : StartsAt(protected[k], at)}
MatchSpecial == protected[CHOOSE k \in Matching : \A l \in Matching : k <= l]

\* Mutation: only the token tried first is looked for.
MutNextSpecial ==
  LET starts == {i \in at..Len(text) : protected # <<>> /\ StartsAt(protected[1], i)} IN
  IF starts = {} THEN Len(text) + 1 ELSE CHOOSE i \in starts : \A j \in starts : i <= j

\* Where the next protected token starts, or the end.
NextSpecial ==
  LET starts == {i \in at..Len(text) : \E id \in ProtectedIds : StartsAt(id, i)} IN
  IF starts = {} THEN Len(text) + 1 ELSE CHOOSE i \in starts : \A j \in starts : i <= j

Added(flag, id) == IF addSpecial /\ flag /\ id # None THEN <<id>> ELSE <<>>

Encode ==
  /\ pc = "encode"
  /\ tokens' = Added(spec.addBos, spec.bos)
  /\ pc' = "scan"
  /\ UNCHANGED <<spec, protected, text, addSpecial, at, until, specials, piece, parts>>

\* Bound: a text has at most as many tokens as bytes, and those added; were
\* there more, scanning would stop here for good.
Room == Len(tokens) <= 2 * Len(text) + 1

TakeSpecial ==
  /\ pc = "scan" /\ at <= Len(text) /\ Matching # {} /\ Room
  /\ tokens' = Append(tokens, MatchSpecial)
  /\ specials' = specials \cup {<<at, MatchSpecial>>}
  /\ at' = at + Len(Token(MatchSpecial))
  /\ UNCHANGED <<spec, protected, pc, text, addSpecial, until, piece, parts>>

FindNext ==
  /\ pc = "scan" /\ at <= Len(text) /\ Matching = {}
  /\ until' = NextSpecial
  /\ pc' = "pieces"
  /\ UNCHANGED <<spec, protected, text, addSpecial, at, tokens, specials, piece, parts>>

\* The piece that comes next, handed to encode_piece.
TakePiece ==
  /\ pc = "pieces" /\ at < until
  /\ \E segment \in {SubSeq(text, at, until - 1)} :
     \E next \in {SubSeq(segment, 1, PieceLength(segment))} :
     \E bytes \in {Utf8(next)} :
       IF Len(bytes) <= MaxPiece
       THEN /\ piece' = next /\ parts' = Encoded(bytes)
            /\ pc' = "merge"
       ELSE pc' = "error" /\ UNCHANGED <<piece, parts>>
  /\ UNCHANGED <<spec, protected, text, addSpecial, at, until, tokens, specials>>

IdOf(part) == (CHOOSE i \in DOMAIN spec.tokens : spec.tokens[i] = part) - 1

PushTokens ==
  /\ pc = "merge" /\ Mergeable = {}
  /\ IF Range(parts) \subseteq Range(spec.tokens)
     THEN /\ tokens' = tokens \o [i \in DOMAIN parts |-> IdOf(parts[i])]
          /\ at' = at + Len(piece)
          /\ pc' = "pieces"
     ELSE pc' = "error" /\ UNCHANGED <<tokens, at>>
  /\ UNCHANGED <<spec, protected, text, addSpecial, until, specials, piece, parts>>

SegmentEnds ==
  /\ pc = "pieces" /\ at = until
  /\ pc' = "scan"
  /\ UNCHANGED <<spec, protected, text, addSpecial, at, until, tokens, specials, piece, parts>>

Return ==
  /\ pc = "scan" /\ at > Len(text)
  /\ tokens' = tokens \o Added(spec.addEos, spec.eos)
  /\ pc' = "done"
  /\ UNCHANGED <<spec, protected, text, addSpecial, at, until, specials, piece, parts>>

-----------------------------------------------------------------------------
(* decode *)

NoBytes == <<-1>>

\* Mutation: a protected token is taken for bytes like any other.
MutDecodeToken(id) ==
  IF Range(Token(id)) \subseteq Decodable
  THEN [i \in DOMAIN Token(id) |-> Decoder(Token(id)[i])] ELSE NoBytes

\* The bytes of a token; NoBytes where decode fails.
DecodeToken(id) ==
  IF id \in ProtectedIds THEN Utf8(Token(id))
  ELSE IF Range(Token(id)) \subseteq Decodable
  THEN [i \in DOMAIN Token(id) |-> Decoder(Token(id)[i])] ELSE NoBytes

Decode(ids, skip) ==
  LET kept == SelectSeq(ids, LAMBDA id : ~(skip /\ id \in SkipSpecialIds)) IN
  FlattenSeq([i \in DOMAIN kept |-> DecodeToken(kept[i])])

Init ==
  /\ spec \in Metadata /\ text \in Texts /\ addSpecial \in BOOLEAN
  /\ protected = <<>> /\ pc = "from_spec" /\ at = 1 /\ until = 1
  /\ tokens = <<>> /\ specials = {} /\ piece = <<>> /\ parts = <<>>

Next ==
  \/ FromSpec \/ Encode \/ TakeSpecial \/ FindNext \/ TakePiece
  \/ Merge \/ PushTokens \/ SegmentEnds \/ Return

Spec == Init /\ [][Next]_vars

-----------------------------------------------------------------------------

\* No protected token is also what the bytes of other text are merged to.
Plain == \A id \in ProtectedIds :
  /\ \A r \in DOMAIN spec.merges : Token(id) # spec.merges[r][1] \o spec.merges[r][2]
  /\ Len(Token(id)) = 1 => Token(id)[1] < 128

Skipped == {i \in DOMAIN text : \E <<p, id>> \in specials :
  id \in SkipSpecialIds /\ i \in p..(p + Len(Token(id)) - 1)}
Unskipped == LET kept == SelectSeq([i \in DOMAIN text |-> i], LAMBDA i : i \notin Skipped)
             IN [i \in DOMAIN kept |-> text[kept[i]]]
AddedBytes(ids) == FlattenSeq([i \in DOMAIN ids |-> Utf8(Token(ids[i]))])

\* Every token uses up text, so that encoding ends on every tokenizer that
\* from_spec makes.
TokensUseText == pc = "scan" => Room

\* Decoding an encoded text gives its bytes back, whatever it was cut into,
\* with the tokens that were added, or without any that are skipped.
RoundTrips ==
  pc = "done" /\ Plain =>
    /\ Decode(tokens, FALSE) = AddedBytes(Added(spec.addBos, spec.bos)) \o Utf8(text)
                                 \o AddedBytes(Added(spec.addEos, spec.eos))
    /\ Decode(tokens, TRUE) = Utf8(Unskipped)

\* Protected tokens are found from the left, the longest that fits at each
\* place, whatever order they are tried in; none is missed or cut in two.
ProtectedStayWhole ==
  pc = "done" =>
    /\ \A <<p, id>> \in specials : \A other \in ProtectedIds :
         StartsAt(other, p) => Len(Token(other)) <= Len(Token(id))
    /\ \A i \in DOMAIN text : \A id \in ProtectedIds : StartsAt(id, i) =>
         \E <<p, found>> \in specials : i \in p..(p + Len(Token(found)) - 1)
    /\ \A m, n \in specials : m[1] < n[1] => m[1] + Len(Token(m[2])) <= n[1]

\* Byte-pair encoding as it is defined: merge after merge in the order of
\* their ranks, each wherever it applies, from the left.
MergeAll(list, pair) ==
  LET merged[i \in 1..Len(list)] ==
        /\ i < Len(list) /\ <<list[i], list[i + 1]>> = pair
        /\ i > 1 => ~merged[i - 1] IN
  FlattenSeq([i \in DOMAIN list |->
    IF merged[i] THEN <<list[i] \o list[i + 1]>>
    ELSE IF i > 1 /\ merged[i - 1] THEN <<>> ELSE <<list[i]>>])

\* The set binds a value, which is then not computed again at every use.
BytePairs(bytes) ==
  LET after[r \in 0..Len(spec.merges)] ==
        IF r = 0 THEN bytes
        ELSE CHOOSE list \in {MergeAll(before, spec.merges[r]) : before \in {after[r - 1]}} : TRUE
  IN after[Len(spec.merges)]

\* Merges as training finds them: a part is made before what it is part of.
Trained == \A r, q \in DOMAIN spec.merges :
  spec.merges[q][1] \o spec.merges[q][2] \in Range(spec.merges[r]) => q < r

\* Looking for the lowest pair again after every single merge, as apply_bpe
\* does, comes to the encoding that the merges define.
MergesInOrder ==
  pc = "merge" /\ Mergeable = {} /\ Trained => parts = BytePairs(Encoded(Utf8(piece)))

=============================================================================
