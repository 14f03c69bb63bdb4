----------------------------- MODULE MCQueryText -----------------------------
(***************************************************************************)
(* Instances of QueryText: a schema with every sort of field, the queries  *)
(* README.md describes for it, and texts put together from the characters  *)
(* that mean something in a query.                                         *)
(***************************************************************************)
EXTENDS QueryText

-----------------------------------------------------------------------------
(* The schema *)

Singular(number, ty, type) == FieldDescriptor(number, ty, type, FALSE, FALSE, FALSE)
Repeated(number, ty, type, packed) == FieldDescriptor(number, ty, type, TRUE, packed, FALSE)
MapOf(number, type) == FieldDescriptor(number, "message", type, TRUE, FALSE, TRUE)

EntryType(key, value, type) == {Singular(1, key, NoType), Singular(2, value, type)}

\* Field 7 is a map to an enum.
WithEnumMap ==
  [M |-> {Singular(1, "varint", NoType), Singular(2, "enum", "E"), Repeated(3, "varint", NoType, TRUE),
          Repeated(4, "message", "N", FALSE), MapOf(5, "StringToN"), MapOf(6, "IntToString"),
          MapOf(7, "IntToEnum"), MapOf(8, "BoolToInt")},
   N |-> {Singular(1, "string", NoType), Repeated(2, "enum", "E", TRUE), Singular(3, "message", "M"),
          MapOf(4, "StringToM"), Repeated(5, "fixed32", NoType, FALSE)},
   StringToN |-> EntryType("string", "message", "N"),
   StringToM |-> EntryType("string", "message", "M"),
   IntToString |-> EntryType("varint", "string", NoType),
   IntToEnum |-> EntryType("varint", "enum", "E"),
   BoolToInt |-> EntryType("bool", "varint", NoType)]

WithoutEnumMap == [WithEnumMap EXCEPT !.M = {fd \in @ : fd.type_name # "IntToEnum"}]

\* Fields 1, 2, ... are called a, b, ...
MCFieldName == [n \in 1 .. 8 |-> <<96 + n>>]

\* M and p.N are messages of default; in o, M is another message.
m == <<77>>
pN == <<112, 46, 78>>
o == <<111>>

MCDescSets == (DefaultDescSet :> (m :> "M" @@ pN :> "N")) @@ (o :> (m :> "N"))

MCRoots == {"M", "N"}

-----------------------------------------------------------------------------
(* Texts *)

Tokens == {<<49>>, <<53>>, <<97>>, <<Dot>>, <<OpenBracket>>, <<CloseBracket>>, Star, PipeKeys,
           <<Pipe>>, <<Colon>>}

\* What may stand in a numeral, or behind it.
NumeralTokens == {<<49>>, <<32>>, <<43>>, <<45>>, <<Dot>>, <<CloseBracket>>, Star}

\* Texts of up to max tokens.
TextsOf(tokens, max) ==
  LET texts[n \in Nat] ==
        IF n = 0 THEN {<<>>} ELSE {<<>>} \cup {token \o text : token \in tokens, text \in texts[n - 1]}
  IN texts[max]

NumeralTexts == TextsOf(NumeralTokens, 3) \ {<<>>}

\* A numeral is blanks, a sign or none, and digits.
ASSUME NumeralsAssumption ==
  \A text \in BoundedSeq({9, 32, 43, 45, 48, 49, 97}, 5) :
    IsNumeral(text) <=>
      \E b, n \in 0 .. Len(text) :
        /\ b <= n /\ n < Len(text)
        /\ \A i \in 1 .. b : text[i] \in Blanks
        /\ SubSeq(text, b + 1, n) \in {<<>>, <<43>>, <<45>>}
        /\ \A i \in n + 1 .. Len(text) : text[i] \in 48 .. 57
        /\ NumeralValue(text) =
             (IF n > b /\ text[n] = 45 THEN -1 ELSE 1) * NumeralValue(SubSeq(text, n + 1, Len(text)))

-----------------------------------------------------------------------------
(* Queries of the documented form *)

digit1 == <<49>>
keyA == <<97>>
dottedKey == <<97, 46, 97>>
colonKey == <<97, 58, 97>>
oddKey == <<93, 124, 91>>        \* ]|[

Names(number) ==
  {MCFieldName[n] : n \in DOMAIN MCFieldName \cap {number}} \cup {<<48 + number>>}

\* A part of a path, written in one way or the other.
Rendered(part) == {[part |-> part, text |-> name \o FilterText(part)] : name \in Names(part.number)}

DocumentedParts(numbers, texts) ==
  UNION {Rendered(Part(number, "brackets", text)) : number \in numbers, text \in texts} \cup
  UNION {Rendered(Part(number, filter, <<>>)) : number \in numbers, filter \in {"none", "keys"}}

\* [path, text] for one part, or for a path of one part more.
Just(parts) == {[path |-> <<p.part>>, text |-> p.text] : p \in parts}

Longer(parts, paths) ==
  {[path |-> <<q[1].part>> \o q[2].path, text |-> q[1].text \o <<Dot>> \o q[2].text] :
     q \in parts \X paths}

IndexTexts == {Star, digit1, keyA, <<45, 49>>}

AnyParts == DocumentedParts(0 .. 8, IndexTexts \cup {oddKey})
FewParts == DocumentedParts({1, 4, 5}, {Star, keyA})

TwoParts == Longer(AnyParts, Just(AnyParts))

\* Keys and indexes, among them such that are no numbers.
KeyParts ==
  DocumentedParts({3, 6}, NumeralTexts) \cup
  DocumentedParts({8}, {TrueText, FalseText, Front(TrueText), digit1})

MCPaths ==
  TwoParts \cup Longer(FewParts, Longer(FewParts, Just(FewParts)))
    \cup Just(AnyParts \cup KeyParts) \cup {[path |-> <<>>, text |-> <<>>]}

Meant(prefix, type, paths) ==
  {[text |-> prefix \o p.text, meaning |-> {[type |-> type, path |-> p.path]}] : p \in paths}

QueriesOfM == Meant(m \o <<Colon>>, "M", MCPaths)

QueriesOfN ==
  Meant(DefaultDescSet \o <<Colon>> \o pN \o <<Colon>>, "N", Just(AnyParts))
    \cup Meant(pN \o <<Colon>>, "N", Just(AnyParts))
    \cup Meant(o \o <<Colon>> \o m \o <<Colon>>, "N",
               Just(AnyParts \cup DocumentedParts(4 .. 5, {colonKey})))

\* What stands behind "|keys" has no documented meaning.
WithoutKeysInside(queries) ==
  {q \in queries : \A d \in q.meaning : \A i \in 1 .. Len(d.path) - 1 : d.path[i].filter # "keys"}

-----------------------------------------------------------------------------
(* Any texts *)

\* The paths among those of up to five tokens that a message of the schema has.
ShortPaths ==
  {[path |-> <<>>, text |-> <<>>]}
    \cup Just(KeyParts) \cup Just(DocumentedParts({1, 5}, TextsOf(Tokens, 3) \ {<<>>}))

ShortQueries ==
  Meant(m \o <<Colon>>, "M", ShortPaths) \cup Meant(o \o <<Colon>> \o m \o <<Colon>>, "N", ShortPaths)

\* A '.' in a key ends the part, and a ':' in a key makes what is in front of the
\* first one the name of a descriptor set, unless one is named.
HasKeyWith(ch, d) == \E i \in DOMAIN d.path : Found(d.path[i].text, ch, 1) # {}

Misread(q) ==
  \E d \in q.meaning :
    \/ HasKeyWith(Dot, d)
    \/ HasKeyWith(Colon, d) /\ Head(q.text) = Head(m)

ReadAsMeant(queries) == {q \in queries : ~Misread(q)}

Behind(prefixes, texts) == {prefix \o text : prefix \in prefixes, text \in texts}

ShortTexts == {q.text : q \in ReadAsMeant(ShortQueries)}

AnyTexts == Behind({<<>>, m \o <<Colon>>, m \o <<Colon, 53>>}, TextsOf(Tokens, 4))

AnyNumerals ==
  Behind({m \o <<Colon, 51, OpenBracket>>, m \o <<Colon, 54, OpenBracket>>}, TextsOf(NumeralTokens, 4))

NamedTexts ==
  {pN, o \o <<Colon>> \o pN \o <<Colon>>, keyA \o <<Colon>> \o m \o <<Colon>>}
    \cup Behind({o \o <<Colon>> \o m \o <<Colon>>}, TextsOf(Tokens, 3))

Unwritten(texts) == LET short == ShortTexts IN {text \in texts : text \notin short}

\* Whatever is not one of the documented queries.
OtherTexts ==
  {[text |-> text, meaning |-> {}] :
     text \in Unwritten(AnyTexts) \cup (Unwritten(AnyNumerals) \cup Unwritten(NamedTexts))}

-----------------------------------------------------------------------------
(* Everything *)

\* TLC is quick to unite sets if the first has been filtered, or is small.
Sample ==
  WithoutKeysInside(QueriesOfM) \cup (WithoutKeysInside(QueriesOfN) \cup ShortQueries)

\* These are all that Documents, and with it the proof, leaves out.
ASSUME MisreadAssumption ==
  \A q \in Sample : \A d \in q.meaning : Misread(q) <=> ~Documents(q.text, d.type, d.path)

MCQueries == ReadAsMeant(Sample) \cup OtherTexts

ASSUME NumbersFitAssumption == NumbersFit

\* ReadingsAreMeant of the other texts: there is one path at most that stands
\* behind a ':'.
PathBehind(text, colon) ==
  LET ends == SetToSortSeq({colon, Len(text) + 1} \cup Found(text, Dot, colon), <)
  IN IF colon = Len(text) THEN <<>>
     ELSE [i \in 1 .. Len(ends) - 1 |-> ParsePart(SubSeq(text, ends[i] + 1, ends[i + 1] - 1))]

ASSUME MeaningsAssumption ==
  \A q \in OtherTexts : \A colon \in Found(q.text, Colon, 1), type \in RootTypes :
    LET path == PathBehind(q.text, colon)
    IN Documents(q.text, type, path) => ~Fits(CompileQuery(type, path, NoLimit))

DottedKey == Meant(m \o <<Colon>>, "M", Just(DocumentedParts({5}, {dottedKey})))

EnumMapQueries == Meant(m \o <<Colon>>, "M", Just(DocumentedParts({7}, {Star, digit1})))

=============================================================================
