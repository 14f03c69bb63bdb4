--------------------------- MODULE QueryTextProofs ---------------------------
(***************************************************************************)
(* Proofs about the text of a query, whatever the schema and the names:    *)
(* the two parsers of the name of a message agree; reading character by    *)
(* character only compiles one part after the other; and a query of the    *)
(* form that README.md describes is compiled to what its path says, while  *)
(* any other is rejected.                                                  *)
(***************************************************************************)
EXTENDS QueryCompilationProofs, FiniteSetTheorems, SequenceTheorems, WellFoundedInduction

-----------------------------------------------------------------------------
(* Places in a text *)

\* The least of some numbers.
LEMMA Least ==
  ASSUME NEW S, S \subseteq Nat, S # {}
  PROVE  Min(S) \in S /\ \A y \in S : Min(S) <= y
<1>1. PICK R : R = OpToRel(<, Nat)
  OBVIOUS
<1>2. IsWellFoundedOn(R, Nat)
  BY <1>1, NatLessThanWellFounded
<1>3. PICK x \in S : \A y \in S : <<y, x>> \notin R
  BY <1>2, WFMin
<1>4. \A y \in S : x <= y
  <2> TAKE y \in S
  <2>1. x \in Nat /\ y \in Nat
    OBVIOUS
  <2>2. ~(y < x)
    <3>1. CASE y < x
      <4>1. <<y, x>> \in OpToRel(<, Nat)
        BY <2>1, <3>1 DEF OpToRel
      <4> QED
        BY <1>1, <1>3, <4>1
    <3> QED
      BY <3>1
  <2> QED
    BY <2>1, <2>2
<1>5. \E z \in S : \A y \in S : z <= y
  BY <1>4
<1> QED
  BY <1>5 DEF Min

\* A part of a text is a text, and holds its characters.
LEMMA PartOfText ==
  ASSUME NEW text \in Seq(Nat), NEW m \in Nat \ {0}, NEW n \in Nat, n <= Len(text), m <= n + 1
  PROVE  /\ SubSeq(text, m, n) \in Seq(Nat)
         /\ Len(SubSeq(text, m, n)) = n + 1 - m
         /\ \A i \in 1 .. n + 1 - m : SubSeq(text, m, n)[i] = text[m + i - 1]
<1>1. Len(text) \in Nat
  BY LenProperties
<1>2. \A i \in m .. n : text[i] \in Nat
  BY <1>1, ElementOfSeq
<1>3. /\ SubSeq(text, m, n) \in Seq(Nat)
      /\ Len(SubSeq(text, m, n)) = IF m <= n THEN n - m + 1 ELSE 0
      /\ \A i \in 1 .. n - m + 1 : SubSeq(text, m, n)[i] = text[m + i - 1]
  BY <1>2, SubSeqProperties
<1>4. n - m + 1 = n + 1 - m
  OBVIOUS
<1>5. ~(m <= n) => n + 1 - m = 0
  OBVIOUS
<1> QED
  BY <1>3, <1>4, <1>5

\* A part of the beginning of a text is the same part of the text.
LEMMA PartOfBeginning ==
  ASSUME NEW text \in Seq(Nat), NEW k \in Nat, k <= Len(text),
         NEW m \in Nat \ {0}, NEW n \in Nat, n <= k, m <= n + 1
  PROVE  SubSeq(SubSeq(text, 1, k), m, n) = SubSeq(text, m, n)
<1>1. Len(text) \in Nat
  BY LenProperties
<1>2. PICK front : front = SubSeq(text, 1, k)
  OBVIOUS
<1>3. front \in Seq(Nat) /\ Len(front) = k /\ \A i \in 1 .. k : front[i] = text[i]
  <2>1. /\ SubSeq(text, 1, k) \in Seq(Nat)
        /\ Len(SubSeq(text, 1, k)) = k + 1 - 1
        /\ \A i \in 1 .. k + 1 - 1 : SubSeq(text, 1, k)[i] = text[1 + i - 1]
    BY <1>1, PartOfText
  <2> QED
    BY <1>2, <2>1
<1>4. /\ SubSeq(text, m, n) \in Seq(Nat) /\ Len(SubSeq(text, m, n)) = n + 1 - m
      /\ \A i \in 1 .. n + 1 - m : SubSeq(text, m, n)[i] = text[m + i - 1]
  BY <1>1, PartOfText
<1>5. /\ SubSeq(front, m, n) \in Seq(Nat) /\ Len(SubSeq(front, m, n)) = n + 1 - m
      /\ \A i \in 1 .. n + 1 - m : SubSeq(front, m, n)[i] = front[m + i - 1]
  BY <1>3, PartOfText
<1>6. \A i \in 1 .. n + 1 - m : front[m + i - 1] = text[m + i - 1]
  <2> TAKE i \in 1 .. n + 1 - m
  <2>1. m + i - 1 \in 1 .. k
    OBVIOUS
  <2> QED
    BY <1>3, <2>1
<1>7. \A i \in 1 .. Len(SubSeq(front, m, n)) : SubSeq(front, m, n)[i] = SubSeq(text, m, n)[i]
  BY <1>4, <1>5, <1>6
<1>8. SubSeq(front, m, n) = SubSeq(text, m, n)
  BY <1>4, <1>5, <1>7, SeqEqual
<1> QED
  BY <1>2, <1>8

\* Where a character turns up in the beginning of a text.
LEMMA FoundInBeginning ==
  ASSUME NEW text \in Seq(Nat), NEW k \in Nat, k <= Len(text), NEW ch
  PROVE  Found(SubSeq(text, 1, k), ch, 1) = {i \in Found(text, ch, 1) : i <= k}
<1>1. Len(text) \in Nat
  BY LenProperties
<1>2. /\ Len(SubSeq(text, 1, k)) = k + 1 - 1
      /\ \A i \in 1 .. k + 1 - 1 : SubSeq(text, 1, k)[i] = text[1 + i - 1]
  BY <1>1, PartOfText
<1>3. Len(SubSeq(text, 1, k)) = k /\ \A i \in 1 .. k : SubSeq(text, 1, k)[i] = text[i]
  BY <1>2
<1> QED
  BY <1>1, <1>3 DEF Found

\* The first place of a character from one on.
LEMMA FirstFound ==
  ASSUME NEW text \in Seq(Nat), NEW ch, NEW from \in Nat \ {0}, Found(text, ch, from) # {}
  PROVE  /\ Min(Found(text, ch, from)) \in Nat
         /\ from <= Min(Found(text, ch, from)) /\ Min(Found(text, ch, from)) <= Len(text)
         /\ text[Min(Found(text, ch, from))] = ch
         /\ \A i \in Found(text, ch, from) : Min(Found(text, ch, from)) <= i
<1>1. Len(text) \in Nat
  BY LenProperties
<1>2. Found(text, ch, from) \subseteq Nat
  BY <1>1 DEF Found
<1>3. /\ Min(Found(text, ch, from)) \in Found(text, ch, from)
      /\ \A i \in Found(text, ch, from) : Min(Found(text, ch, from)) <= i
  BY <1>2, Least
<1> QED
  BY <1>1, <1>3 DEF Found

-----------------------------------------------------------------------------
(* What GetProtobufInfoOrThrow makes of what stands in front of a path *)

\* Without a descriptor set: the name ends in front of the first ':'.
LEMMA NamedByItself ==
  ASSUME NEW text \in Seq(Nat), NEW c, c = Min(Found(text, Colon, 1)), Found(text, Colon, 1) # {}
  PROVE  ProtobufInfo(SubSeq(text, 1, c - 1)) = TypesNamed(DefaultDescSet, SubSeq(text, 1, c - 1))
<1>1. Len(text) \in Nat
  BY LenProperties
<1>2. c \in Nat /\ 1 <= c /\ c <= Len(text) /\ \A i \in Found(text, Colon, 1) : c <= i
  BY FirstFound
<1>3. PICK k \in Nat : k = c - 1
  BY <1>2
<1>4. Found(SubSeq(text, 1, k), Colon, 1) = {i \in Found(text, Colon, 1) : i <= k}
  BY <1>1, <1>2, <1>3, FoundInBeginning
<1>5. Found(text, Colon, 1) \subseteq Nat
  BY <1>1 DEF Found
<1>6. Found(SubSeq(text, 1, k), Colon, 1) = {}
  BY <1>2, <1>3, <1>4, <1>5
<1> QED
  BY <1>3, <1>6 DEF ProtobufInfo

\* With one: the name stands between the first ':' and the second.
LEMMA NamedWithDescSet ==
  ASSUME NEW text \in Seq(Nat),
         NEW c, c = Min(Found(text, Colon, 1)), Found(text, Colon, 1) # {},
         NEW d, d = Min(Found(text, Colon, c + 1)), Found(text, Colon, c + 1) # {}
  PROVE  ProtobufInfo(SubSeq(text, 1, d - 1)) =
           TypesNamed(SubSeq(text, 1, c - 1), SubSeq(text, c + 1, d - 1))
<1>1. Len(text) \in Nat
  BY LenProperties
<1>2. /\ c \in Nat /\ 1 <= c /\ c <= Len(text) /\ text[c] = Colon
      /\ \A i \in Found(text, Colon, 1) : c <= i
  BY FirstFound
<1>3. c + 1 \in Nat \ {0}
  BY <1>2
<1>4. d \in Nat /\ c + 1 <= d /\ d <= Len(text) /\ \A i \in Found(text, Colon, c + 1) : d <= i
  BY <1>3, FirstFound
<1>5. PICK k \in Nat : k = d - 1
  BY <1>2, <1>4
<1>6. k <= Len(text) /\ c <= k
  BY <1>1, <1>2, <1>4, <1>5
<1>7. PICK spec : spec = SubSeq(text, 1, k)
  OBVIOUS
<1>8. Len(spec) = k
  <2>1. Len(SubSeq(text, 1, k)) = k + 1 - 1
    BY <1>1, <1>6, PartOfText
  <2> QED
    BY <1>7, <2>1
<1>9. Found(spec, Colon, 1) = {i \in Found(text, Colon, 1) : i <= k}
  BY <1>6, <1>7, FoundInBeginning
<1>10. c \in Found(spec, Colon, 1)
  <2>1. c \in Found(text, Colon, 1)
    BY <1>1, <1>2 DEF Found
  <2> QED
    BY <1>6, <1>9, <2>1
<1>11. \A i \in Found(spec, Colon, 1) : i = c
  <2> TAKE i \in Found(spec, Colon, 1)
  <2>1. i \in Found(text, Colon, 1) /\ i <= k
    BY <1>9
  <2>2. i \in Nat /\ i <= Len(text) /\ text[i] = Colon
    BY <1>1, <2>1 DEF Found
  <2>3. c <= i
    BY <1>2, <2>1
  <2>4. CASE c < i
    <3>1. i \in Found(text, Colon, c + 1)
      BY <1>1, <1>2, <2>2, <2>4 DEF Found
    <3>2. d <= i
      BY <1>4, <3>1
    <3> QED
      BY <1>4, <1>5, <2>1, <2>2, <3>2
  <2> QED
    BY <1>2, <2>2, <2>3, <2>4
<1>12. Found(spec, Colon, 1) # {} /\ Found(spec, Colon, 1) \subseteq Nat
  BY <1>2, <1>10, <1>11
<1>13. Min(Found(spec, Colon, 1)) = c
  BY <1>11, <1>12, Least
<1>14. ProtobufInfo(spec) = TypesNamed(SubSeq(spec, 1, c - 1), SubSeq(spec, c + 1, k))
  BY <1>8, <1>12, <1>13 DEF ProtobufInfo
<1>15. SubSeq(spec, 1, c - 1) = SubSeq(text, 1, c - 1)
  <2>1. PICK b \in Nat : b = c - 1
    BY <1>2
  <2>2. b <= k /\ 1 <= b + 1
    BY <1>2, <1>6, <2>1
  <2>3. SubSeq(SubSeq(text, 1, k), 1, b) = SubSeq(text, 1, b)
    BY <1>6, <2>2, PartOfBeginning
  <2> QED
    BY <1>7, <2>1, <2>3
<1>16. SubSeq(spec, c + 1, k) = SubSeq(text, c + 1, k)
  <2>1. PICK b \in Nat \ {0} : b = c + 1
    BY <1>3
  <2>2. b <= k + 1 /\ k <= k
    BY <1>2, <1>6, <2>1
  <2>3. SubSeq(SubSeq(text, 1, k), b, k) = SubSeq(text, b, k)
    BY <1>6, <2>2, PartOfBeginning
  <2> QED
    BY <1>7, <2>1, <2>3
<1> QED
  BY <1>5, <1>7, <1>14, <1>15, <1>16

-----------------------------------------------------------------------------
(* The inductive invariant *)

Colons == Found(Text, Colon, 1)

\* Between GetDescSet and GetDesc the position is behind the name of the
\* descriptor set if one is named, and at the start of the text otherwise.
BehindDescSet ==
  /\ desc_set \in DOMAIN DescSets
  /\ \/ /\ Colons # {}
        /\ position = Min(Colons) + 1
        /\ desc_set = SubSeq(Text, 1, Min(Colons) - 1)
     \/ position = 1 /\ desc_set = DefaultDescSet

NameInv ==
  /\ query \in Queries
  /\ pc = "Name" /\ desc_set # NoType => BehindDescSet
  /\ NamedAlikeForJson

\* GetDescSet takes the name in front of the first ':', if there are two.
LEMMA GetDescSetNames ==
  ASSUME NameInv, GetDescSet
  PROVE  NameInv'
<1>1. query' = query /\ query \in Queries
  BY DEF GetDescSet, NameInv
<1>2. CASE NamesNothing
  BY <1>1, <1>2 DEF NameInv, NamesNothing, NamedAlikeForJson
<1>3. CASE ~NamesNothing
  <2>1. PICK colons : colons = Colons
    OBVIOUS
  <2>2. PICK name : name = IF Cardinality(colons) > 1 THEN SubSeq(Text, 1, Min(colons) - 1) ELSE DefaultDescSet
    OBVIOUS
  <2>3. /\ pc = "Name" /\ name \in DOMAIN DescSets
        /\ desc_set' = name /\ pc' = pc
        /\ position' = IF Cardinality(colons) > 1 THEN Min(colons) + 1 ELSE 1
    BY <1>3, <2>1, <2>2 DEF GetDescSet, Colons, vars
  <2>4. Colons' = colons /\ Text' = Text
    BY <1>1, <2>1 DEF Colons, Text
  <2>5. CASE Cardinality(colons) > 1
    <3>1. colons # {}
      <4>1. CASE colons = {}
        BY <2>5, <4>1, FS_EmptySet
      <4> QED
        BY <4>1
    <3>2. BehindDescSet'
      BY <2>2, <2>3, <2>4, <2>5, <3>1 DEF BehindDescSet
    <3> QED
      BY <1>1, <2>3, <3>2 DEF NameInv, NamedAlikeForJson
  <2>6. CASE ~(Cardinality(colons) > 1)
    <3>1. BehindDescSet'
      BY <2>2, <2>3, <2>6 DEF BehindDescSet
    <3> QED
      BY <1>1, <2>3, <3>1 DEF NameInv, NamedAlikeForJson
  <2> QED
    BY <2>5, <2>6
<1> QED
  BY <1>2, <1>3

\* GetDesc takes what is left of it up to the next ':'.
LEMMA GetDescNames ==
  ASSUME NameInv, GetDesc
  PROVE  NameInv'
<1>1. query' = query /\ query \in Queries /\ desc_set' = desc_set /\ BehindDescSet
  BY DEF GetDesc, NameInv
<1>2. Text \in Seq(Nat) /\ Text' = Text
  BY <1>1, QueriesAssumption DEF Text
<1>3. CASE NamesNothing
  BY <1>1, <1>3 DEF NameInv, NamesNothing, NamedAlikeForJson
<1>4. CASE ~NamesNothing
  <2>1. PICK d : d = Min(Found(Text, Colon, position))
    OBVIOUS
  <2>2. PICK name : name = SubSeq(Text, position, d - 1)
    OBVIOUS
  <2>3. /\ Found(Text, Colon, position) # {}
        /\ name \in DOMAIN DescSets[desc_set]
        /\ pc' = "Start" /\ root' = DescSets[desc_set][name]
        /\ position' = d + 1
    BY <1>4, <2>1, <2>2 DEF GetDesc, NamesRoot
  <2>4. desc_set \in DOMAIN DescSets /\ TypesNamed(desc_set, name) = {root'}
    BY <1>1, <2>3 DEF BehindDescSet, TypesNamed
  <2>5. ProtobufInfo(SubSeq(Text, 1, d - 1)) = TypesNamed(desc_set, name)
    <3>1. CASE position = 1 /\ desc_set = DefaultDescSet
      BY <1>2, <2>1, <2>2, <2>3, <3>1, NamedByItself
    <3>2. CASE /\ Colons # {}
               /\ position = Min(Colons) + 1
               /\ desc_set = SubSeq(Text, 1, Min(Colons) - 1)
      <4>1. PICK c : c = Min(Found(Text, Colon, 1))
        OBVIOUS
      <4>2. ProtobufInfo(SubSeq(Text, 1, d - 1)) =
              TypesNamed(SubSeq(Text, 1, c - 1), SubSeq(Text, c + 1, d - 1))
        BY <1>2, <2>1, <2>3, <3>2, <4>1, NamedWithDescSet DEF Colons
      <4> QED
        BY <2>2, <3>2, <4>1, <4>2 DEF Colons
    <3> QED
      BY <1>1, <3>1, <3>2 DEF BehindDescSet
  <2>6. d \in Nat
    <3>1. position \in Nat \ {0}
      <4>1. CASE position = 1
        BY <4>1
      <4>2. CASE Colons # {} /\ position = Min(Colons) + 1
        <5>1. Min(Colons) \in Nat
          BY <1>2, <4>2, FirstFound DEF Colons
        <5> QED
          BY <4>2, <5>1
      <4> QED
        BY <1>1, <4>1, <4>2 DEF BehindDescSet
    <3> QED
      BY <1>2, <2>1, <2>3, <3>1, FirstFound
  <2>7. position' - 2 = d - 1
    BY <2>3, <2>6
  <2>8. NamedAlikeForJson'
    <3>1. ProtobufInfo(SubSeq(Text', 1, position' - 2)) = {root'}
      BY <1>2, <2>4, <2>5, <2>7
    <3>2. ProtobufInfo(SubSeq(Text, 1, position - 2))' = ProtobufInfo(SubSeq(Text', 1, position' - 2))
      BY DEF ProtobufInfo, TypesNamed, Found
    <3> QED
      BY <3>1, <3>2 DEF NamedAlikeForJson
  <2> QED
    BY <1>1, <2>3, <2>8 DEF NameInv
<1> QED
  BY <1>3, <1>4

LEMMA NameStep == NameInv /\ [TextNext]_<<vars, textVars>> => NameInv'
<1> SUFFICES ASSUME NameInv, [TextNext]_<<vars, textVars>> PROVE NameInv'
  OBVIOUS
<1>1. ASSUME query' = query, pc' \notin {"Name", "Start"} PROVE NameInv'
  BY <1>1 DEF NameInv, NamedAlikeForJson
<1>2. CASE GetDescSet
  BY <1>2, GetDescSetNames
<1>3. CASE GetDesc
  BY <1>3, GetDescNames
<1>4. CASE BeginPath
  BY <1>1, <1>4 DEF BeginPath, textVars, EmptyPath, DescendIntoRootMessage
<1>5. CASE ReadCharacter
  BY <1>1, <1>5 DEF ReadCharacter, PartEndsAtDot, vars
<1>6. CASE ReadEnd
  BY <1>1, <1>6 DEF ReadEnd, QueryEnds, textVars
<1>7. CASE BadQuery /\ UNCHANGED textVars
  BY <1>1, <1>7 DEF BadQuery, textVars
<1>8. CASE (Compiled /\ UNCHANGED textVars) \/ UNCHANGED <<vars, textVars>>
  <2>1. UNCHANGED <<query, desc_set, position, pc, root>>
    BY <1>8 DEF Compiled, vars, textVars
  <2> QED
    BY <2>1 DEF NameInv, BehindDescSet, Colons, Text, NamedAlikeForJson, ProtobufInfo, TypesNamed, Found
<1> QED
  BY <1>2, <1>3, <1>4, <1>5, <1>6, <1>7, <1>8 DEF TextNext

\* Whatever the text of a query is and whatever descriptor sets there are:
\* GetProtobufInfoOrThrow finds the message that GetDescSet and GetDesc found in
\* what stands in front of the path, and no other.
THEOREM MessagesAreNamedAlike == TextSpec => []NamedAlikeForJson
<1>1. TextInit => NameInv
  BY DEF TextInit, Init, NameInv, NamedAlikeForJson
<1>2. NameInv => NamedAlikeForJson
  BY DEF NameInv
<1> QED
  BY <1>1, <1>2, NameStep, PTL DEF TextSpec

-----------------------------------------------------------------------------
(* The text is taken apart into the parts that QueryCompilation starts from *)

PathInv ==
  /\ query \in Queries
  /\ desc_set # NoType => desc_set \in DOMAIN DescSets
  /\ position \in Nat \ {0}
  /\ part_buf \in Seq(Nat)

LEMMA BehindFirst ==
  ASSUME query \in Queries, NEW from \in Nat \ {0}, Found(Text, Colon, from) # {}
  PROVE  Min(Found(Text, Colon, from)) + 1 \in Nat \ {0}
<1>1. Text \in Seq(Nat)
  BY QueriesAssumption DEF Text
<1>2. Min(Found(Text, Colon, from)) \in Nat
  BY <1>1, FirstFound
<1> QED
  BY <1>2

LEMMA PathStep == PathInv /\ [TextNext]_<<vars, textVars>> => PathInv'
<1> SUFFICES ASSUME PathInv, [TextNext]_<<vars, textVars>> PROVE PathInv'
  OBVIOUS
<1>1. CASE GetDescSet
  <2>1. Cardinality(Found(Text, Colon, 1)) > 1 => Found(Text, Colon, 1) # {}
    <3>1. Cardinality({}) = 0
      BY FS_EmptySet
    <3> QED
      BY <3>1
  <2>2. /\ query' = query /\ part_buf' = part_buf
        /\ desc_set' = desc_set \/ desc_set' \in DOMAIN DescSets
        /\ \/ position' \in {position, 1}
           \/ Found(Text, Colon, 1) # {} /\ position' = Min(Found(Text, Colon, 1)) + 1
    BY <1>1, <2>1 DEF GetDescSet
  <2> QED
    BY <2>2, BehindFirst DEF PathInv
<1>2. CASE GetDesc
  <2>1. /\ query' = query /\ part_buf' = part_buf /\ desc_set' = desc_set
        /\ \/ position' = position
           \/ Found(Text, Colon, position) # {} /\ position' = Min(Found(Text, Colon, position)) + 1
    BY <1>2 DEF GetDesc
  <2> QED
    BY <2>1, BehindFirst DEF PathInv
<1>3. CASE ReadCharacter
  <2>1. /\ query' = query /\ desc_set' = desc_set /\ position' = position + 1
        /\ position <= Len(Text)
        /\ part_buf' \in {<<>>, Append(part_buf, Text[position])}
    BY <1>3 DEF ReadCharacter
  <2>2. Text \in Seq(Nat) /\ part_buf \in Seq(Nat) /\ position \in Nat \ {0}
    BY QueriesAssumption DEF PathInv, Text
  <2>3. Text[position] \in Nat
    BY <2>1, <2>2, LenProperties, ElementOfSeq
  <2>4. part_buf' \in Seq(Nat)
    <3>1. Append(part_buf, Text[position]) \in Seq(Nat) /\ <<>> \in Seq(Nat)
      BY <2>2, <2>3, AppendProperties, EmptySeq
    <3> QED
      BY <2>1, <3>1
  <2>5. position' \in Nat \ {0}
    BY <2>1, <2>2
  <2> QED
    BY <2>1, <2>4, <2>5 DEF PathInv
<1>4. CASE BeginPath \/ ReadEnd \/ UNCHANGED textVars
  BY <1>4 DEF BeginPath, ReadEnd, textVars, PathInv
<1> QED
  BY <1>1, <1>2, <1>3, <1>4 DEF TextNext

\* Every message of a descriptor set is a root, and every text is a part.
AnyRoot ==
  \A name \in DOMAIN DescSets : \A message \in DOMAIN DescSets[name] :
    DescSets[name][message] \in RootTypes

AnyPart == \A text \in Seq(Nat) : ParsePart(text) \in InnerParts \cap LastParts

LEMMA TextStepCompiles ==
  ASSUME AnyRoot, AnyPart, PathInv, [TextNext]_<<vars, textVars>>
  PROVE  [Next]_vars
<1>1. CASE GetDescSet
  BY <1>1 DEF GetDescSet, Next
<1>2. CASE GetDesc
  <2>1. desc_set \in DOMAIN DescSets
    BY <1>2 DEF GetDesc, PathInv
  <2>2. \/ NamesNothing
        \/ \E name \in DOMAIN DescSets[desc_set] : NamesRoot(DescSets[desc_set][name])
    BY <1>2 DEF GetDesc
  <2>3. NamesNothing \/ \E type \in RootTypes : NamesRoot(type)
    BY <2>1, <2>2 DEF AnyRoot
  <2> QED
    BY <2>3 DEF Next
<1>3. CASE BeginPath
  BY <1>3 DEF BeginPath, Next
<1>4. PICK part : part = ParsePart(part_buf)
  OBVIOUS
<1>5. part \in InnerParts /\ part \in LastParts
  BY <1>4 DEF AnyPart, PathInv
<1>6. CASE ReadCharacter
  <2>1. UNCHANGED vars \/ PartEndsAtDot(part)
    BY <1>4, <1>6 DEF ReadCharacter
  <2> QED
    BY <1>5, <2>1 DEF Next
<1>7. CASE ReadEnd
  BY <1>4, <1>5, <1>7 DEF ReadEnd, Next
<1>8. CASE BadQuery \/ Compiled \/ UNCHANGED vars
  BY <1>8 DEF Next
<1> QED
  BY <1>1, <1>2, <1>3, <1>6, <1>7, <1>8 DEF TextNext

\* Reading the text of a query, character by character, does nothing to what is
\* compiled but name a root and compile one part after the other: QueryText
\* implements QueryCompilation, with the texts that can be parts for its parts.
THEOREM TextImplementsParts ==
  ASSUME AnyRoot, AnyPart
  PROVE  TextSpec => Spec
<1>1. TextInit => PathInv /\ Init
  BY EmptySeq DEF TextInit, PathInv
<1>2. PathInv /\ [TextNext]_<<vars, textVars>> => [Next]_vars
  BY TextStepCompiles
<1> QED
  BY <1>1, <1>2, PathStep, PTL DEF TextSpec, Spec

-----------------------------------------------------------------------------
(* The parts of a path compiled one after the other: FoldLeft is a function *)
(* on the sets of positions of the path                                     *)

\* f[t] is what the parts of s at the places t are compiled to, behind b.
Folds(f, b, s, k) ==
  f = [t \in SUBSET (1 .. k) |->
         IF t = {} THEN b ELSE CompileInnerPart(f[t \ {Max(t)}], s[Max(t)])]

\* The greatest of some positions.
LEMMA Greatest ==
  ASSUME NEW k \in Nat, NEW t, t \subseteq 1 .. k, t # {}
  PROVE  Max(t) \in t /\ \A y \in t : y <= Max(t)
<1> DEFINE U == {u \in Nat : \A y \in t : y <= u}
<1>1. k \in U
  OBVIOUS
<1>2. PICK u : u = Min(U)
  OBVIOUS
<1>3. u \in U /\ \A v \in U : u <= v
  <2>1. U \subseteq Nat /\ U # {}
    BY <1>1
  <2> HIDE DEF U
  <2> QED
    BY <1>2, <2>1, Least
<1>4. u \in t
  <2>1. CASE u \notin t
    <3>1. \A y \in t : y <= u - 1 /\ 1 <= y
      BY <1>3, <2>1
    <3>2. u - 1 \in Nat
      <4>1. PICK y \in t : TRUE
        OBVIOUS
      <4>2. y \in Nat /\ 1 <= y /\ y <= u - 1
        BY <3>1, <4>1
      <4>3. u \in Nat
        BY <1>3
      <4> QED
        BY <4>2, <4>3
    <3>3. u - 1 \in U
      BY <3>1, <3>2
    <3>4. u <= u - 1
      BY <1>3, <3>3
    <3> QED
      BY <1>3, <3>4
  <2> QED
    BY <2>1
<1>5. \E x \in t : \A y \in t : x >= y
  BY <1>3, <1>4
<1>6. Max(t) \in t /\ \A y \in t : Max(t) >= y
  BY <1>5 DEF Max
<1> QED
  BY <1>6

\* There is such a function, by recursion on the number of positions.
LEMMA FoldsExist ==
  ASSUME NEW b, NEW s, NEW k \in Nat
  PROVE  \E f : Folds(f, b, s, k)
<1> DEFINE U == {j \in Nat : ~\E f : Folds(f, b, s, j)}
<1>1. CASE U = {}
  BY <1>1
<1>2. CASE U # {}
  <2>1. PICK j : j = Min(U)
    OBVIOUS
  <2>2. j \in U /\ \A i \in U : j <= i
    <3>1. U \subseteq Nat
      OBVIOUS
    <3> HIDE DEF U
    <3> QED
      BY <1>2, <2>1, <3>1, Least
  <2>3. CASE j = 0
    <3>1. SUBSET (1 .. 0) = {{}}
      OBVIOUS
    <3>2. Folds([t \in {{}} |-> b], b, s, 0)
      BY <3>1 DEF Folds
    <3> QED
      BY <2>2, <2>3, <3>2
  <2>4. CASE j # 0
    <3>1. PICK i \in Nat : j = i + 1
      <4>1. j - 1 \in Nat /\ j = (j - 1) + 1
        BY <2>2, <2>4
      <4> QED
        BY <4>1
    <3>2. i \notin U
      BY <2>2, <3>1
    <3>3. PICK f : Folds(f, b, s, i)
      BY <3>2
    <3>4. PICK g : g = [t \in SUBSET (1 .. j) |-> IF t \subseteq 1 .. i THEN f[t] ELSE CompileInnerPart(f[t \ {j}], s[j])]
      OBVIOUS
    <3>5. \A t \in SUBSET (1 .. j) :
             g[t] = IF t = {} THEN b ELSE CompileInnerPart(g[t \ {Max(t)}], s[Max(t)])
      <4> TAKE t \in SUBSET (1 .. j)
      <4>1. CASE t = {}
        BY <3>3, <3>4, <4>1 DEF Folds
      <4>2. CASE t # {} /\ t \subseteq 1 .. i
        <5>1. t \ {Max(t)} \subseteq 1 .. i /\ t \ {Max(t)} \in SUBSET (1 .. j)
          BY <4>2
        <5>2. g[t \ {Max(t)}] = f[t \ {Max(t)}] /\ g[t] = f[t]
          BY <3>4, <4>2, <5>1
        <5>3. f[t] = CompileInnerPart(f[t \ {Max(t)}], s[Max(t)])
          BY <3>3, <4>2, Zenon DEF Folds
        <5> QED
          BY <4>2, <5>2, <5>3
      <4>3. CASE ~(t \subseteq 1 .. i)
        <5>1. PICK x \in t : x \notin 1 .. i
          BY <4>3
        <5>2. x = j
          BY <3>1, <5>1
        <5>3. Max(t) \in t /\ \A y \in t : y <= Max(t)
          BY <2>2, <4>3, Greatest
        <5>4. Max(t) = j
          <6>1. PICK max : max = Max(t)
            OBVIOUS
          <6>2. max \in 1 .. j /\ j <= max
            BY <5>2, <5>3, <6>1
          <6>3. j \in Nat
            BY <2>2
          <6> QED
            BY <6>1, <6>2, <6>3
        <5>5. t \ {j} \subseteq 1 .. i /\ t \ {j} \in SUBSET (1 .. j)
          BY <3>1
        <5>6. g[t \ {j}] = f[t \ {j}] /\ g[t] = CompileInnerPart(f[t \ {j}], s[j])
          BY <3>4, <4>3, <5>5
        <5> QED
          BY <4>3, <5>4, <5>6
      <4> QED
        BY <4>1, <4>2, <4>3
    <3>6. g = [t \in SUBSET (1 .. j) |-> g[t]]
      BY <3>4
    <3>7. Folds(g, b, s, j)
      <4>1. g = [t \in SUBSET (1 .. j) |-> IF t = {} THEN b ELSE CompileInnerPart(g[t \ {Max(t)}], s[Max(t)])]
        BY <3>5, <3>6, Zenon
      <4> QED
        BY <4>1 DEF Folds
    <3> QED
      BY <2>2, <3>7
  <2> QED
    BY <2>3, <2>4
<1> QED
  BY <1>1, <1>2

\* One such function is like another, as far as the two reach.
LEMMA FoldsAgree ==
  ASSUME NEW b, NEW s, NEW t, NEW k \in Nat, NEW l \in Nat, k <= l,
         \A i \in 1 .. k : s[i] = t[i],
         NEW f, Folds(f, b, s, k), NEW g, Folds(g, b, t, l)
  PROVE  f[1 .. k] = g[1 .. k]
<1> DEFINE U == {j \in Nat : \E r \in SUBSET (1 .. k) : r \subseteq 1 .. j /\ f[r] # g[r]}
<1>1. CASE U = {}
  BY <1>1
<1>2. CASE U # {}
  <2>1. PICK j : j = Min(U)
    OBVIOUS
  <2>2. j \in U /\ \A i \in U : j <= i
    <3>1. U \subseteq Nat
      OBVIOUS
    <3> HIDE DEF U
    <3> QED
      BY <1>2, <2>1, <3>1, Least
  <2>3. PICK r \in SUBSET (1 .. k) : r \subseteq 1 .. j /\ f[r] # g[r]
    BY <2>2
  <2>4. r \in SUBSET (1 .. l)
    OBVIOUS
  <2>5. /\ f[r] = IF r = {} THEN b ELSE CompileInnerPart(f[r \ {Max(r)}], s[Max(r)])
        /\ g[r] = IF r = {} THEN b ELSE CompileInnerPart(g[r \ {Max(r)}], t[Max(r)])
    BY <2>3, <2>4, Zenon DEF Folds
  <2>6. r # {}
    BY <2>3, <2>5
  <2>7. Max(r) \in r /\ \A y \in r : y <= Max(r)
    BY <2>6, Greatest
  <2>8. PICK x : x = Max(r)
    OBVIOUS
  <2>9. x \in 1 .. k /\ x \in 1 .. j /\ s[x] = t[x]
    BY <2>3, <2>7, <2>8
  <2>10. x - 1 \in Nat /\ x - 1 < j
    BY <2>2, <2>9
  <2>11. r \ {x} \subseteq 1 .. x - 1 /\ r \ {x} \in SUBSET (1 .. k)
    <3>1. \A y \in r \ {x} : y \in 1 .. x - 1
      <4> TAKE y \in r \ {x}
      <4>1. y \in 1 .. k /\ y <= x /\ y # x
        BY <2>7, <2>8
      <4> QED
        BY <2>9, <4>1
    <3> QED
      BY <3>1
  <2>12. x - 1 \notin U
    BY <2>2, <2>10
  <2>13. f[r \ {x}] = g[r \ {x}]
    BY <2>10, <2>11, <2>12
  <2> QED
    BY <2>3, <2>5, <2>6, <2>8, <2>9, <2>13
<1> QED
  BY <1>1, <1>2

\* The parts of s, compiled one after the other behind b.
Folded(b, s) == FoldLeft(CompileInnerPart, b, s)

\* What FoldLeft is of a path is what such a function is of all its positions.
LEMMA FoldLeftFolds ==
  ASSUME NEW b, NEW s, NEW k \in Nat, DOMAIN s = 1 .. k
  PROVE  \E f : Folds(f, b, s, k) /\ Folded(b, s) = f[1 .. k]
<1>1. FoldLeft(CompileInnerPart, b, s) =
        (CHOOSE f : f = [t \in SUBSET (DOMAIN s) |->
           IF t = {} THEN b ELSE CompileInnerPart(f[t \ {Max(t)}], s[Max(t)])])[DOMAIN s]
  BY DEF FoldLeft, MapThenFoldSet
<1>2. \E f : f = [t \in SUBSET (DOMAIN s) |->
           IF t = {} THEN b ELSE CompileInnerPart(f[t \ {Max(t)}], s[Max(t)])]
  <2>1. PICK f : Folds(f, b, s, k)
    BY FoldsExist
  <2>2. f = [t \in SUBSET (DOMAIN s) |->
           IF t = {} THEN b ELSE CompileInnerPart(f[t \ {Max(t)}], s[Max(t)])]
    BY <2>1, Zenon DEF Folds
  <2> QED
    BY <2>2, Zenon
<1>3. PICK f : f = CHOOSE g : g = [t \in SUBSET (DOMAIN s) |->
           IF t = {} THEN b ELSE CompileInnerPart(g[t \ {Max(t)}], s[Max(t)])]
  OBVIOUS
<1>4. f = [t \in SUBSET (DOMAIN s) |->
           IF t = {} THEN b ELSE CompileInnerPart(f[t \ {Max(t)}], s[Max(t)])]
  BY <1>2, <1>3, Zenon
<1>5. Folds(f, b, s, k)
  BY <1>4, Zenon DEF Folds
<1>6. FoldLeft(CompileInnerPart, b, s) = f[1 .. k]
  BY <1>1, <1>3, Zenon
<1> QED
  BY <1>5, <1>6, Zenon DEF Folded

\* No parts: nothing is compiled.
LEMMA FoldNone ==
  ASSUME NEW b, NEW s, DOMAIN s = 1 .. 0
  PROVE  Folded(b, s) = b
<1>1. PICK f : Folds(f, b, s, 0) /\ Folded(b, s) = f[1 .. 0]
  BY FoldLeftFolds
<1>2. 1 .. 0 = {}
  OBVIOUS
<1>3. f[{}] = b
  BY <1>1, Zenon DEF Folds
<1> QED
  BY <1>1, <1>2, <1>3

\* The last part is compiled behind all others.
LEMMA FoldNext ==
  ASSUME NEW b, NEW k \in Nat, NEW s, DOMAIN s = 1 .. k, NEW t, DOMAIN t = 1 .. k + 1,
         \A i \in 1 .. k : s[i] = t[i]
  PROVE  Folded(b, t) =
           CompileInnerPart(Folded(b, s), t[k + 1])
<1>1. PICK f : Folds(f, b, s, k) /\ Folded(b, s) = f[1 .. k]
  BY FoldLeftFolds
<1>2. PICK g : Folds(g, b, t, k + 1) /\ Folded(b, t) = g[1 .. k + 1]
  BY FoldLeftFolds
<1>3. f[1 .. k] = g[1 .. k]
  BY <1>1, <1>2, FoldsAgree
<1>4. Max(1 .. k + 1) = k + 1
  <2>1. PICK r : r = 1 .. k + 1
    OBVIOUS
  <2>2. r # {} /\ k + 1 \in r /\ k + 1 \in Nat /\ r \subseteq 1 .. k + 1
    <3>1. k + 1 \in 1 .. k + 1 /\ k + 1 \in Nat
      OBVIOUS
    <3> QED
      BY <2>1, <3>1, Zenon
  <2>3. Max(r) \in r /\ \A y \in r : y <= Max(r)
    <3>1. PICK l \in Nat : l = k + 1
      BY <2>2
    <3>2. r \subseteq 1 .. l
      BY <2>2, <3>1
    <3> QED
      BY <2>2, <3>2, Greatest
  <2>4. PICK max : max = Max(r)
    OBVIOUS
  <2>5. max \in 1 .. k + 1 /\ k + 1 <= max
    BY <2>1, <2>2, <2>3, <2>4
  <2>6. Max(r) = k + 1
    BY <2>4, <2>5
  <2> QED
    BY <2>1, <2>6
<1>5. 1 .. k + 1 # {} /\ (1 .. k + 1) \ {k + 1} = 1 .. k
  OBVIOUS
<1>6. g[1 .. k + 1] = CompileInnerPart(g[(1 .. k + 1) \ {Max(1 .. k + 1)}], t[Max(1 .. k + 1)])
  BY <1>2, <1>5, Zenon DEF Folds
<1> QED
  BY <1>1, <1>2, <1>3, <1>4, <1>5, <1>6

\* What the first n parts of a path are compiled to.
UpTo(type, path, n) ==
  Folded(DescendIntoRoot(Root(type)), SubSeq(path, 1, n))

\* The first n parts are the parts they are.
LEMMA FirstParts ==
  ASSUME NEW S, NEW s \in Seq(S), NEW n \in Nat, n <= Len(s)
  PROVE  DOMAIN SubSeq(s, 1, n) = 1 .. n /\ \A i \in 1 .. n : SubSeq(s, 1, n)[i] = s[i]
<1>1. Len(s) \in Nat
  BY LenProperties
<1>2. \A i \in 1 .. n : s[i] \in S
  BY <1>1, ElementOfSeq
<1>3. PICK t : t = SubSeq(s, 1, n)
  OBVIOUS
<1>4. /\ t \in Seq(S) /\ Len(t) = IF 1 <= n THEN n - 1 + 1 ELSE 0
      /\ \A i \in 1 .. n - 1 + 1 : t[i] = s[1 + i - 1]
  BY <1>2, <1>3, SubSeqProperties
<1>5. n - 1 + 1 = n /\ (~(1 <= n) => n = 0)
  OBVIOUS
<1>6. Len(t) = n
  BY <1>4, <1>5
<1>7. DOMAIN t = 1 .. n
  BY <1>4, <1>6, LenProperties
<1>8. \A i \in 1 .. n : t[i] = s[i]
  <2> TAKE i \in 1 .. n
  <2>1. 1 + i - 1 = i
    OBVIOUS
  <2> QED
    BY <1>4, <1>5, <2>1
<1> QED
  BY <1>3, <1>7, <1>8

\* In front of the first part there is the root.
LEMMA UpToNone ==
  ASSUME NEW S, NEW path \in Seq(S), NEW type
  PROVE  UpTo(type, path, 0) = DescendIntoRoot(Root(type))
<1>1. Len(path) \in Nat
  BY LenProperties
<1>2. DOMAIN SubSeq(path, 1, 0) = 1 .. 0
  BY <1>1, FirstParts
<1> QED
  BY <1>2, FoldNone DEF UpTo

\* Another inner part is compiled behind those in front of it.
LEMMA UpToNext ==
  ASSUME NEW S, NEW path \in Seq(S), NEW type, NEW n \in Nat, n < Len(path)
  PROVE  UpTo(type, path, n + 1) = CompileInnerPart(UpTo(type, path, n), path[n + 1])
<1>1. Len(path) \in Nat
  BY LenProperties
<1>2. PICK m \in Nat : m = n + 1
  OBVIOUS
<1>3. m <= Len(path) /\ n <= Len(path)
  BY <1>1, <1>2
<1>4. PICK s, t : s = SubSeq(path, 1, n) /\ t = SubSeq(path, 1, m)
  OBVIOUS
<1>5. DOMAIN s = 1 .. n /\ \A i \in 1 .. n : s[i] = path[i]
  BY <1>3, <1>4, FirstParts
<1>6. DOMAIN t = 1 .. m /\ \A i \in 1 .. m : t[i] = path[i]
  BY <1>3, <1>4, FirstParts
<1>7. DOMAIN t = 1 .. n + 1 /\ t[n + 1] = path[n + 1] /\ \A i \in 1 .. n : s[i] = t[i]
  <2>1. \A i \in 1 .. n : i \in 1 .. m
    BY <1>2
  <2>2. n + 1 \in 1 .. m
    BY <1>2
  <2> QED
    BY <1>2, <1>5, <1>6, <2>1, <2>2
<1>8. Folded(DescendIntoRoot(Root(type)), t) =
        CompileInnerPart(Folded(DescendIntoRoot(Root(type)), s), t[n + 1])
  BY <1>5, <1>7, FoldNext
<1> QED
  BY <1>2, <1>4, <1>7, <1>8 DEF UpTo

\* A query is compiled as its inner parts, then its last one.
LEMMA WholePath ==
  ASSUME NEW S, NEW path \in Seq(S), NEW type, path # <<>>
  PROVE  CompileQuery(type, path, NoLimit) =
           CompileLastPart(UpTo(type, path, Len(path) - 1), path[Len(path)], NoLimit)
BY DEF CompileQuery, UpTo, Folded, Front, Last

-----------------------------------------------------------------------------
(* A part that is rejected is the last one that is looked at *)

Shaped(c) == IsCompiled(c) /\ c.thrown \in BOOLEAN

\* An inner part is looked at only if no part before it was rejected.
LEMMA InnerPartShaped ==
  ASSUME NEW c, Shaped(c), NEW part
  PROVE  Shaped(CompileInnerPart(c, part)) /\ (c.thrown => CompileInnerPart(c, part) = c)
<1>1. c = [desc_ptrs |-> c.desc_ptrs, visitors |-> c.visitors, thrown |-> c.thrown]
  BY DEF Shaped, IsCompiled
<1>2. PICK next : next = CompileQueryPart(c, part)
  OBVIOUS
<1>3. \E d, v, t : next = [c EXCEPT !.thrown = TRUE] \/ next = [c EXCEPT !.desc_ptrs = d, !.visitors = v]
  BY <1>2 DEF CompileQueryPart
<1>4. Shaped(next)
  BY <1>1, <1>3 DEF Shaped, IsCompiled
<1>5. c.thrown => next = c /\ next.thrown
  BY <1>1, <1>2 DEF CompileQueryPart, Shaped
<1>6. CompileInnerPart(c, part) = IF next.thrown THEN next ELSE [next EXCEPT !.visitors = Append(@, Descend)]
  BY <1>2 DEF CompileInnerPart
<1> QED
  BY <1>4, <1>5, <1>6 DEF Shaped, IsCompiled

\* So is the last part.
LEMMA LastPartThrown ==
  ASSUME NEW c, Shaped(c), c.thrown, NEW part
  PROVE  CompileLastPart(c, part, NoLimit) = c
<1>1. c = [desc_ptrs |-> c.desc_ptrs, visitors |-> c.visitors, thrown |-> c.thrown]
  BY DEF Shaped, IsCompiled
<1>2. CompileQueryPart(c, part) = c
  BY <1>1 DEF CompileQueryPart, Shaped
<1> QED
  BY <1>2 DEF CompileLastPart

\* What the first parts are compiled to stays a compiled query.
LEMMA UpToShaped ==
  ASSUME NEW S, NEW path \in Seq(S), NEW type, NEW n \in Nat, n <= Len(path)
  PROVE  Shaped(UpTo(type, path, n))
<1> DEFINE U == {k \in Nat : k <= Len(path) /\ ~Shaped(UpTo(type, path, k))}
<1>1. Len(path) \in Nat
  BY LenProperties
<1>2. CASE U = {}
  BY <1>2
<1>3. CASE U # {}
  <2>1. PICK k : k = Min(U)
    OBVIOUS
  <2>2. k \in U /\ \A i \in U : k <= i
    <3>1. U \subseteq Nat
      OBVIOUS
    <3> HIDE DEF U
    <3> QED
      BY <1>3, <2>1, <3>1, Least
  <2>3. CASE k = 0
    <3>1. UpTo(type, path, 0) = DescendIntoRoot(Root(type))
      BY UpToNone
    <3>2. Shaped(DescendIntoRoot(Root(type)))
      <4>1. PICK r, v : r = Root(type) /\ v = <<Descend>>
        OBVIOUS
      <4>2. r.thrown = FALSE /\ r = [desc_ptrs |-> r.desc_ptrs, visitors |-> r.visitors, thrown |-> r.thrown]
        BY <4>1 DEF Root
      <4>3. PICK c : c = [r EXCEPT !.visitors = v]
        OBVIOUS
      <4>4. Shaped(c)
        BY <4>2, <4>3 DEF Shaped, IsCompiled
      <4>5. DescendIntoRoot(Root(type)) = c
        BY <4>1, <4>3, Zenon DEF DescendIntoRoot
      <4> QED
        BY <4>4, <4>5
    <3> QED
      BY <2>2, <2>3, <3>1, <3>2
  <2>4. CASE k # 0
    <3>1. PICK i \in Nat : k = i + 1
      <4>1. k - 1 \in Nat /\ k = (k - 1) + 1
        BY <2>2, <2>4
      <4> QED
        BY <4>1
    <3>2. i < Len(path) /\ i \notin U
      BY <1>1, <2>2, <3>1
    <3>3. Shaped(UpTo(type, path, i))
      BY <1>1, <3>1, <3>2
    <3>4. UpTo(type, path, k) = CompileInnerPart(UpTo(type, path, i), path[i + 1])
      BY <3>1, <3>2, UpToNext
    <3> QED
      BY <2>2, <3>3, <3>4, InnerPartShaped
  <2> QED
    BY <2>3, <2>4
<1> QED
  BY <1>2, <1>3

\* A query is rejected for the first part that is.
LEMMA ThrownStays ==
  ASSUME NEW S, NEW path \in Seq(S), NEW type, NEW n \in Nat, n < Len(path), UpTo(type, path, n).thrown
  PROVE  CompileQuery(type, path, NoLimit) = UpTo(type, path, n)
<1> DEFINE U == {k \in Nat : n <= k /\ k < Len(path) /\ UpTo(type, path, k) # UpTo(type, path, n)}
<1>1. Len(path) \in Nat
  BY LenProperties
<1>2. CASE U # {}
  <2>1. PICK k : k = Min(U)
    OBVIOUS
  <2>2. k \in U /\ \A i \in U : k <= i
    <3>1. U \subseteq Nat
      OBVIOUS
    <3> HIDE DEF U
    <3> QED
      BY <1>2, <2>1, <3>1, Least
  <2>3. k # n
    BY <2>2
  <2>4. PICK i \in Nat : k = i + 1 /\ n <= i
    <3>1. k - 1 \in Nat /\ k = (k - 1) + 1 /\ n <= k - 1
      BY <2>2, <2>3
    <3> QED
      BY <3>1
  <2>5. i < Len(path) /\ i \notin U
    BY <1>1, <2>2, <2>4
  <2>6. UpTo(type, path, i) = UpTo(type, path, n)
    BY <2>4, <2>5
  <2>7. UpTo(type, path, k) = CompileInnerPart(UpTo(type, path, i), path[i + 1])
    BY <2>4, <2>5, UpToNext
  <2>8. Shaped(UpTo(type, path, n))
    BY <1>1, UpToShaped
  <2> QED
    BY <2>2, <2>6, <2>7, <2>8, InnerPartShaped
<1>3. CASE U = {}
  <2>1. PICK l \in Nat : l = Len(path) - 1
    <3>1. Len(path) - 1 \in Nat
      BY <1>1
    <3> QED
      BY <3>1
  <2>2. n <= l /\ l < Len(path) /\ path # <<>>
    BY <1>1, <2>1, EmptySeq
  <2>3. UpTo(type, path, l) = UpTo(type, path, n)
    BY <1>3, <2>2
  <2>4. Shaped(UpTo(type, path, n))
    BY <1>1, UpToShaped
  <2> QED
    BY <2>1, <2>2, <2>3, <2>4, WholePath, LastPartThrown
<1> QED
  BY <1>2, <1>3

-----------------------------------------------------------------------------
(* CompileQueryPart reads a part as README.md has it written *)

\* A number that fits a word is not changed by it.
LEMMA SmallNumber ==
  ASSUME NEW w \in Nat \ {0}, NEW n \in 0 .. w - 1
  PROVE  n % w = n
<1>1. PICK q \in Int, r \in 0 .. w - 1 : r = n % w /\ n = w * q + r
  <2>1. n \div w \in Int /\ n % w \in 0 .. w - 1
    OBVIOUS
  <2>2. n = w * (n \div w) + (n % w)
    OBVIOUS
  <2> QED
    BY <2>1, <2>2
<1>2. w * q \in Int /\ (q >= 1 => w * q >= w) /\ (q <= -1 => w * q <= -w) /\ (q = 0 => w * q = 0)
  OBVIOUS
<1>3. q = 0
  BY <1>1, <1>2
<1> QED
  BY <1>1, <1>2, <1>3

\* A numeral that begins with a digit has no blanks and no sign in front.
LEMMA DigitsOfNumber ==
  ASSUME NEW s \in Seq(Nat), s # <<>>, s[1] \in 48 .. 57
  PROVE  Digits(s) = s
<1> DEFINE ink == {i \in DOMAIN s : s[i] \notin Blanks}
<1>1. Len(s) \in Nat \ {0} /\ DOMAIN s = 1 .. Len(s)
  BY EmptySeq, LenProperties
<1>2. ink \subseteq Nat /\ 1 \in ink
  BY <1>1 DEF Blanks
<1>3. Min(ink) = 1
  <2>1. Min(ink) \in ink /\ \A i \in ink : Min(ink) <= i
    BY <1>2, Least
  <2>2. PICK i \in Nat : i = Min(ink)
    BY <1>2, <2>1
  <2>3. i \in 1 .. Len(s) /\ i <= 1
    BY <1>1, <1>2, <2>1, <2>2
  <2> QED
    BY <1>1, <2>2, <2>3
<1>4. SubSeq(s, 1, Len(s)) = s
  BY <1>1
<1>5. Trimmed(s) = s
  BY <1>2, <1>3, <1>4 DEF Trimmed
<1>6. Head(s) = s[1]
  BY <1>1
<1>7. ~StartsWith(s, {43, 45})
  BY <1>5, <1>6 DEF StartsWith
<1> QED
  BY <1>5, <1>7 DEF Digits

LEMMA DigitsOfNothing == Digits(<<>>) = <<>>
<1>1. Trimmed(<<>>) = <<>>
  BY DEF Trimmed
<1> QED
  BY <1>1 DEF Digits, StartsWith

\* A selector holds no filter, and is looked up as what it denotes.
LEMMA SelectorDenotes ==
  ASSUME NEW selector \in Seq(Nat), NEW number \in Nat, Denotes(selector, number)
  PROVE  /\ selector # <<>>
         /\ \A i \in DOMAIN selector : selector[i] \notin {OpenBracket, Pipe}
         /\ number = IF selector[1] \in 48 .. 57 THEN FieldNumbered(selector) ELSE FieldNamed(selector)
<1>1. CASE number \in DOMAIN FieldName /\ FieldName[number] = selector
  <2>1. /\ selector # <<>> /\ selector[1] \notin 48 .. 57
        /\ \A i \in DOMAIN selector : selector[i] \notin {Dot, Pipe, OpenBracket}
        /\ \A k \in DOMAIN FieldName : FieldName[k] = selector => k = number
    BY <1>1, FieldNameAssumption
  <2>2. (CHOOSE n \in DOMAIN FieldName : FieldName[n] = selector) = number
    BY <1>1, <2>1
  <2>3. FieldNamed(selector) = number
    BY <1>1, <2>2 DEF FieldNamed
  <2> QED
    BY <2>1, <2>3
<1>2. CASE /\ selector # <<>> /\ \A i \in DOMAIN selector : selector[i] \in 48 .. 57
           /\ number = NumeralValue(selector) /\ number \in 0 .. IntRange - 1
  <2>1. Len(selector) \in Nat \ {0} /\ DOMAIN selector = 1 .. Len(selector)
    BY <1>2, EmptySeq, LenProperties
  <2>2. selector[1] \in 48 .. 57
    <3>1. 1 \in DOMAIN selector
      BY <2>1
    <3> QED
      BY <1>2, <3>1
  <2>3. Digits(selector) = selector
    BY <1>2, <2>2, DigitsOfNumber
  <2>4. IsNumeral(selector)
    BY <1>2, <2>3 DEF IsNumeral
  <2>5. number % IntRange = number
    BY <1>2, IntRangeAssumption, SmallNumber
  <2>6. FieldNumbered(selector) = number
    BY <1>2, <2>4, <2>5 DEF FieldNumbered
  <2>7. \A i \in DOMAIN selector : selector[i] \notin {OpenBracket, Pipe}
    <3> TAKE i \in DOMAIN selector
    <3>1. PICK ch \in 48 .. 57 : ch = selector[i]
      BY <1>2
    <3>2. ch # 91 /\ ch # 124
      BY <3>1
    <3> QED
      BY <3>1, <3>2 DEF OpenBracket, Pipe
  <2> QED
    BY <1>2, <2>2, <2>6, <2>7
<1> QED
  BY <1>1, <1>2 DEF Denotes

\* A filter in brackets is told from one behind a pipe, and its text is kept.
LEMMA Brackets ==
  ASSUME NEW t \in Seq(Nat), NEW f, f = <<OpenBracket>> \o t \o <<CloseBracket>>
  PROVE  /\ f \in Seq(Nat) /\ f # <<>> /\ f # PipeKeys
         /\ f[1] = OpenBracket /\ Bracketed(f) /\ Front(Tail(f)) = t
<1>1. PICK a, b : a = <<OpenBracket>> /\ b = <<CloseBracket>>
  OBVIOUS
<1>2. /\ a \in Seq(Nat) /\ Len(a) = 1 /\ a[1] = 91
      /\ b \in Seq(Nat) /\ Len(b) = 1 /\ b[1] = 93
  BY <1>1 DEF OpenBracket, CloseBracket
<1>3. PICK l \in Nat : l = Len(t)
  BY LenProperties
<1>4. PICK g : g = a \o t
  OBVIOUS
<1>5. /\ g \in Seq(Nat) /\ Len(g) = 1 + l
      /\ g[1] = 91 /\ \A i \in 1 .. l : g[1 + i] = t[i]
  <2>1. IsSequence(a) /\ IsSequence(t)
    BY <1>2 DEF IsSequence
  <2>2. /\ Len(a \o t) = Len(a) + Len(t) /\ \A i \in 1 .. Len(a) : (a \o t)[i] = a[i]
        /\ \A i \in 1 .. Len(t) : (a \o t)[Len(a) + i] = t[i]
    BY <2>1, Concatenated
  <2>3. g \in Seq(Nat)
    BY <1>2, <1>4
  <2> QED
    BY <1>2, <1>3, <1>4, <2>2, <2>3
<1>6. f = g \o b
  BY <1>1, <1>4
<1>7. /\ f \in Seq(Nat) /\ Len(f) = 1 + l + 1
      /\ f[1 + l + 1] = 93 /\ \A i \in 1 .. 1 + l : f[i] = g[i]
  <2>1. IsSequence(g) /\ IsSequence(b)
    BY <1>2, <1>5 DEF IsSequence
  <2>2. /\ Len(g \o b) = Len(g) + Len(b) /\ \A i \in 1 .. Len(g) : (g \o b)[i] = g[i]
        /\ \A i \in 1 .. Len(b) : (g \o b)[Len(g) + i] = b[i]
    BY <2>1, Concatenated
  <2>3. f \in Seq(Nat)
    <3>1. g \in Seq(Nat) /\ b \in Seq(Nat)
      BY <1>2, <1>5
    <3>2. g \o b \in Seq(Nat)
      BY <3>1, ConcatProperties
    <3> QED
      BY <1>6, <3>2, Zenon
  <2>4. Len(f) = 1 + l + 1
    BY <1>2, <1>5, <1>6, <2>2
  <2>5. f[1 + l + 1] = 93
    <3>1. 1 \in 1 .. Len(b) /\ Len(g) = 1 + l /\ b[1] = 93
      BY <1>2, <1>5
    <3>2. (g \o b)[Len(g) + 1] = b[1]
      BY <2>2, <3>1
    <3> QED
      BY <1>6, <3>1, <3>2
  <2>6. \A i \in 1 .. 1 + l : f[i] = g[i]
    BY <1>5, <1>6, <2>2
  <2> QED
    BY <2>3, <2>4, <2>5, <2>6
<1>8. f[1] = 91 /\ f[l + 2] = 93 /\ \A i \in 1 .. l : f[i + 1] = t[i]
  <2>1. 1 \in 1 .. 1 + l /\ 1 + l + 1 = l + 2
    OBVIOUS
  <2>2. ASSUME NEW i \in 1 .. l PROVE f[i + 1] = t[i]
    <3>1. i + 1 \in 1 .. 1 + l /\ 1 + i = i + 1
      OBVIOUS
    <3> QED
      BY <1>5, <1>7, <3>1
  <2> QED
    BY <1>5, <1>7, <2>1, <2>2
<1>9. Len(f) = l + 2 /\ f # <<>>
  BY <1>7, EmptySeq
<1>10. Bracketed(f)
  BY <1>8, <1>9 DEF Bracketed, Last, OpenBracket, CloseBracket
<1>11. f # PipeKeys
  <2>1. PipeKeys[1] = 124
    BY DEF PipeKeys, Pipe
  <2>2. f[1] # PipeKeys[1]
    BY <1>8, <2>1
  <2> QED
    BY <2>2
<1>12. PICK h : h = Tail(f)
  OBVIOUS
<1>13. h \in Seq(Nat) /\ Len(h) = l + 1 /\ \A i \in 1 .. l + 1 : h[i] = f[i + 1]
  <2>1. h \in Seq(Nat) /\ Len(h) = Len(f) - 1 /\ \A i \in 1 .. Len(h) : h[i] = f[i + 1]
    BY <1>7, <1>9, <1>12, HeadTailProperties
  <2>2. Len(h) = l + 1
    BY <1>9, <2>1
  <2> QED
    BY <2>1, <2>2
<1>14. Front(h) = t
  <2>1. PICK s : s = SubSeq(h, 1, l)
    OBVIOUS
  <2>2. l + 1 - 1 = l
    OBVIOUS
  <2>3. Front(h) = s
    BY <1>13, <2>1, <2>2 DEF Front
  <2>4. DOMAIN s = 1 .. l /\ \A i \in 1 .. l : s[i] = h[i]
    BY <1>13, <2>1, FirstParts
  <2>5. s \in Seq(Nat)
    BY <1>13, <2>1
  <2>6. Len(s) = l
    BY <2>4, <2>5, LenProperties
  <2>7. \A i \in 1 .. l : s[i] = t[i]
    <3> TAKE i \in 1 .. l
    <3>1. i \in 1 .. l + 1
      OBVIOUS
    <3>2. h[i] = f[i + 1]
      BY <1>13, <3>1
    <3>3. f[i + 1] = t[i]
      BY <1>8
    <3>4. s[i] = h[i]
      BY <2>4
    <3> QED
      BY <3>2, <3>3, <3>4
  <2>8. s = t
    BY <1>3, <2>5, <2>6, <2>7, SeqEqual
  <2> QED
    BY <2>3, <2>8
<1> QED
  BY <1>7, <1>8, <1>9, <1>10, <1>11, <1>12, <1>14 DEF OpenBracket

\* The selector ends where the filter begins.
LEMMA SelectorEnds ==
  ASSUME NEW text \in Seq(Nat), NEW n \in Nat, n <= Len(text),
         \A i \in 1 .. n : text[i] \notin {OpenBracket, Pipe},
         n < Len(text) => text[n + 1] \in {OpenBracket, Pipe}
  PROVE  FieldSelectorEnd(text) = n
<1>1. Len(text) \in Nat
  BY LenProperties
<1>2. PICK ends : ends = Found(text, OpenBracket, 1) \cup Found(text, Pipe, 1)
  OBVIOUS
<1>3. \A i : i \in ends <=> i \in 1 .. Len(text) /\ text[i] \in {OpenBracket, Pipe}
  BY <1>2 DEF Found
<1>4. \A i \in ends : i \in Nat /\ n + 1 <= i
  <2> TAKE i \in ends
  <2>1. i \in 1 .. Len(text) /\ i \notin 1 .. n
    BY <1>3
  <2> QED
    BY <1>1, <2>1
<1>5. CASE n = Len(text)
  <2>1. ends = {}
    BY <1>1, <1>3, <1>4, <1>5
  <2> QED
    BY <1>2, <1>5, <2>1 DEF FieldSelectorEnd
<1>6. CASE n < Len(text)
  <2>1. n + 1 \in ends
    <3>1. n + 1 \in 1 .. Len(text)
      BY <1>1, <1>6
    <3> QED
      BY <1>3, <1>6, <3>1
  <2>2. ends # {} /\ ends \subseteq Nat
    BY <1>4, <2>1
  <2>3. Min(ends) \in ends /\ \A y \in ends : Min(ends) <= y
    BY <2>2, Least
  <2>4. PICK min \in Nat : min = Min(ends)
    BY <1>4, <2>3
  <2>5. min = n + 1
    BY <1>4, <2>1, <2>3, <2>4
  <2>6. Min(ends) - 1 = n
    BY <2>4, <2>5
  <2> QED
    BY <1>2, <2>2, <2>6 DEF FieldSelectorEnd
<1> QED
  BY <1>1, <1>5, <1>6

\* What is behind the first n characters.
LEMMA RestOfText ==
  ASSUME NEW text \in Seq(Nat), NEW n \in Nat, n <= Len(text), NEW rest, rest = SubSeq(text, n + 1, Len(text))
  PROVE  /\ rest \in Seq(Nat)
         /\ Len(rest) = Len(text) - n
         /\ \A i \in 1 .. Len(text) - n : rest[i] = text[n + i]
<1>1. Len(text) \in Nat
  BY LenProperties
<1>2. PICK l \in Nat, k \in Nat \ {0} : l = Len(text) /\ k = n + 1
  BY <1>1
<1>3. k <= l + 1 /\ l <= Len(text)
  BY <1>2
<1>4. /\ SubSeq(text, k, l) \in Seq(Nat)
      /\ Len(SubSeq(text, k, l)) = l + 1 - k
      /\ \A i \in 1 .. l + 1 - k : SubSeq(text, k, l)[i] = text[k + i - 1]
  BY <1>3, PartOfText
<1>5. rest = SubSeq(text, k, l)
  BY <1>2
<1>6. l + 1 - k = l - n /\ \A i \in 1 .. l - n : k + i - 1 = n + i
  BY <1>2
<1>7. Len(rest) = l - n /\ \A i \in 1 .. l - n : rest[i] = text[n + i]
  BY <1>4, <1>5, <1>6
<1> QED
  BY <1>2, <1>4, <1>5, <1>7

\* ParsePart reads what WritesPart writes.
LEMMA PartRead ==
  ASSUME NEW text \in Seq(Nat), NEW part \in PathParts, WritesPart(text, part)
  PROVE  ParsePart(text) = part
<1>1. Len(text) \in Nat /\ DOMAIN text = 1 .. Len(text)
  BY LenProperties
<1>2. PICK n \in DOMAIN text :
        /\ Denotes(SubSeq(text, 1, n), part.number)
        /\ SubSeq(text, n + 1, Len(text)) = FilterText(part)
  BY DEF WritesPart
<1>3. n \in Nat /\ 1 <= n /\ n <= Len(text)
  BY <1>1, <1>2
<1>4. PICK selector, filter_str : selector = SubSeq(text, 1, n) /\ filter_str = SubSeq(text, n + 1, Len(text))
  OBVIOUS
<1>5. selector \in Seq(Nat) /\ DOMAIN selector = 1 .. n /\ \A i \in 1 .. n : selector[i] = text[i]
  <2>1. \A i \in 1 .. n : text[i] \in Nat
    BY <1>1, <1>3, ElementOfSeq
  <2>2. SubSeq(text, 1, n) \in Seq(Nat)
    BY <1>3, <2>1, SubSeqProperties
  <2> QED
    BY <1>3, <1>4, <2>2, FirstParts
<1>6. /\ filter_str \in Seq(Nat)
      /\ Len(filter_str) = Len(text) - n
      /\ \A i \in 1 .. Len(text) - n : filter_str[i] = text[n + i]
  BY <1>3, <1>4, RestOfText
<1>7. /\ selector # <<>>
      /\ \A i \in DOMAIN selector : selector[i] \notin {OpenBracket, Pipe}
      /\ part.number = IF selector[1] \in 48 .. 57 THEN FieldNumbered(selector) ELSE FieldNamed(selector)
  <2>1. part.number \in Nat
    BY DEF PathParts
  <2> QED
    BY <1>2, <1>4, <1>5, <2>1, SelectorDenotes
<1>8. /\ filter_str = FilterText(part)
      /\ part.filter \in {"none", "keys", "brackets"} /\ part.text \in Seq(Nat)
      /\ part.filter # "brackets" => part.text = <<>>
      /\ part = Part(part.number, part.filter, part.text)
  <2>1. part = Part(part.number, part.filter, part.text) /\ part.text \in Seq(Nat) /\ part.filter \in {"none", "keys", "brackets"}
    BY DEF PathParts, Part
  <2> QED
    BY <1>2, <1>4, <2>1 DEF WritesPart
<1>9. n < Len(text) => text[n + 1] \in {OpenBracket, Pipe}
  <2> SUFFICES ASSUME n < Len(text) PROVE text[n + 1] \in {OpenBracket, Pipe}
    OBVIOUS
  <2>1. filter_str # <<>> /\ filter_str[1] = text[n + 1]
    <3>1. 1 \in 1 .. Len(text) - n /\ Len(text) - n # 0
      BY <1>1, <1>3
    <3>2. Len(filter_str) # 0
      BY <1>6, <3>1
    <3> QED
      BY <1>6, <3>1, <3>2, EmptySeq
  <2>2. CASE part.filter = "none"
    BY <1>8, <2>1, <2>2 DEF FilterText
  <2>3. CASE part.filter = "keys"
    BY <1>8, <2>1, <2>3 DEF FilterText, PipeKeys
  <2>4. CASE part.filter = "brackets"
    <3>1. filter_str = <<OpenBracket>> \o part.text \o <<CloseBracket>>
      BY <1>8, <2>4 DEF FilterText
    <3>2. filter_str[1] = OpenBracket
      BY <1>8, <3>1, Brackets
    <3> QED
      BY <2>1, <3>2
  <2> QED
    BY <1>8, <2>2, <2>3, <2>4
<1>10. FieldSelectorEnd(text) = n
  <2>1. \A i \in 1 .. n : text[i] \notin {OpenBracket, Pipe}
    BY <1>5, <1>7
  <2> QED
    BY <1>3, <1>9, <2>1, SelectorEnds
<1>11. text # <<>> /\ text[1] = selector[1]
  <2>1. 1 \in 1 .. n /\ Len(text) # 0
    BY <1>1, <1>3
  <2> QED
    BY <1>5, <2>1, EmptySeq
<1>12. ParsePart(text) =
         IF filter_str = <<>> THEN Part(part.number, "none", <<>>)
         ELSE IF filter_str = PipeKeys THEN Part(part.number, "keys", <<>>)
         ELSE IF Bracketed(filter_str) THEN Part(part.number, "brackets", Front(Tail(filter_str)))
         ELSE Part(part.number, "other", <<>>)
  BY <1>4, <1>7, <1>10, <1>11 DEF ParsePart
<1>13. CASE part.filter = "none"
  <2>1. filter_str = <<>> /\ part.text = <<>>
    BY <1>8, <1>13 DEF FilterText
  <2> QED
    BY <1>8, <1>12, <1>13, <2>1
<1>14. CASE part.filter = "keys"
  <2>1. filter_str = PipeKeys /\ part.text = <<>>
    BY <1>8, <1>14 DEF FilterText
  <2>2. PipeKeys # <<>>
    BY DEF PipeKeys
  <2> QED
    BY <1>8, <1>12, <1>14, <2>1, <2>2
<1>15. CASE part.filter = "brackets"
  <2>1. filter_str = <<OpenBracket>> \o part.text \o <<CloseBracket>>
    BY <1>8, <1>15 DEF FilterText
  <2>2. filter_str # <<>> /\ filter_str # PipeKeys /\ Bracketed(filter_str) /\ Front(Tail(filter_str)) = part.text
    BY <1>8, <2>1, Brackets
  <2> QED
    BY <1>8, <1>12, <1>15, <2>2
<1> QED
  BY <1>8, <1>13, <1>14, <1>15

-----------------------------------------------------------------------------
(* The inductive invariant *)

\* The colons take text apart up to the path, and dots the path.
Read(text, colon, type, path, dots) ==
  /\ colon \in DOMAIN text
  /\ NamesType(text, colon, type)
  /\ path \in Seq(PathParts)
  /\ path = <<>> => colon = Len(text)
  /\ path # <<>> =>
       /\ dots \in [0 .. Len(path) -> {colon, Len(text) + 1} \cup Found(text, Dot, 1)]
       /\ Separates(dots, text, colon, path)

\* The name of the message is what stands from the position to the colon.
NameLeft(text, colon, type) ==
  /\ desc_set \in DOMAIN DescSets
  /\ Found(text, Colon, position) # {} /\ Min(Found(text, Colon, position)) = colon
  /\ SubSeq(text, position, colon - 1) \in DOMAIN DescSets[desc_set]
  /\ DescSets[desc_set][SubSeq(text, position, colon - 1)] = type

\* n parts of the path are compiled, and the next one is being read.
PartsLeft(text, type, path, dots, n) ==
  /\ dots[n] < position /\ position <= dots[n + 1]
  /\ part_buf = SubSeq(text, dots[n] + 1, position - 1)
  /\ compiled = UpTo(type, path, n)

Progress(text, colon, type, path, dots) ==
  /\ pc \in {"Name", "Start", "Parts", "Done"}
  /\ position \in Nat \ {0}
  /\ pc \in {"Name", "Start"} => part_buf = <<>>
  /\ pc = "Name" /\ desc_set # NoType => NameLeft(text, colon, type)
  /\ pc = "Start" => position = colon + 1 /\ compiled = Root(type)
  /\ pc = "Parts" => path # <<>> /\ \E n \in 0 .. Len(path) - 1 : PartsLeft(text, type, path, dots, n)
  /\ pc = "Done" => compiled = CompileQuery(type, path, NoLimit)

-----------------------------------------------------------------------------
(* The name *)

\* A name that stands for one type is found.
LEMMA TypeNamed ==
  ASSUME NEW set, NEW name, NEW type, TypesNamed(set, name) = {type}
  PROVE  set \in DOMAIN DescSets /\ name \in DOMAIN DescSets[set] /\ DescSets[set][name] = type
BY DEF TypesNamed

\* GetDescSet leaves the name of the message to be read.
LEMMA FindsDescSet ==
  ASSUME NEW text \in Seq(Nat), text = Text, NEW colon \in DOMAIN text, NEW type,
         NamesType(text, colon, type), GetDescSet
  PROVE  /\ NameLeft(text, colon, type)' /\ position' \in Nat \ {0}
         /\ pc = "Name" /\ pc' = "Name" /\ UNCHANGED <<query, part_buf>>
<1>1. Len(text) \in Nat /\ DOMAIN text = 1 .. Len(text) /\ colon \in 1 .. Len(text)
  BY LenProperties
<1>2. PICK colons : colons = Found(text, Colon, 1)
  OBVIOUS
<1>3. \A i : i \in colons <=> i \in 1 .. Len(text) /\ text[i] = Colon
  BY <1>2 DEF Found
<1>4. PICK name : name = IF Cardinality(colons) > 1 THEN SubSeq(text, 1, Min(colons) - 1) ELSE DefaultDescSet
  OBVIOUS
<1>5. /\ pc = "Name" /\ UNCHANGED <<query, part_buf>>
      /\ name \in DOMAIN DescSets =>
           /\ desc_set' = name /\ pc' = pc
           /\ position' = IF Cardinality(colons) > 1 THEN Min(colons) + 1 ELSE 1
  BY <1>2, <1>4 DEF GetDescSet, vars
<1>6. CASE /\ colons = {colon}
           /\ TypesNamed(DefaultDescSet, SubSeq(text, 1, colon - 1)) = {type}
  <2>1. Cardinality(colons) = 1
    BY <1>6, FS_Singleton
  <2>2. name = DefaultDescSet
    BY <1>4, <2>1
  <2>3. /\ DefaultDescSet \in DOMAIN DescSets
        /\ SubSeq(text, 1, colon - 1) \in DOMAIN DescSets[DefaultDescSet]
        /\ DescSets[DefaultDescSet][SubSeq(text, 1, colon - 1)] = type
    BY <1>6, TypeNamed
  <2>4. desc_set' = DefaultDescSet /\ pc' = "Name" /\ position' = 1
    BY <1>5, <2>1, <2>2, <2>3
  <2>5. Min({colon}) = colon
    <3>1. {colon} \subseteq Nat /\ {colon} # {}
      BY <1>1
    <3>2. Min({colon}) \in {colon}
      BY <3>1, Least
    <3> QED
      BY <3>2
  <2>6. NameLeft(text, colon, type)'
    <3>1. Found(text, Colon, position') = {colon}
      BY <1>2, <1>6, <2>4
    <3> QED
      BY <2>3, <2>4, <2>5, <3>1 DEF NameLeft
  <2> QED
    BY <1>5, <2>4, <2>6
<1>7. ASSUME NEW c \in 1 .. colon - 1,
             {i \in colons : i <= colon} = {c, colon},
             TypesNamed(SubSeq(text, 1, c - 1), SubSeq(text, c + 1, colon - 1)) = {type}
      PROVE  NameLeft(text, colon, type)' /\ pc' = "Name" /\ position' \in Nat \ {0}
  <2>1. c \in Nat /\ c # 0 /\ c < colon
    BY <1>1
  <2>2. c \in colons /\ colon \in colons
    BY <1>7
  <2>3. Cardinality(colons) > 1
    <3>1. IsFiniteSet(colons)
      <4>1. IsFiniteSet(1 .. Len(text))
        BY <1>1, FS_Interval
      <4> QED
        BY <1>3, <4>1, FS_Subset
    <3>2. Cardinality(colons) \in Nat
      BY <3>1, FS_CardinalityType
    <3>3. CASE Cardinality(colons) = 0
      BY <2>2, <3>1, <3>3, FS_EmptySet
    <3>4. CASE Cardinality(colons) = 1
      <4>1. PICK x : colons = {x}
        BY <3>1, <3>4, FS_Singleton
      <4>2. c = colon
        BY <2>2, <4>1
      <4> QED
        BY <1>1, <2>1, <4>2
    <3> QED
      BY <3>2, <3>3, <3>4
  <2>4. Min(colons) = c
    <3>1. colons # {} /\ colons \subseteq Nat
      BY <1>3, <2>2
    <3>2. Min(colons) \in colons /\ \A y \in colons : Min(colons) <= y
      BY <3>1, Least
    <3>3. PICK min \in Nat : min = Min(colons)
      BY <3>1, <3>2
    <3>4. min \in colons /\ min <= c /\ min <= colon
      BY <2>2, <3>2, <3>3
    <3>5. min \in {c, colon}
      BY <1>7, <3>4
    <3>6. min = c
      BY <1>1, <2>1, <3>3, <3>4, <3>5
    <3> QED
      BY <3>3, <3>6
  <2>5. /\ SubSeq(text, 1, c - 1) \in DOMAIN DescSets
        /\ SubSeq(text, c + 1, colon - 1) \in DOMAIN DescSets[SubSeq(text, 1, c - 1)]
        /\ DescSets[SubSeq(text, 1, c - 1)][SubSeq(text, c + 1, colon - 1)] = type
    BY <1>7, TypeNamed
  <2>6. name = SubSeq(text, 1, c - 1)
    BY <1>4, <2>3, <2>4
  <2>7. desc_set' = SubSeq(text, 1, c - 1) /\ pc' = "Name" /\ position' = c + 1
    BY <1>5, <2>3, <2>4, <2>5, <2>6
  <2>8. PICK behind : behind = Found(text, Colon, c + 1)
    OBVIOUS
  <2>9. \A i : i \in behind <=> i \in colons /\ c < i
    BY <1>1, <1>3, <2>1, <2>8 DEF Found
  <2>10. Min(behind) = colon /\ behind # {}
    <3>1. colon \in behind
      BY <2>1, <2>2, <2>9
    <3>2. behind # {} /\ behind \subseteq Nat
      BY <1>3, <2>9, <3>1
    <3>3. Min(behind) \in behind /\ \A y \in behind : Min(behind) <= y
      BY <3>2, Least
    <3>4. PICK min \in Nat : min = Min(behind)
      BY <3>2, <3>3
    <3>5. min \in colons /\ c < min /\ min <= colon
      BY <2>9, <3>1, <3>3, <3>4
    <3>6. min \in {c, colon}
      BY <1>7, <3>5
    <3>7. min = colon
      BY <2>1, <3>4, <3>5, <3>6
    <3> QED
      BY <3>2, <3>4, <3>7
  <2>11. NameLeft(text, colon, type)'
    BY <2>5, <2>7, <2>8, <2>10 DEF NameLeft
  <2>12. c + 1 \in Nat \ {0}
    BY <2>1
  <2> QED
    BY <2>7, <2>11, <2>12
<1>8. \/ colons = {colon} /\ TypesNamed(DefaultDescSet, SubSeq(text, 1, colon - 1)) = {type}
      \/ \E c \in 1 .. colon - 1 :
           /\ {i \in colons : i <= colon} = {c, colon}
           /\ TypesNamed(SubSeq(text, 1, c - 1), SubSeq(text, c + 1, colon - 1)) = {type}
  BY <1>2 DEF NamesType
<1> QED
  BY <1>5, <1>6, <1>7, <1>8

\* GetDesc finds the type of the message, and stops behind its colon.
LEMMA FindsDesc ==
  ASSUME NEW text \in Seq(Nat), text = Text, NEW colon \in DOMAIN text, NEW type,
         NameLeft(text, colon, type), GetDesc
  PROVE  /\ pc = "Name" /\ pc' = "Start" /\ compiled' = Root(type) /\ position' = colon + 1
         /\ UNCHANGED <<query, part_buf>>
<1>1. PICK name : name = SubSeq(text, position, colon - 1)
  OBVIOUS
<1>2. name \in DOMAIN DescSets[desc_set] /\ DescSets[desc_set][name] = type
  BY <1>1 DEF NameLeft
<1>3. Found(text, Colon, position) # {} /\ Min(Found(text, Colon, position)) = colon
  BY DEF NameLeft
<1>4. NamesRoot(type) /\ position' = colon + 1 /\ UNCHANGED <<query, part_buf>> /\ pc = "Name"
  BY <1>1, <1>2, <1>3 DEF GetDesc
<1> QED
  BY <1>4 DEF NamesRoot

-----------------------------------------------------------------------------
(* The path *)

\* A part of the path, and the dots around it.
Between(text, path, dots, n) ==
  /\ dots[n] \in Nat /\ dots[n + 1] \in Nat
  /\ dots[n] + 1 < dots[n + 1] /\ dots[n + 1] <= Len(text) + 1
  /\ \A i \in Nat : dots[n] < i /\ i < dots[n + 1] => text[i] # Dot
  /\ ParsePart(SubSeq(text, dots[n] + 1, dots[n + 1] - 1)) = path[n + 1]
  /\ dots[n + 1] <= Len(text) => n + 1 < Len(path) /\ text[dots[n + 1]] = Dot
  /\ dots[n + 1] = Len(text) + 1 => n + 1 = Len(path)

\* The dots take the text apart as they take the path.
LEMMA BetweenDots ==
  ASSUME NEW text \in Seq(Nat), NEW colon, NEW type, NEW path, NEW dots,
         Read(text, colon, type, path, dots), path # <<>>, NEW n \in 0 .. Len(path) - 1
  PROVE  Between(text, path, dots, n)
<1>1. Len(text) \in Nat /\ DOMAIN text = 1 .. Len(text)
  BY LenProperties
<1>2. Len(path) \in Nat /\ path \in Seq(PathParts)
  BY LenProperties DEF Read
<1>3. PICK k \in 1 .. Len(path) : k = n + 1
  BY <1>2
<1>4. n \in 0 .. Len(path) /\ k \in 0 .. Len(path) /\ k - 1 = n
  BY <1>2, <1>3
<1>5. /\ dots \in [0 .. Len(path) -> {colon, Len(text) + 1} \cup Found(text, Dot, 1)]
      /\ Separates(dots, text, colon, path) /\ colon \in 1 .. Len(text)
  BY <1>1 DEF Read
<1>6. \A i \in 0 .. Len(path) : dots[i] \in 1 .. Len(text) + 1
  <2> TAKE i \in 0 .. Len(path)
  <2>1. dots[i] \in {colon, Len(text) + 1} \cup Found(text, Dot, 1)
    BY <1>5
  <2> QED
    BY <1>1, <1>5, <2>1 DEF Found
<1>7. PICK d \in Nat, e \in Nat : d = dots[n] /\ e = dots[k] /\ 1 <= d /\ 1 <= e /\ e <= Len(text) + 1
  BY <1>1, <1>4, <1>6
<1>8. PICK part : part = SubSeq(text, d + 1, e - 1)
  OBVIOUS
<1>9. d < e /\ WritesPart(part, path[k])
  <2>1. dots[k - 1] < dots[k] /\ WritesPart(SubSeq(text, dots[k - 1] + 1, dots[k] - 1), path[k])
    BY <1>3, <1>5 DEF Separates
  <2> QED
    BY <1>4, <1>7, <1>8, <2>1
<1>16. 1 <= d /\ d < e /\ e <= Len(text) + 1
  BY <1>7, <1>9
<1>10. /\ part \in Seq(Nat) /\ Len(part) = e - 1 - d
       /\ \A i \in 1 .. e - 1 - d : part[i] = text[d + i]
  <2>1. PICK l \in Nat, m \in Nat : l = e - 1 /\ m = d + 1
    <3>1. e - 1 \in Nat /\ d + 1 \in Nat
      BY <1>16
    <3> QED
      BY <3>1
  <2>2. m # 0 /\ l <= Len(text) /\ m <= l + 1
    BY <1>1, <1>16, <2>1
  <2>3. /\ SubSeq(text, m, l) \in Seq(Nat)
        /\ Len(SubSeq(text, m, l)) = l + 1 - m
        /\ \A i \in 1 .. l + 1 - m : SubSeq(text, m, l)[i] = text[m + i - 1]
    BY <2>2, PartOfText
  <2>4. l + 1 - m = e - 1 - d /\ \A i \in 1 .. l + 1 - m : m + i - 1 = d + i
    BY <1>16, <2>1
  <2> QED
    BY <1>8, <2>1, <2>3, <2>4
<1>11. d + 1 < e
  <2>1. DOMAIN part # {}
    BY <1>9 DEF WritesPart
  <2>2. 1 .. Len(part) # {}
    BY <1>10, <2>1, LenProperties
  <2>3. PICK l \in Int : l = e - 1 - d /\ 1 .. l # {}
    BY <1>10, <2>2
  <2>4. 1 <= l
    BY <2>3
  <2> QED
    BY <2>3, <2>4
<1>12. ASSUME NEW i \in Nat, d < i, i < e PROVE text[i] # Dot
  <2>1. PICK j \in Nat : j = i - d
    <3>1. i - d \in Nat
      BY <1>12
    <3> QED
      BY <3>1
  <2>2. j \in 1 .. e - 1 - d /\ d + j = i
    BY <1>12, <2>1
  <2>3. part[j] = text[i]
    BY <1>10, <2>2
  <2>4. j \in 1 .. Len(part)
    BY <1>10, <2>2
  <2>5. j \notin Found(part, Dot, 1)
    BY <1>9 DEF WritesPart
  <2> QED
    BY <2>3, <2>4, <2>5 DEF Found
<1>13. ParsePart(part) = path[k]
  <2>1. path[k] \in PathParts
    BY <1>2, <1>3, ElementOfSeq
  <2> QED
    BY <1>9, <1>10, <2>1, PartRead
<1>14. /\ e <= Len(text) => n + 1 < Len(path) /\ text[e] = Dot
       /\ e = Len(text) + 1 => n + 1 = Len(path)
  <2>1. k = Len(path) => e = Len(text) + 1
    BY <1>5, <1>7 DEF Separates
  <2>2. k # Len(path) => e \in Found(text, Dot, 1)
    <3>1. k # Len(path) => k \in 1 .. Len(path) - 1
      BY <1>2, <1>3
    <3>2. \A i \in 1 .. Len(path) - 1 : dots[i] \in Found(text, Dot, 1)
      BY <1>5 DEF Separates
    <3> QED
      BY <1>7, <3>1, <3>2
  <2>3. k # Len(path) => e <= Len(text) /\ text[e] = Dot
    BY <1>1, <2>2 DEF Found
  <2> QED
    BY <1>1, <1>2, <1>3, <1>7, <2>1, <2>3
<1>15. dots[n + 1] = e /\ path[n + 1] = path[k]
  BY <1>3, <1>7
<1> QED
  BY <1>7, <1>8, <1>11, <1>12, <1>13, <1>14, <1>15 DEF Between

\* The root is descended into, or an empty path compiled.
LEMMA PathBegins ==
  ASSUME NEW text \in Seq(Nat), text = Text, NEW colon, NEW type, NEW path, NEW dots,
         Read(text, colon, type, path, dots), Progress(text, colon, type, path, dots), BeginPath
  PROVE  Progress(text, colon, type, path, dots)'
<1>1. Len(text) \in Nat /\ colon \in 1 .. Len(text) /\ path \in Seq(PathParts)
  BY LenProperties DEF Read
<1>2. pc = "Start"
  BY DEF BeginPath, EmptyPath, DescendIntoRootMessage
<1>3. position = colon + 1 /\ position \in Nat \ {0} /\ part_buf = <<>> /\ compiled = Root(type) /\ UNCHANGED textVars
  BY <1>2 DEF Progress, BeginPath
<1>4. CASE position > Len(text)
  <2>1. colon = Len(text)
    BY <1>1, <1>3, <1>4
  <2>2. path = <<>>
    <3>1. CASE path # <<>>
      <4>1. Len(path) \in Nat \ {0}
        BY <1>1, <3>1, EmptySeq
      <4>2. 0 \in 0 .. Len(path) - 1
        BY <4>1
      <4>3. /\ dots[0] \in Nat /\ dots[0 + 1] \in Nat
            /\ dots[0] + 1 < dots[0 + 1] /\ dots[0 + 1] <= Len(text) + 1
        BY <3>1, <4>2, BetweenDots DEF Between
      <4>4. dots[0] = colon
        BY <3>1 DEF Read, Separates
      <4> QED
        BY <1>1, <2>1, <4>3, <4>4
    <3> QED
      BY <3>1
  <2>3. pc' = "Done" /\ compiled' = CompileLastPart(Root(type), EmptyPart, NoLimit)
    BY <1>3, <1>4 DEF BeginPath, EmptyPath, Compiles
  <2>4. compiled' = CompileQuery(type, path, NoLimit)
    BY <2>2, <2>3 DEF CompileQuery
  <2> QED
    BY <1>3, <2>3, <2>4 DEF Progress, textVars
<1>5. CASE ~(position > Len(text))
  <2>1. pc' = "Parts" /\ compiled' = DescendIntoRoot(Root(type))
    BY <1>3, <1>5 DEF BeginPath, DescendIntoRootMessage, Compiles
  <2>2. path # <<>>
    BY <1>1, <1>3, <1>5 DEF Read
  <2>3. Len(path) \in Nat \ {0}
    BY <1>1, <2>2, EmptySeq
  <2>4. 0 \in 0 .. Len(path) - 1
    BY <2>3
  <2>5. /\ dots[0] \in Nat /\ dots[0 + 1] \in Nat
        /\ dots[0] + 1 < dots[0 + 1] /\ dots[0 + 1] <= Len(text) + 1
    BY <2>2, <2>4, BetweenDots DEF Between
  <2>6. dots[0] = colon
    BY <2>2 DEF Read, Separates
  <2>7. compiled' = UpTo(type, path, 0)
    BY <1>1, <2>1, UpToNone
  <2>8. position' = position /\ part_buf' = <<>>
    BY <1>3 DEF textVars
  <2>9. SubSeq(text, dots[0] + 1, position' - 1) = <<>>
    <3>1. PICK m \in Nat, l \in Nat : m = colon + 1 /\ l = colon
      BY <1>1
    <3>2. SubSeq(text, m, l) = <<>>
      BY <3>1, SubSeqEmpty
    <3>3. dots[0] + 1 = m /\ position' - 1 = l
      BY <1>1, <1>3, <2>6, <2>8, <3>1
    <3> QED
      BY <3>2, <3>3
  <2>10. PartsLeft(text, type, path, dots, 0)'
    <3>1. dots[0] < position' /\ position' <= dots[0 + 1]
      BY <1>1, <1>3, <2>5, <2>6, <2>8
    <3> QED
      BY <2>7, <2>8, <2>9, <3>1 DEF PartsLeft
  <2> QED
    BY <1>3, <2>1, <2>2, <2>4, <2>8, <2>10 DEF Progress
<1> QED
  BY <1>4, <1>5

\* A part grows by the next character.
LEMMA PartGrows ==
  ASSUME NEW text \in Seq(Nat), NEW d \in Nat, NEW p \in Nat, d < p, p <= Len(text)
  PROVE  Append(SubSeq(text, d + 1, p - 1), text[p]) = SubSeq(text, d + 1, p)
<1>1. Len(text) \in Nat
  BY LenProperties
<1>2. PICK m \in Nat, l \in Nat : m = d + 1 /\ l = p - 1
  <2>1. d + 1 \in Nat /\ p - 1 \in Nat
    OBVIOUS
  <2> QED
    BY <2>1
<1>3. m # 0 /\ l <= Len(text) /\ m <= l + 1 /\ m <= p + 1 /\ l = p - 1
  BY <1>1, <1>2
<1>4. PICK part : part = SubSeq(text, m, l)
  OBVIOUS
<1>5. /\ part \in Seq(Nat) /\ Len(part) = p - m
      /\ \A i \in 1 .. p - m : part[i] = text[m + i - 1]
  <2>1. /\ part \in Seq(Nat) /\ Len(part) = l + 1 - m
        /\ \A i \in 1 .. l + 1 - m : part[i] = text[m + i - 1]
    BY <1>3, <1>4, PartOfText
  <2>2. l + 1 - m = p - m
    BY <1>2
  <2> QED
    BY <2>1, <2>2
<1>6. PICK whole : whole = SubSeq(text, m, p)
  OBVIOUS
<1>7. /\ whole \in Seq(Nat) /\ Len(whole) = p + 1 - m
      /\ \A i \in 1 .. p + 1 - m : whole[i] = text[m + i - 1]
  BY <1>3, <1>6, PartOfText
<1>8. text[p] \in Nat
  <2>1. p \in 1 .. Len(text)
    BY <1>1
  <2> QED
    BY <2>1, ElementOfSeq
<1>9. PICK grown : grown = Append(part, text[p])
  OBVIOUS
<1>10. /\ grown \in Seq(Nat) /\ Len(grown) = Len(part) + 1
       /\ \A i \in 1 .. Len(part) : grown[i] = part[i]
       /\ grown[Len(part) + 1] = text[p]
  <2>1. PICK ch \in Nat : ch = text[p]
    BY <1>8
  <2>2. part \in Seq(Nat)
    BY <1>5
  <2>3. grown = Append(part, ch)
    BY <1>9, <2>1
  <2>4. /\ grown \in Seq(Nat) /\ Len(grown) = Len(part) + 1
        /\ \A i \in 1 .. Len(part) : grown[i] = part[i]
        /\ grown[Len(part) + 1] = ch
    BY <2>2, <2>3, AppendProperties
  <2> QED
    BY <2>1, <2>4
<1>11. \A i \in 1 .. Len(grown) : grown[i] = whole[i]
  <2> TAKE i \in 1 .. Len(grown)
  <2>1. PICK k \in Nat : k = p - m
    <3>1. p - m \in Nat
      BY <1>2
    <3> QED
      BY <3>1
  <2>2. Len(part) = k /\ Len(grown) = k + 1 /\ p + 1 - m = k + 1
    BY <1>2, <1>5, <1>10, <2>1
  <2>3. CASE i \in 1 .. k
    <3>1. i \in 1 .. p - m /\ i \in 1 .. p + 1 - m
      BY <1>2, <2>1, <2>3
    <3>2. grown[i] = part[i]
      BY <1>10, <2>2, <2>3
    <3>3. part[i] = text[m + i - 1]
      BY <1>5, <3>1
    <3>4. whole[i] = text[m + i - 1]
      BY <1>7, <3>1
    <3> QED
      BY <3>2, <3>3, <3>4
  <2>4. CASE i = k + 1
    <3>1. i \in 1 .. p + 1 - m /\ m + i - 1 = p
      BY <1>2, <2>1, <2>4
    <3>2. whole[i] = text[p]
      BY <1>7, <3>1
    <3>3. grown[i] = text[p]
      BY <1>10, <2>2, <2>4
    <3> QED
      BY <3>2, <3>3
  <2>5. i \in 1 .. k \/ i = k + 1
    BY <2>2
  <2> QED
    BY <2>3, <2>4, <2>5
<1>12. Len(grown) = Len(whole)
  <2>1. p - m + 1 = p + 1 - m
    BY <1>2
  <2> QED
    BY <1>5, <1>7, <1>10, <2>1
<1>13. grown = whole
  BY <1>7, <1>10, <1>11, <1>12, SeqEqual
<1> QED
  BY <1>2, <1>4, <1>6, <1>9, <1>13

\* The part being read grows, or is compiled at its dot.
LEMMA CharacterRead ==
  ASSUME NEW text \in Seq(Nat), text = Text, NEW colon, NEW type, NEW path, NEW dots,
         Read(text, colon, type, path, dots), Progress(text, colon, type, path, dots), ReadCharacter
  PROVE  Progress(text, colon, type, path, dots)'
<1>1. Len(text) \in Nat /\ path \in Seq(PathParts) /\ Len(path) \in Nat
  BY LenProperties DEF Read
<1>2. /\ pc = "Parts" /\ position \in Nat \ {0} /\ position <= Len(text) /\ path # <<>>
  BY DEF ReadCharacter, Progress
<1>3. PICK n \in 0 .. Len(path) - 1 : PartsLeft(text, type, path, dots, n)
  BY <1>2 DEF Progress
<1>4. /\ dots[n] \in Nat /\ dots[n + 1] \in Nat
      /\ dots[n] + 1 < dots[n + 1] /\ dots[n + 1] <= Len(text) + 1
      /\ \A i \in Nat : dots[n] < i /\ i < dots[n + 1] => text[i] # Dot
      /\ ParsePart(SubSeq(text, dots[n] + 1, dots[n + 1] - 1)) = path[n + 1]
      /\ dots[n + 1] <= Len(text) => n + 1 < Len(path) /\ text[dots[n + 1]] = Dot
      /\ dots[n + 1] = Len(text) + 1 => n + 1 = Len(path)
  <2>1. path # <<>> /\ n \in 0 .. Len(path) - 1
    BY <1>2
  <2>2. Between(text, path, dots, n)
    BY <2>1, BetweenDots, Zenon
  <2> QED
    BY <2>2 DEF Between
<1>5. /\ dots[n] < position /\ position <= dots[n + 1]
      /\ part_buf = SubSeq(text, dots[n] + 1, position - 1)
      /\ compiled = UpTo(type, path, n)
  BY <1>3 DEF PartsLeft
<1>6. position' = position + 1
  BY DEF ReadCharacter
<1>7. position' \in Nat \ {0}
  BY <1>2, <1>6
<1>8. CASE position < dots[n + 1]
  <2>1. text[position] # Dot
    BY <1>2, <1>4, <1>5, <1>8
  <2>2. part_buf' = Append(part_buf, text[position]) /\ UNCHANGED vars
    BY <2>1 DEF ReadCharacter
  <2>3. part_buf' = SubSeq(text, dots[n] + 1, position)
    BY <1>2, <1>4, <1>5, <2>2, PartGrows
  <2>4. dots[n] < position' /\ position' <= dots[n + 1] /\ position' - 1 = position
    BY <1>2, <1>4, <1>5, <1>6, <1>8
  <2>5. PartsLeft(text, type, path, dots, n)'
    BY <1>5, <2>2, <2>3, <2>4 DEF PartsLeft, vars
  <2>6. pc' = "Parts"
    BY <1>2, <2>2 DEF vars
  <2> QED
    BY <1>2, <1>3, <1>7, <2>5, <2>6 DEF Progress
<1>9. CASE position = dots[n + 1]
  <2>1. text[position] = Dot /\ n + 1 < Len(path)
    BY <1>2, <1>4, <1>9
  <2>2. PartEndsAtDot(path[n + 1]) /\ part_buf' = <<>>
    BY <1>4, <1>5, <1>9, <2>1 DEF ReadCharacter
  <2>3. pc' = "Parts" /\ compiled' = CompileInnerPart(UpTo(type, path, n), path[n + 1])
    BY <1>2, <1>5, <2>2 DEF PartEndsAtDot, Compiles
  <2>4. PICK k \in 0 .. Len(path) - 1 : k = n + 1
    BY <1>1, <2>1
  <2>5. compiled' = UpTo(type, path, k)
    BY <1>1, <2>1, <2>3, <2>4, UpToNext
  <2>6. dots[k] \in Nat /\ dots[k + 1] \in Nat /\ dots[k] + 1 < dots[k + 1]
    BY <1>2, <2>4, BetweenDots DEF Between
  <2>7. dots[k] = position
    BY <1>9, <2>4
  <2>8. dots[k] < position' /\ position' <= dots[k + 1]
    BY <1>2, <1>6, <2>6, <2>7
  <2>9. SubSeq(text, dots[k] + 1, position' - 1) = <<>>
    <3>1. PICK m \in Nat, l \in Nat : m = position + 1 /\ l = position
      BY <1>2
    <3>2. SubSeq(text, m, l) = <<>>
      BY <3>1, SubSeqEmpty
    <3>3. dots[k] + 1 = m /\ position' - 1 = l
      BY <1>2, <1>6, <2>7, <3>1
    <3> QED
      BY <3>2, <3>3
  <2>10. PartsLeft(text, type, path, dots, k)'
    BY <2>2, <2>5, <2>8, <2>9 DEF PartsLeft
  <2> QED
    BY <1>2, <1>7, <2>3, <2>10 DEF Progress
<1> QED
  BY <1>2, <1>4, <1>5, <1>8, <1>9

\* The last part is compiled at the end of the text.
LEMMA EndRead ==
  ASSUME NEW text \in Seq(Nat), text = Text, NEW colon, NEW type, NEW path, NEW dots,
         Read(text, colon, type, path, dots), Progress(text, colon, type, path, dots), ReadEnd
  PROVE  Progress(text, colon, type, path, dots)'
<1>1. Len(text) \in Nat /\ path \in Seq(PathParts) /\ Len(path) \in Nat
  BY LenProperties DEF Read
<1>2. /\ pc = "Parts" /\ position \in Nat \ {0} /\ position > Len(text) /\ path # <<>>
      /\ UNCHANGED textVars
  BY DEF ReadEnd, QueryEnds, Progress
<1>3. PICK n \in 0 .. Len(path) - 1 : PartsLeft(text, type, path, dots, n)
  BY <1>2 DEF Progress
<1>4. /\ dots[n] \in Nat /\ dots[n + 1] \in Nat /\ dots[n + 1] <= Len(text) + 1
      /\ ParsePart(SubSeq(text, dots[n] + 1, dots[n + 1] - 1)) = path[n + 1]
      /\ dots[n + 1] = Len(text) + 1 => n + 1 = Len(path)
  BY <1>2, BetweenDots DEF Between
<1>5. /\ dots[n] < position /\ position <= dots[n + 1]
      /\ part_buf = SubSeq(text, dots[n] + 1, position - 1)
      /\ compiled = UpTo(type, path, n)
  BY <1>3 DEF PartsLeft
<1>6. position = dots[n + 1] /\ n + 1 = Len(path)
  BY <1>1, <1>2, <1>4, <1>5
<1>7. QueryEnds(path[Len(path)])
  BY <1>4, <1>5, <1>6 DEF ReadEnd
<1>8. Len(path) - 1 = n
  BY <1>1, <1>6
<1>9. pc' = "Done" /\ compiled' = CompileLastPart(UpTo(type, path, Len(path) - 1), path[Len(path)], NoLimit)
  BY <1>5, <1>7, <1>8 DEF QueryEnds, Compiles
<1>10. compiled' = CompileQuery(type, path, NoLimit)
  BY <1>1, <1>2, <1>9, WholePath
<1> QED
  BY <1>2, <1>9, <1>10 DEF Progress, textVars

\* A rejected part ends the query.
LEMMA RejectedRead ==
  ASSUME NEW text \in Seq(Nat), NEW colon, NEW type, NEW path, NEW dots,
         Read(text, colon, type, path, dots), Progress(text, colon, type, path, dots),
         BadQuery, UNCHANGED textVars
  PROVE  Progress(text, colon, type, path, dots)'
<1>1. path \in Seq(PathParts) /\ Len(path) \in Nat
  BY LenProperties DEF Read
<1>2. pc = "Parts" /\ compiled.thrown /\ pc' = "Done" /\ compiled' = compiled
  BY DEF BadQuery
<1>3. PICK n \in 0 .. Len(path) - 1 : compiled = UpTo(type, path, n)
  BY <1>2 DEF Progress, PartsLeft
<1>4. n \in Nat /\ n < Len(path)
  BY <1>1
<1>5. compiled = CompileQuery(type, path, NoLimit)
  BY <1>1, <1>2, <1>3, <1>4, ThrownStays
<1> QED
  BY <1>2, <1>5 DEF Progress, textVars

-----------------------------------------------------------------------------
(* The theorem *)

\* No step leaves the way.
LEMMA ProgressStep ==
  ASSUME NEW text \in Seq(Nat), text = Text, NEW colon, NEW type, NEW path, NEW dots,
         Read(text, colon, type, path, dots), Progress(text, colon, type, path, dots),
         [TextNext]_<<vars, textVars>>
  PROVE  Progress(text, colon, type, path, dots)'
<1>1. colon \in DOMAIN text /\ NamesType(text, colon, type)
  BY DEF Read
<1>2. CASE GetDescSet
  <2>1. /\ NameLeft(text, colon, type)' /\ position' \in Nat \ {0}
        /\ pc = "Name" /\ pc' = "Name" /\ UNCHANGED <<query, part_buf>>
    BY <1>1, <1>2, FindsDescSet
  <2> QED
    BY <2>1 DEF Progress
<1>3. CASE GetDesc
  <2>1. pc = "Name" /\ desc_set # NoType
    BY <1>3 DEF GetDesc
  <2>2. NameLeft(text, colon, type) /\ part_buf = <<>>
    BY <2>1 DEF Progress
  <2>3. /\ pc' = "Start" /\ compiled' = Root(type) /\ position' = colon + 1
        /\ UNCHANGED <<query, part_buf>>
    BY <1>1, <1>3, <2>2, FindsDesc
  <2>4. colon + 1 \in Nat \ {0}
    <3>1. Len(text) \in Nat /\ colon \in 1 .. Len(text)
      BY <1>1, LenProperties
    <3> QED
      BY <3>1
  <2> QED
    BY <2>2, <2>3, <2>4 DEF Progress
<1>4. CASE BeginPath
  BY <1>4, PathBegins
<1>5. CASE ReadCharacter
  BY <1>5, CharacterRead
<1>6. CASE ReadEnd
  BY <1>6, EndRead
<1>7. CASE BadQuery /\ UNCHANGED textVars
  BY <1>7, RejectedRead
<1>8. CASE (Compiled /\ UNCHANGED textVars) \/ UNCHANGED <<vars, textVars>>
  <2>1. UNCHANGED <<pc, compiled, position, part_buf, desc_set>>
    BY <1>8 DEF Compiled, vars, textVars
  <2> QED
    BY <2>1 DEF Progress, NameLeft, PartsLeft
<1> QED
  BY <1>2, <1>3, <1>4, <1>5, <1>6, <1>7, <1>8 DEF TextNext

\* Every query whose text is of the form that README.md describes is on its way.
ProgressInv ==
  /\ query \in Queries
  /\ \A colon, type, path, dots :
       Read(Text, colon, type, path, dots) => Progress(Text, colon, type, path, dots)

LEMMA ProgressStart == TextInit => ProgressInv
<1> SUFFICES ASSUME TextInit PROVE ProgressInv
  OBVIOUS
<1>1. query \in Queries /\ pc = "Name" /\ desc_set = NoType /\ position = 1 /\ part_buf = <<>>
  BY DEF TextInit, Init
<1> QED
  BY <1>1 DEF ProgressInv, Progress

LEMMA ProgressKept == ProgressInv /\ [TextNext]_<<vars, textVars>> => ProgressInv'
<1> SUFFICES ASSUME ProgressInv, [TextNext]_<<vars, textVars>> PROVE ProgressInv'
  OBVIOUS
<1>1. PICK text \in Seq(Nat) : text = Text
  BY QueriesAssumption DEF ProgressInv, Text
<1>2. query' = query
  BY DEF TextNext, GetDescSet, GetDesc, BeginPath, ReadCharacter, ReadEnd, textVars
<1>3. Text' = text /\ query' \in Queries
  BY <1>1, <1>2 DEF ProgressInv, Text
<1>4. ASSUME NEW colon, NEW type, NEW path, NEW dots, Read(text, colon, type, path, dots)
      PROVE  Progress(text, colon, type, path, dots)'
  <2>1. Progress(text, colon, type, path, dots)
    BY <1>1, <1>4 DEF ProgressInv
  <2> QED
    BY <1>1, <1>4, <2>1, ProgressStep
<1>5. \A colon, type, path, dots :
        Read(text, colon, type, path, dots) => Progress(text, colon, type, path, dots)'
  BY <1>4
<1>6. \A colon, type, path, dots :
        (Read(Text, colon, type, path, dots) => Progress(Text, colon, type, path, dots))'
  <2> TAKE colon, type, path, dots
  <2>1. Read(Text, colon, type, path, dots)' <=> Read(text, colon, type, path, dots)
    BY <1>3
  <2>2. Progress(Text, colon, type, path, dots)' <=> Progress(text, colon, type, path, dots)'
    BY <1>3 DEF Progress, NameLeft, PartsLeft
  <2> QED
    BY <1>5, <2>1, <2>2
<1> QED
  BY <1>3, <1>6 DEF ProgressInv

\* What Documents says is what Read says for some colon and dots.
LEMMA DocumentedRead ==
  ASSUME NEW text, NEW type, NEW path, Documents(text, type, path)
  PROVE  \E colon, dots : Read(text, colon, type, path, dots)
BY DEF Documents, WritesPath, Read

\* Each query of the form [<descriptor_set>:]<message_name>:<path> is compiled to
\* what the path says, or rejected where it does, for every schema, any names
\* and any number of parts, written by name or by number.
THEOREM QueriesAreUnderstood ==
  ASSUME \A q \in Queries : \A m \in q.meaning : Documents(q.text, m.type, m.path)
  PROVE  TextSpec => []UnderstandsQueries
<1>1. ProgressInv => UnderstandsQueries
  <2> SUFFICES ASSUME ProgressInv, pc = "Done", NEW m \in query.meaning
               PROVE  compiled = CompileQuery(m.type, m.path, NoLimit)
    BY DEF UnderstandsQueries
  <2>1. Documents(Text, m.type, m.path)
    BY DEF ProgressInv, Text
  <2>2. PICK colon, dots : Read(Text, colon, m.type, m.path, dots)
    BY <2>1, DocumentedRead
  <2>3. Progress(Text, colon, m.type, m.path, dots)
    BY <2>2 DEF ProgressInv
  <2> QED
    BY <2>3 DEF Progress
<1> QED
  BY <1>1, ProgressStart, ProgressKept, PTL DEF TextSpec

-----------------------------------------------------------------------------
(* The converse: what ParsePart reads is written as README.md says *)

LEMMA FieldNumbersAreNat == FieldNumbers \subseteq Nat
BY SchemaAssumption DEF FieldNumbers

\* What a digit introduces is looked up as the number it stands for.
NumeralsFit(text) ==
  \A n \in DOMAIN text :
    text[1] \in 48 .. 57 /\ FieldNumbered(SubSeq(text, 1, n)) \in FieldNumbers =>
      NumeralValue(SubSeq(text, 1, n)) = FieldNumbered(SubSeq(text, 1, n))

\* A selector that finds a field denotes it.
LEMMA SelectorFinds ==
  ASSUME NEW selector \in Seq(Nat), NEW number \in Nat,
         \/ /\ number = FieldNumbered(selector)
            /\ selector # <<>> => selector[1] \in 48 .. 57 /\ NumeralValue(selector) = number
         \/ number = FieldNamed(selector)
  PROVE  Denotes(selector, number) /\ selector # <<>>
<1>1. number # NoField
  BY DEF NoField
<1>2. CASE /\ number = FieldNumbered(selector)
           /\ selector # <<>> => selector[1] \in 48 .. 57 /\ NumeralValue(selector) = number
  <2>1. IsNumeral(selector) /\ number = NumeralValue(selector) % IntRange
    BY <1>1, <1>2 DEF FieldNumbered
  <2>2. selector # <<>>
    BY <2>1, DigitsOfNothing DEF IsNumeral
  <2>3. Digits(selector) = selector
    BY <1>2, <2>2, DigitsOfNumber
  <2>4. \A i \in DOMAIN selector : selector[i] \in 48 .. 57
    BY <2>1, <2>3 DEF IsNumeral
  <2>5. number = number % IntRange
    BY <1>2, <2>1, <2>2
  <2>6. number \in 0 .. IntRange - 1
    <3>1. PICK w \in Nat \ {0} : w = IntRange
      BY IntRangeAssumption
    <3>2. number % w \in 0 .. w - 1
      OBVIOUS
    <3> QED
      BY <2>5, <3>1, <3>2
  <2> QED
    BY <1>2, <2>2, <2>4, <2>6 DEF Denotes
<1>3. CASE number = FieldNamed(selector)
  <2>1. \E n \in DOMAIN FieldName : FieldName[n] = selector
    BY <1>1, <1>3 DEF FieldNamed
  <2>2. number \in DOMAIN FieldName /\ FieldName[number] = selector
    BY <1>3, <2>1 DEF FieldNamed
  <2>3. selector # <<>>
    BY <2>2, FieldNameAssumption
  <2> QED
    BY <2>2, <2>3 DEF Denotes
<1> QED
  BY <1>2, <1>3

\* A filter in brackets is what stands between them.
LEMMA BracketsWritten ==
  ASSUME NEW f \in Seq(Nat), Bracketed(f)
  PROVE  /\ Front(Tail(f)) \in Seq(Nat)
         /\ f = <<OpenBracket>> \o Front(Tail(f)) \o <<CloseBracket>>
<1>1. f # <<>> /\ f[1] = 91 /\ f[Len(f)] = 93
  BY DEF Bracketed, Last, OpenBracket, CloseBracket
<1>2. PICK l \in Nat : Len(f) = l + 2
  <2>1. PICK k \in Nat : k = Len(f)
    BY LenProperties
  <2>2. k # 0 /\ k # 1
    BY <1>1, <2>1, EmptySeq
  <2>3. k - 2 \in Nat /\ k = (k - 2) + 2
    BY <2>2
  <2> QED
    BY <2>1, <2>3
<1>3. PICK h : h = Tail(f)
  OBVIOUS
<1>4. h \in Seq(Nat) /\ Len(h) = l + 1 /\ \A i \in 1 .. l + 1 : h[i] = f[i + 1]
  <2>1. h \in Seq(Nat) /\ Len(h) = Len(f) - 1 /\ \A i \in 1 .. Len(h) : h[i] = f[i + 1]
    BY <1>1, <1>3, HeadTailProperties
  <2>2. Len(h) = l + 1
    BY <1>2, <2>1
  <2> QED
    BY <2>1, <2>2
<1>5. PICK t : t = SubSeq(h, 1, l)
  OBVIOUS
<1>6. Front(h) = t
  <2>1. l + 1 - 1 = l
    OBVIOUS
  <2> QED
    BY <1>4, <1>5, <2>1 DEF Front
<1>7. t \in Seq(Nat) /\ Len(t) = l /\ \A i \in 1 .. l : t[i] = f[i + 1]
  <2>1. DOMAIN t = 1 .. l /\ \A i \in 1 .. l : t[i] = h[i]
    BY <1>4, <1>5, FirstParts
  <2>2. t \in Seq(Nat)
    BY <1>4, <1>5
  <2>3. Len(t) = l
    BY <2>1, <2>2, LenProperties
  <2>4. \A i \in 1 .. l : i \in 1 .. l + 1
    OBVIOUS
  <2> QED
    BY <1>4, <2>1, <2>2, <2>3, <2>4
<1>8. PICK g : g = <<OpenBracket>> \o t \o <<CloseBracket>>
  OBVIOUS
<1>9. /\ g \in Seq(Nat) /\ Len(g) = l + 2 /\ g[1] = 91 /\ g[l + 2] = 93
      /\ \A i \in 1 .. l : g[i + 1] = t[i]
  <2>1. PICK a, b : a = <<OpenBracket>> /\ b = <<CloseBracket>>
    OBVIOUS
  <2>2. /\ a \in Seq(Nat) /\ Len(a) = 1 /\ a[1] = 91
        /\ b \in Seq(Nat) /\ Len(b) = 1 /\ b[1] = 93
    BY <2>1 DEF OpenBracket, CloseBracket
  <2>3. PICK c : c = a \o t
    OBVIOUS
  <2>4. c \in Seq(Nat) /\ Len(c) = 1 + l /\ c[1] = 91 /\ \A i \in 1 .. l : c[1 + i] = t[i]
    <3>1. IsSequence(a) /\ IsSequence(t)
      BY <1>7, <2>2 DEF IsSequence
    <3>2. /\ Len(a \o t) = Len(a) + Len(t) /\ \A i \in 1 .. Len(a) : (a \o t)[i] = a[i]
          /\ \A i \in 1 .. Len(t) : (a \o t)[Len(a) + i] = t[i]
      BY <3>1, Concatenated
    <3>3. c \in Seq(Nat)
      BY <1>7, <2>2, <2>3
    <3> QED
      BY <1>7, <2>2, <2>3, <3>2, <3>3
  <2>5. g = c \o b
    BY <1>8, <2>1, <2>3
  <2>6. IsSequence(c) /\ IsSequence(b)
    BY <2>2, <2>4 DEF IsSequence
  <2>7. /\ Len(c \o b) = Len(c) + Len(b) /\ \A i \in 1 .. Len(c) : (c \o b)[i] = c[i]
        /\ \A i \in 1 .. Len(b) : (c \o b)[Len(c) + i] = b[i]
    BY <2>6, Concatenated
  <2>8. g \in Seq(Nat)
    <3>1. c \o b \in Seq(Nat)
      BY <2>2, <2>4, ConcatProperties
    <3> QED
      BY <2>5, <3>1
  <2>9. Len(g) = l + 2
    BY <2>2, <2>4, <2>5, <2>7
  <2>10. \A i \in 1 .. 1 + l : g[i] = c[i]
    BY <2>4, <2>5, <2>7
  <2>11. g[1 + l + 1] = 93
    BY <2>2, <2>4, <2>5, <2>7
  <2>12. 1 + l + 1 = l + 2 /\ 1 \in 1 .. 1 + l /\ \A i \in 1 .. l : i + 1 \in 1 .. 1 + l /\ 1 + i = i + 1
    OBVIOUS
  <2>13. ASSUME NEW i \in 1 .. l PROVE g[i + 1] = t[i]
    <3>1. g[i + 1] = c[i + 1]
      BY <2>10, <2>12
    <3>2. c[i + 1] = t[i]
      BY <2>4, <2>12
    <3> QED
      BY <3>1, <3>2
  <2> QED
    BY <2>4, <2>8, <2>9, <2>10, <2>11, <2>12, <2>13
<1>10. \A i \in 1 .. Len(g) : f[i] = g[i]
  <2> SUFFICES ASSUME NEW i \in 1 .. l + 2 PROVE f[i] = g[i]
    BY <1>9
  <2>1. CASE i = 1
    BY <1>1, <1>9, <2>1
  <2>2. CASE i = l + 2
    BY <1>1, <1>2, <1>9, <2>2
  <2>3. CASE i # 1 /\ i # l + 2
    <3>1. PICK j \in 1 .. l : j + 1 = i
      <4>1. i - 1 \in 1 .. l /\ (i - 1) + 1 = i
        BY <2>3
      <4> QED
        BY <4>1
    <3>2. f[j + 1] = t[j] /\ g[j + 1] = t[j]
      BY <1>7, <1>9
    <3> QED
      BY <3>1, <3>2
  <2> QED
    BY <2>1, <2>2, <2>3
<1>11. f = g
  BY <1>2, <1>9, <1>10, SeqEqual
<1> QED
  BY <1>3, <1>6, <1>7, <1>8, <1>11

\* Where the selector of a part ends.
LEMMA SelectorEnd ==
  ASSUME NEW text \in Seq(Nat)
  PROVE  FieldSelectorEnd(text) \in 0 .. Len(text)
<1>1. Len(text) \in Nat
  BY LenProperties
<1>2. PICK ends : ends = Found(text, OpenBracket, 1) \cup Found(text, Pipe, 1)
  OBVIOUS
<1>3. ends \subseteq 1 .. Len(text)
  BY <1>2 DEF Found
<1>4. CASE ends = {}
  BY <1>1, <1>2, <1>4 DEF FieldSelectorEnd
<1>5. CASE ends # {}
  <2>1. ends \subseteq Nat
    BY <1>3
  <2>2. Min(ends) \in ends
    BY <1>5, <2>1, Least
  <2>3. Min(ends) - 1 \in 0 .. Len(text)
    <3>1. PICK l \in Nat, min \in 1 .. Len(text) : l = Len(text) /\ min = Min(ends)
      BY <1>1, <1>3, <2>2
    <3>2. min - 1 \in 0 .. l
      BY <3>1
    <3> QED
      BY <3>1, <3>2
  <2> QED
    BY <1>2, <1>5, <2>3 DEF FieldSelectorEnd
<1> QED
  BY <1>4, <1>5

\* WritesPart writes what ParsePart reads.
LEMMA PartWritten ==
  ASSUME NEW text \in Seq(Nat), text # <<>>, Found(text, Dot, 1) = {}, NumeralsFit(text),
         NEW part, part = ParsePart(text),
         part.number \in FieldNumbers, part.filter \in {"none", "keys", "brackets"}
  PROVE  part \in PathParts /\ WritesPart(text, part)
<1>1. PICK l \in Nat : l = Len(text) /\ DOMAIN text = 1 .. l
  BY LenProperties
<1>2. PICK n \in 0 .. l : n = FieldSelectorEnd(text)
  BY <1>1, SelectorEnd
<1>3. PICK selector, filter_str : selector = SubSeq(text, 1, n) /\ filter_str = SubSeq(text, n + 1, Len(text))
  OBVIOUS
<1>4. selector \in Seq(Nat) /\ DOMAIN selector = 1 .. n /\ \A i \in 1 .. n : selector[i] = text[i]
  <2>1. n \in Nat /\ n <= Len(text)
    BY <1>1
  <2>2. DOMAIN selector = 1 .. n /\ \A i \in 1 .. n : selector[i] = text[i]
    BY <1>3, <2>1, FirstParts
  <2>3. SubSeq(text, 1, n) \in Seq(Nat)
    BY <2>1, PartOfText
  <2> QED
    BY <1>3, <2>2, <2>3
<1>5. filter_str \in Seq(Nat)
  BY <1>1, <1>2, <1>3, RestOfText
<1>6. PICK number : number = IF text[1] \in 48 .. 57 THEN FieldNumbered(selector) ELSE FieldNamed(selector)
  OBVIOUS
<1>7. part =
        IF filter_str = <<>> THEN Part(number, "none", <<>>)
        ELSE IF filter_str = PipeKeys THEN Part(number, "keys", <<>>)
        ELSE IF Bracketed(filter_str) THEN Part(number, "brackets", Front(Tail(filter_str)))
        ELSE Part(number, "other", <<>>)
  BY <1>2, <1>3, <1>6 DEF ParsePart
<1>8. part.number = number
  BY <1>7 DEF Part
<1>9. number \in Nat
  BY <1>8, FieldNumbersAreNat
<1>10. Denotes(selector, number) /\ selector # <<>>
  <2>1. CASE text[1] \in 48 .. 57
    <3>1. number = FieldNumbered(selector)
      BY <1>6, <2>1
    <3>2. ASSUME selector # <<>> PROVE selector[1] \in 48 .. 57 /\ NumeralValue(selector) = number
      <4>1. n # 0
        BY <1>4, <3>2, EmptySeq, LenProperties
      <4>2. n \in 1 .. l /\ 1 \in 1 .. n
        BY <1>1, <1>2, <4>1
      <4>3. selector[1] = text[1]
        BY <1>4, <4>2
      <4>4. NumeralValue(selector) = FieldNumbered(selector)
        BY <1>1, <1>3, <1>8, <2>1, <3>1, <4>2 DEF NumeralsFit
      <4> QED
        BY <2>1, <3>1, <4>3, <4>4
    <3> QED
      BY <1>4, <1>9, <3>1, <3>2, SelectorFinds
  <2>2. CASE text[1] \notin 48 .. 57
    <3>1. number = FieldNamed(selector)
      BY <1>6, <2>2
    <3> QED
      BY <1>4, <1>9, <3>1, SelectorFinds
  <2> QED
    BY <2>1, <2>2
<1>11. n \in DOMAIN text
  <2>1. n # 0
    BY <1>4, <1>10, EmptySeq, LenProperties
  <2> QED
    BY <1>1, <1>2, <2>1
<1>12. /\ part.filter # "brackets" => part.text = <<>>
       /\ part.text \in Seq(Nat)
       /\ part = [number |-> part.number, filter |-> part.filter, text |-> part.text]
       /\ filter_str = FilterText(part)
  <2>1. CASE filter_str = <<>>
    <3>1. part = Part(number, "none", <<>>)
      BY <1>7, <2>1
    <3> QED
      BY <2>1, <3>1 DEF Part, FilterText
  <2>2. CASE filter_str = PipeKeys
    <3>1. part = Part(number, "keys", <<>>)
      BY <1>7, <2>2 DEF PipeKeys
    <3> QED
      BY <2>2, <3>1 DEF Part, FilterText
  <2>3. CASE filter_str # <<>> /\ filter_str # PipeKeys
    <3>1. Bracketed(filter_str)
      BY <1>7, <2>3 DEF Part
    <3>2. PICK t : t = Front(Tail(filter_str))
      OBVIOUS
    <3>3. part = Part(number, "brackets", t)
      BY <1>7, <2>3, <3>1, <3>2
    <3>4. t \in Seq(Nat) /\ filter_str = <<OpenBracket>> \o t \o <<CloseBracket>>
      BY <1>5, <3>1, <3>2, BracketsWritten
    <3> QED
      BY <3>3, <3>4 DEF Part, FilterText
  <2> QED
    BY <2>1, <2>2, <2>3
<1>13. part \in PathParts
  BY <1>8, <1>9, <1>12 DEF PathParts
<1> QED
  BY <1>3, <1>8, <1>10, <1>11, <1>12, <1>13 DEF WritesPart

\* The beginning of a part of a text is a part of the text.
LEMMA BeginningOfPart ==
  ASSUME NEW text \in Seq(Nat), NEW m \in Nat \ {0}, NEW n \in Nat, n <= Len(text), m <= n + 1,
         NEW k \in Nat, k <= n + 1 - m, NEW e \in Nat, e = m + k - 1
  PROVE  SubSeq(SubSeq(text, m, n), 1, k) = SubSeq(text, m, e)
<1>1. PICK l \in Nat : l = Len(text)
  BY LenProperties
<1>2. e <= n /\ m <= e + 1 /\ e + 1 - m = k
  OBVIOUS
<1>3. PICK part : part = SubSeq(text, m, n)
  OBVIOUS
<1>4. /\ part \in Seq(Nat) /\ Len(part) = n + 1 - m
      /\ \A i \in 1 .. n + 1 - m : part[i] = text[m + i - 1]
  <2>1. /\ SubSeq(text, m, n) \in Seq(Nat) /\ Len(SubSeq(text, m, n)) = n + 1 - m
        /\ \A i \in 1 .. n + 1 - m : SubSeq(text, m, n)[i] = text[m + i - 1]
    BY PartOfText
  <2> QED
    BY <1>3, <2>1
<1>5. PICK s, t : s = SubSeq(part, 1, k) /\ t = SubSeq(text, m, e)
  OBVIOUS
<1>6. s \in Seq(Nat) /\ Len(s) = k /\ \A i \in 1 .. k : s[i] = part[i]
  <2>1. DOMAIN s = 1 .. k /\ \A i \in 1 .. k : s[i] = part[i]
    BY <1>4, <1>5, FirstParts
  <2>2. k <= Len(part) /\ 1 <= k + 1 /\ 1 \in Nat \ {0}
    BY <1>4
  <2>3. SubSeq(part, 1, k) \in Seq(Nat)
    BY <1>4, <2>2, PartOfText
  <2> QED
    BY <1>5, <2>1, <2>3, LenProperties
<1>7. t \in Seq(Nat) /\ Len(t) = k /\ \A i \in 1 .. k : t[i] = text[m + i - 1]
  <2>1. e <= Len(text)
    BY <1>1, <1>2
  <2>2. /\ t \in Seq(Nat) /\ Len(t) = e + 1 - m
        /\ \A i \in 1 .. e + 1 - m : t[i] = text[m + i - 1]
    BY <1>2, <1>5, <2>1, PartOfText
  <2> QED
    BY <1>2, <2>2
<1>8. \A i \in 1 .. Len(s) : s[i] = t[i]
  <2>1. \A i \in 1 .. k : i \in 1 .. n + 1 - m
    OBVIOUS
  <2> QED
    BY <1>4, <1>6, <1>7, <2>1
<1>9. s = t
  BY <1>6, <1>7, <1>8, SeqEqual
<1> QED
  BY <1>3, <1>5, <1>9

\* What NumbersFit says of the text of a query it says of every part of it.
LEMMA NumeralsOfPart ==
  ASSUME NumbersFit, NEW q \in Queries, NEW text \in Seq(Nat), text = q.text,
         NEW m \in Nat \ {0}, NEW n \in Nat, n <= Len(text), m <= n + 1
  PROVE  NumeralsFit(SubSeq(text, m, n))
<1>1. PICK part : part = SubSeq(text, m, n)
  OBVIOUS
<1>2. /\ part \in Seq(Nat) /\ Len(part) = n + 1 - m
      /\ \A i \in 1 .. n + 1 - m : part[i] = text[m + i - 1]
  BY <1>1, PartOfText
<1>3. PICK l \in Nat : l = Len(text) /\ DOMAIN text = 1 .. l
  BY LenProperties
<1>4. DOMAIN part = 1 .. n + 1 - m
  BY <1>2, LenProperties
<1>5. ASSUME NEW k \in DOMAIN part, part[1] \in 48 .. 57, FieldNumbered(SubSeq(part, 1, k)) \in FieldNumbers
      PROVE  NumeralValue(SubSeq(part, 1, k)) = FieldNumbered(SubSeq(part, 1, k))
  <2>1. k \in Nat /\ k <= n + 1 - m /\ 1 <= k
    BY <1>4
  <2>2. PICK e \in Nat : e = m + k - 1
    <3>1. m + k - 1 \in Nat
      BY <2>1
    <3> QED
      BY <3>1
  <2>3. SubSeq(part, 1, k) = SubSeq(text, m, e)
    BY <1>1, <2>1, <2>2, BeginningOfPart
  <2>4. m \in DOMAIN text /\ e \in DOMAIN text
    BY <1>3, <2>1, <2>2
  <2>5. part[1] = text[m]
    <3>1. 1 \in 1 .. n + 1 - m /\ m + 1 - 1 = m
      BY <2>1
    <3> QED
      BY <1>2, <3>1
  <2>6. q.text[m] \in 48 .. 57 /\ m \in DOMAIN q.text /\ e \in DOMAIN q.text
    BY <1>5, <2>4, <2>5
  <2>7. FieldNumbered(SubSeq(q.text, m, e)) \in FieldNumbers
    BY <1>5, <2>3
  <2>8. NumeralValue(SubSeq(q.text, m, e)) = FieldNumbered(SubSeq(q.text, m, e))
    BY <2>6, <2>7, Zenon DEF NumbersFit
  <2> QED
    BY <2>3, <2>8
<1> QED
  BY <1>1, <1>5, Zenon DEF NumeralsFit

\* A part that is not rejected names a field, with a filter that README.md knows.
LEMMA PartFinds ==
  ASSUME NEW c, IsCompiled(c), NEW part, ~CompileQueryPart(c, part).thrown,
         c.desc_ptrs.desc \in DOMAIN Schema \cup {NoType}
  PROVE  /\ part # EmptyPart
         /\ part.number \in FieldNumbers /\ part.filter \in {"none", "keys", "brackets"}
<1>1. ~PartRejected(part, c.desc_ptrs.desc)
  BY DEF CompileQueryPart, IsCompiled
<1>2. PICK type \in DOMAIN Schema : type = c.desc_ptrs.desc
  BY <1>1 DEF PartRejected
<1>3. PICK fd \in Schema[type] : fd.number = part.number /\ ~FilterRejected(fd, part)
  BY <1>1, <1>2 DEF PartRejected, FindFieldByNumber
<1>4. part.filter \in {"none", "keys", "brackets"}
  BY <1>3 DEF FilterRejected
<1>5. part.number \in FieldNumbers
  BY <1>3 DEF FieldNumbers
<1> QED
  BY <1>1, <1>4, <1>5 DEF PartRejected

\* The dots take text apart, from the colon on, as far as the path goes.
Reaches(text, colon, path, dots) ==
  /\ path \in Seq(PathParts)
  /\ dots \in [0 .. Len(path) -> {colon, Len(text) + 1} \cup Found(text, Dot, 1)]
  /\ dots[0] = colon
  /\ \A i \in 1 .. Len(path) - 1 : dots[i] \in Found(text, Dot, 1)
  /\ \A i \in 1 .. Len(path) :
       dots[i - 1] < dots[i] /\ WritesPart(SubSeq(text, dots[i - 1] + 1, dots[i] - 1), path[i])

\* The next dot ends another part.
LEMMA PathGrows ==
  ASSUME NEW text, NEW colon, NEW path, NEW dots, Reaches(text, colon, path, dots),
         path # <<>> => dots[Len(path)] \in Found(text, Dot, 1),
         NEW part \in PathParts, NEW p \in {Len(text) + 1} \cup Found(text, Dot, 1),
         dots[Len(path)] < p, WritesPart(SubSeq(text, dots[Len(path)] + 1, p - 1), part)
  PROVE  \E longer :
           /\ Reaches(text, colon, Append(path, part), longer)
           /\ longer[Len(Append(path, part))] = p
<1>1. PICK l \in Nat : l = Len(path)
  BY LenProperties DEF Reaches
<1>2. PICK s : s = Append(path, part)
  OBVIOUS
<1>3. /\ s \in Seq(PathParts) /\ Len(s) = l + 1
      /\ \A i \in 1 .. l : s[i] = path[i]
      /\ s[l + 1] = part
  BY <1>1, <1>2, AppendProperties DEF Reaches
<1>4. PICK S : S = {colon, Len(text) + 1} \cup Found(text, Dot, 1)
  OBVIOUS
<1>5. dots \in [0 .. l -> S] /\ dots[0] = colon /\ p \in S
  BY <1>1, <1>4 DEF Reaches
<1>6. PICK d : d = [i \in 0 .. l + 1 |-> IF i = l + 1 THEN p ELSE dots[i]]
  OBVIOUS
<1>7. d \in [0 .. l + 1 -> S] /\ d[l + 1] = p /\ \A i \in 0 .. l : d[i] = dots[i]
  <2>1. \A i \in 0 .. l + 1 : i # l + 1 => i \in 0 .. l
    OBVIOUS
  <2>2. \A i \in 0 .. l : i # l + 1 /\ i \in 0 .. l + 1
    OBVIOUS
  <2>3. l + 1 \in 0 .. l + 1
    OBVIOUS
  <2> QED
    BY <1>5, <1>6, <2>1, <2>2, <2>3
<1>8. d[0] = colon
  BY <1>5, <1>7
<1>9. \A i \in 1 .. l + 1 - 1 : d[i] \in Found(text, Dot, 1)
  <2> TAKE i \in 1 .. l + 1 - 1
  <2>1. i \in 0 .. l /\ (i = l \/ i \in 1 .. l - 1)
    OBVIOUS
  <2>2. path # <<>>
    <3>1. l # 0
      OBVIOUS
    <3> QED
      BY <1>1, <3>1, EmptySeq
  <2>3. dots[l] \in Found(text, Dot, 1)
    BY <1>1, <2>2
  <2>4. \A j \in 1 .. l - 1 : dots[j] \in Found(text, Dot, 1)
    BY <1>1 DEF Reaches
  <2> QED
    BY <1>7, <2>1, <2>3, <2>4
<1>10. ASSUME NEW i \in 1 .. l + 1
       PROVE  d[i - 1] < d[i] /\ WritesPart(SubSeq(text, d[i - 1] + 1, d[i] - 1), s[i])
  <2>1. CASE i = l + 1
    <3>1. i - 1 = l /\ l \in 0 .. l
      BY <2>1
    <3>2. d[i - 1] = dots[l] /\ d[i] = p /\ s[i] = part
      BY <1>3, <1>7, <2>1, <3>1
    <3> QED
      BY <1>1, <3>2
  <2>2. CASE i # l + 1
    <3>1. i \in 1 .. l /\ i \in 0 .. l /\ i - 1 \in 0 .. l
      BY <2>2
    <3>2. d[i - 1] = dots[i - 1] /\ d[i] = dots[i] /\ s[i] = path[i]
      BY <1>3, <1>7, <3>1
    <3>3. dots[i - 1] < dots[i] /\ WritesPart(SubSeq(text, dots[i - 1] + 1, dots[i] - 1), path[i])
      BY <1>1, <3>1 DEF Reaches
    <3> QED
      BY <3>2, <3>3
  <2> QED
    BY <2>1, <2>2
<1>11. Reaches(text, colon, s, d)
  BY <1>3, <1>4, <1>7, <1>8, <1>9, <1>10 DEF Reaches
<1> QED
  BY <1>2, <1>3, <1>7, <1>11

\* All parts in front of the last.
LEMMA AllButLast ==
  ASSUME NEW S, NEW path \in Seq(S), NEW part \in S, NEW l \in Nat, l = Len(path)
  PROVE  SubSeq(Append(path, part), 1, l) = SubSeq(path, 1, l)
<1>1. PICK s : s = Append(path, part)
  OBVIOUS
<1>2. s \in Seq(S) /\ Len(s) = l + 1 /\ \A i \in 1 .. l : s[i] = path[i]
  BY <1>1, AppendProperties
<1>3. l <= Len(s) /\ l <= Len(path)
  BY <1>2
<1>4. DOMAIN SubSeq(s, 1, l) = 1 .. l /\ \A i \in 1 .. l : SubSeq(s, 1, l)[i] = s[i]
  BY <1>2, <1>3, FirstParts
<1>5. DOMAIN SubSeq(path, 1, l) = 1 .. l /\ \A i \in 1 .. l : SubSeq(path, 1, l)[i] = path[i]
  BY <1>3, FirstParts
<1>6. SubSeq(s, 1, l) \in Seq(S) /\ SubSeq(path, 1, l) \in Seq(S)
  <2>1. \A i \in 1 .. l : s[i] \in S /\ path[i] \in S
    BY <1>2, ElementOfSeq
  <2> QED
    BY <1>2, <1>3, <2>1, SubSeqProperties
<1>7. Len(SubSeq(s, 1, l)) = l /\ Len(SubSeq(path, 1, l)) = l
  BY <1>4, <1>5, <1>6, LenProperties
<1>8. SubSeq(s, 1, l) = SubSeq(path, 1, l)
  BY <1>2, <1>4, <1>5, <1>6, <1>7, SeqEqual
<1> QED
  BY <1>1, <1>8

\* The parts in front of the last are compiled as without it.
LEMMA UpToLast ==
  ASSUME NEW S, NEW path \in Seq(S), NEW part \in S, NEW type, NEW l \in Nat, l = Len(path)
  PROVE  /\ UpTo(type, Append(path, part), l) = UpTo(type, path, l)
         /\ UpTo(type, Append(path, part), Len(Append(path, part))) =
              CompileInnerPart(UpTo(type, path, l), part)
         /\ CompileQuery(type, Append(path, part), NoLimit) =
              CompileLastPart(UpTo(type, path, l), part, NoLimit)
<1>1. PICK s : s = Append(path, part)
  OBVIOUS
<1>2. s \in Seq(S) /\ Len(s) = l + 1 /\ s[l + 1] = part
  BY <1>1, AppendProperties
<1>3. UpTo(type, s, l) = UpTo(type, path, l)
  BY <1>1, AllButLast DEF UpTo
<1>4. UpTo(type, s, l + 1) = CompileInnerPart(UpTo(type, path, l), part)
  <2>1. l < Len(s)
    BY <1>2
  <2>2. UpTo(type, s, l + 1) = CompileInnerPart(UpTo(type, s, l), s[l + 1])
    BY <1>2, <2>1, UpToNext
  <2> QED
    BY <1>2, <1>3, <2>2
<1>5. CompileQuery(type, s, NoLimit) = CompileLastPart(UpTo(type, path, l), part, NoLimit)
  <2>1. s # <<>> /\ Len(s) - 1 = l
    BY <1>2, EmptySeq
  <2>2. CompileQuery(type, s, NoLimit) = CompileLastPart(UpTo(type, s, Len(s) - 1), s[Len(s)], NoLimit)
    BY <1>2, <2>1, WholePath
  <2> QED
    BY <1>2, <1>3, <2>1, <2>2
<1> QED
  BY <1>1, <1>2, <1>3, <1>4, <1>5

-----------------------------------------------------------------------------
(* The inductive invariant of the converse *)

\* GetDescSet has taken what is in front of the first of two colons, if any.
NameRead(text) ==
  LET colons == Found(text, Colon, 1) IN
  /\ desc_set \in DOMAIN DescSets
  /\ \/ /\ Cardinality(colons) > 1
        /\ position = Min(colons) + 1
        /\ desc_set = SubSeq(text, 1, Min(colons) - 1)
     \/ ~(Cardinality(colons) > 1) /\ position = 1 /\ desc_set = DefaultDescSet

\* The parts in front of the last dot are those of path, and compiled; part_buf is
\* what is read of the next.
PartsRead(text, colon, type, path, dots) ==
  LET begin == dots[Len(path)] IN
  /\ colon \in DOMAIN text /\ NamesType(text, colon, type)
  /\ Reaches(text, colon, path, dots)
  /\ path # <<>> => begin \in Found(text, Dot, 1)
  /\ begin < position /\ position <= Len(text) + 1
  /\ part_buf = SubSeq(text, begin + 1, position - 1)
  /\ \A i \in Nat : begin < i /\ i < position => text[i] # Dot
  /\ compiled = UpTo(type, path, Len(path))

\* What is compiled is what a documented reading of the text says.
Documented(text) ==
  \E type, path : Documents(text, type, path) /\ compiled = CompileQuery(type, path, NoLimit)

ReadInv(text) ==
  /\ position \in Nat \ {0}
  /\ pc \in {"Name", "Start"} => part_buf = <<>>
  /\ pc = "Name" /\ desc_set # NoType => NameRead(text)
  /\ pc = "Start" => position - 1 \in DOMAIN text /\ NamesType(text, position - 1, root)
  /\ pc = "Parts" /\ ~compiled.thrown =>
       \E colon, type, path, dots : PartsRead(text, colon, type, path, dots)
  /\ pc = "Done" /\ ~compiled.thrown /\ ~EndsWithDot(compiled.visitors) => Documented(text)

-----------------------------------------------------------------------------
(* Each step of it *)

LEMMA NameReadStep ==
  ASSUME NEW text \in Seq(Nat), text = Text, CompilationInv, ReadInv(text), GetDescSet
  PROVE  ReadInv(text)'
<1>1. PICK colons : colons = Found(text, Colon, 1)
  OBVIOUS
<1>2. PICK name : name = IF Cardinality(colons) > 1 THEN SubSeq(text, 1, Min(colons) - 1) ELSE DefaultDescSet
  OBVIOUS
<1>3. pc = "Name" /\ part_buf = <<>> /\ part_buf' = <<>> /\ position \in Nat \ {0}
  BY DEF GetDescSet, ReadInv
<1>4. CASE name \in DOMAIN DescSets
  <2>1. /\ desc_set' = name /\ pc' = "Name"
        /\ position' = IF Cardinality(colons) > 1 THEN Min(colons) + 1 ELSE 1
    BY <1>1, <1>2, <1>3, <1>4 DEF GetDescSet, vars
  <2>2. NameRead(text)'
    BY <1>1, <1>2, <1>4, <2>1 DEF NameRead
  <2>3. position' \in Nat \ {0}
    <3>1. CASE Cardinality(colons) > 1
      <4>1. colons # {}
        <5>1. Cardinality({}) = 0
          BY FS_EmptySet
        <5> QED
          BY <3>1, <5>1
      <4>2. Min(colons) \in Nat
        BY <1>1, <4>1, FirstFound
      <4> QED
        BY <2>1, <3>1, <4>2
    <3>2. CASE ~(Cardinality(colons) > 1)
      BY <2>1, <3>2
    <3> QED
      BY <3>1, <3>2
  <2> QED
    BY <1>3, <2>1, <2>2, <2>3 DEF ReadInv
<1>5. CASE name \notin DOMAIN DescSets
  <2>1. NamesNothing /\ UNCHANGED <<desc_set, position>>
    BY <1>1, <1>2, <1>5 DEF GetDescSet
  <2>2. pc' = "Done" /\ compiled'.thrown
    BY <2>1 DEF NamesNothing, CompilationInv, IsCompiled
  <2> QED
    BY <1>3, <2>1, <2>2 DEF ReadInv
<1> QED
  BY <1>4, <1>5

\* The ':' that ends the name of the message is the first or the second.
LEMMA TypeIsNamed ==
  ASSUME NEW text \in Seq(Nat), NameRead(text), NEW d, d = Min(Found(text, Colon, position)),
         Found(text, Colon, position) # {},
         SubSeq(text, position, d - 1) \in DOMAIN DescSets[desc_set]
  PROVE  d \in DOMAIN text /\ NamesType(text, d, DescSets[desc_set][SubSeq(text, position, d - 1)])
<1>1. PICK l \in Nat : l = Len(text) /\ DOMAIN text = 1 .. l
  BY LenProperties
<1>2. PICK colons : colons = Found(text, Colon, 1)
  OBVIOUS
<1>3. \A i : i \in colons <=> i \in 1 .. l /\ text[i] = Colon
  BY <1>1, <1>2 DEF Found
<1>4. PICK type : type = DescSets[desc_set][SubSeq(text, position, d - 1)]
  OBVIOUS
<1>5. TypesNamed(desc_set, SubSeq(text, position, d - 1)) = {type}
  BY <1>4 DEF TypesNamed, NameRead
<1>6. CASE ~(Cardinality(colons) > 1) /\ position = 1 /\ desc_set = DefaultDescSet
  <2>1. d \in colons
    <3>1. colons # {} /\ colons \subseteq Nat /\ d = Min(colons)
      BY <1>2, <1>3, <1>6
    <3> QED
      BY <3>1, Least
  <2>2. IsFiniteSet(colons)
    <3>1. IsFiniteSet(1 .. l)
      BY FS_Interval
    <3>2. colons \subseteq 1 .. l
      BY <1>3
    <3> QED
      BY <3>1, <3>2, FS_Subset
  <2>3. Cardinality(colons) = 1
    <3>1. Cardinality(colons) \in Nat
      BY <2>2, FS_CardinalityType
    <3>2. Cardinality(colons) # 0
      BY <2>1, <2>2, FS_EmptySet
    <3> QED
      BY <1>6, <3>1, <3>2
  <2>4. colons = {d}
    <3>1. PICK x : colons = {x}
      BY <2>2, <2>3, FS_Singleton
    <3> QED
      BY <2>1, <3>1
  <2>5. d \in DOMAIN text
    BY <1>1, <1>3, <2>1
  <2> QED
    BY <1>2, <1>4, <1>5, <1>6, <2>4, <2>5 DEF NamesType
<1>7. CASE /\ Cardinality(colons) > 1
           /\ position = Min(colons) + 1
           /\ desc_set = SubSeq(text, 1, Min(colons) - 1)
  <2>1. colons # {}
    <3>1. Cardinality(colons) > 1
      BY <1>7
    <3>2. CASE colons = {}
      BY <3>1, <3>2, FS_EmptySet
    <3> QED
      BY <3>2
  <2>2. PICK c \in Nat : c = Min(colons)
    BY <1>2, <2>1, FirstFound
  <2>3. c \in colons /\ \A i \in colons : c <= i
    <3>1. colons \subseteq Nat
      BY <1>3
    <3> QED
      BY <2>1, <2>2, <3>1, Least
  <2>4. position = c + 1 /\ c + 1 \in Nat \ {0}
    BY <1>7, <2>2
  <2>5. d \in Nat /\ c + 1 <= d /\ d <= Len(text) /\ text[d] = Colon /\ \A i \in Found(text, Colon, c + 1) : d <= i
    BY <2>4, FirstFound
  <2>6. d \in colons /\ c \in 1 .. d - 1
    <3>1. c \in 1 .. l
      BY <1>3, <2>3
    <3>2. d \in 1 .. l
      BY <1>1, <2>5, <3>1
    <3> QED
      BY <1>3, <2>5, <3>1, <3>2
  <2>7. ASSUME NEW i \in colons, i <= d PROVE i \in {c, d}
    <3>1. c <= i /\ i \in 1 .. l /\ text[i] = Colon
      BY <1>3, <2>3, <2>7
    <3>2. CASE c < i
      <4>1. i \in Found(text, Colon, c + 1)
        BY <1>1, <3>1, <3>2 DEF Found
      <4>2. d <= i
        BY <2>5, <4>1
      <4> QED
        BY <2>5, <2>7, <3>1, <4>2
    <3> QED
      BY <3>1, <3>2
  <2>8. {i \in colons : i <= d} = {c, d}
    <3>1. c <= d /\ d <= d
      BY <2>5
    <3> QED
      BY <2>3, <2>6, <2>7, <3>1
  <2>9. TypesNamed(SubSeq(text, 1, c - 1), SubSeq(text, c + 1, d - 1)) = {type}
    BY <1>5, <1>7, <2>2, <2>4
  <2>10. d \in DOMAIN text
    BY <1>1, <1>3, <2>6
  <2> QED
    BY <1>2, <1>4, <2>6, <2>8, <2>9, <2>10 DEF NamesType
<1> QED
  BY <1>2, <1>6, <1>7 DEF NameRead

LEMMA TypeReadStep ==
  ASSUME NEW text \in Seq(Nat), text = Text, CompilationInv, ReadInv(text), GetDesc
  PROVE  ReadInv(text)'
<1>1. PICK d : d = Min(Found(text, Colon, position))
  OBVIOUS
<1>2. PICK name : name = SubSeq(text, position, d - 1)
  OBVIOUS
<1>3. /\ pc = "Name" /\ part_buf = <<>> /\ part_buf' = <<>> /\ position \in Nat \ {0}
      /\ NameRead(text)
  BY DEF GetDesc, ReadInv
<1>4. CASE Found(text, Colon, position) # {} /\ name \in DOMAIN DescSets[desc_set]
  <2>1. pc' = "Start" /\ root' = DescSets[desc_set][name] /\ position' = d + 1
    BY <1>1, <1>2, <1>4 DEF GetDesc, NamesRoot
  <2>2. d \in DOMAIN text /\ NamesType(text, d, root')
    BY <1>1, <1>2, <1>3, <1>4, <2>1, TypeIsNamed
  <2>3. d \in Nat
    BY <2>2, LenProperties
  <2>4. position' \in Nat \ {0} /\ position' - 1 = d
    BY <2>1, <2>3
  <2> QED
    BY <1>3, <2>1, <2>2, <2>4 DEF ReadInv
<1>5. CASE ~(Found(text, Colon, position) # {} /\ name \in DOMAIN DescSets[desc_set])
  <2>1. NamesNothing /\ UNCHANGED position
    BY <1>1, <1>2, <1>5 DEF GetDesc
  <2>2. pc' = "Done" /\ compiled'.thrown
    BY <2>1 DEF NamesNothing, CompilationInv, IsCompiled
  <2> QED
    BY <1>3, <2>1, <2>2 DEF ReadInv
<1> QED
  BY <1>4, <1>5

LEMMA PathBegun ==
  ASSUME NEW text \in Seq(Nat), text = Text, CompilationInv, ReadInv(text), BeginPath
  PROVE  ReadInv(text)'
<1>1. PICK l \in Nat : l = Len(text) /\ DOMAIN text = 1 .. l
  BY LenProperties
<1>2. pc = "Start" /\ part_buf = <<>> /\ position \in Nat \ {0} /\ UNCHANGED textVars
  BY DEF BeginPath, EmptyPath, DescendIntoRootMessage, ReadInv
<1>3. PICK colon \in 1 .. l : colon = position - 1 /\ NamesType(text, colon, root)
  BY <1>1, <1>2 DEF ReadInv
<1>4. compiled = Root(root) /\ position = colon + 1
  BY <1>2, <1>3 DEF CompilationInv
<1>5. position' = position /\ part_buf' = <<>> /\ Text' = Text
  BY <1>2 DEF textVars, Text
<1>6. <<>> \in Seq(PathParts) /\ Len(<<>>) = 0
  BY EmptySeq
<1>7. CASE position > Len(text)
  <2>1. colon = Len(text)
    BY <1>1, <1>3, <1>4, <1>7
  <2>2. pc' = "Done" /\ compiled' = CompileLastPart(Root(root), EmptyPart, NoLimit)
    BY <1>4, <1>7 DEF BeginPath, EmptyPath, Compiles
  <2>3. compiled' = CompileQuery(root, <<>>, NoLimit)
    BY <2>2 DEF CompileQuery
  <2>4. WritesPath(text, colon, <<>>)
    BY <1>6, <2>1 DEF WritesPath
  <2>5. Documents(text, root, <<>>)
    BY <1>1, <1>3, <2>4 DEF Documents
  <2>6. Documented(text)'
    BY <2>3, <2>5 DEF Documented
  <2> QED
    BY <1>2, <1>5, <2>2, <2>6 DEF ReadInv
<1>8. CASE ~(position > Len(text))
  <2>1. pc' = "Parts" /\ compiled' = DescendIntoRoot(Root(root))
    BY <1>4, <1>8 DEF BeginPath, DescendIntoRootMessage, Compiles
  <2>2. compiled' = UpTo(root, <<>>, 0)
    BY <1>6, <2>1, UpToNone
  <2>3. PICK dots : dots = [i \in 0 .. 0 |-> colon]
    OBVIOUS
  <2>4. dots[0] = colon /\ dots \in [0 .. 0 -> {colon, Len(text) + 1} \cup Found(text, Dot, 1)]
    BY <2>3
  <2>5. Reaches(text, colon, <<>>, dots)
    <3>1. 1 .. 0 = {} /\ 1 .. 0 - 1 = {}
      OBVIOUS
    <3> QED
      BY <1>6, <2>4, <3>1 DEF Reaches
  <2>6. SubSeq(text, colon + 1, position' - 1) = <<>>
    <3>1. PICK m \in Nat, n \in Nat : m = colon + 1 /\ n = colon
      BY <1>3
    <3>2. SubSeq(text, m, n) = <<>>
      BY <3>1, SubSeqEmpty
    <3>3. colon + 1 = m /\ position' - 1 = n
      BY <1>3, <1>5, <3>1
    <3> QED
      BY <3>2, <3>3
  <2>7. colon < position' /\ position' <= Len(text) + 1
    BY <1>1, <1>3, <1>4, <1>5, <1>8
  <2>8. \A i \in Nat : colon < i /\ i < position' => text[i] # Dot
    BY <1>3, <1>4, <1>5
  <2>9. colon \in DOMAIN text
    BY <1>1
  <2>10. dots[Len(<<>>)] = colon
    BY <1>6, <2>4
  <2>11. PICK type : type = root
    OBVIOUS
  <2>12. PartsRead(text, colon, type, <<>>, dots)'
    <3>1. part_buf' = SubSeq(text, dots[Len(<<>>)] + 1, position' - 1)
      BY <1>5, <2>6, <2>10
    <3>2. /\ dots[Len(<<>>)] < position' /\ position' <= Len(text) + 1
          /\ \A i \in Nat : dots[Len(<<>>)] < i /\ i < position' => text[i] # Dot
      BY <2>7, <2>8, <2>10
    <3>3. compiled' = UpTo(type, <<>>, Len(<<>>))
      BY <1>6, <2>2, <2>11
    <3>4. NamesType(text, colon, type)
      BY <1>3, <2>11
    <3> QED
      BY <2>5, <2>9, <3>1, <3>2, <3>3, <3>4, Zenon DEF PartsRead
  <2> QED
    BY <1>2, <1>5, <2>1, <2>12 DEF ReadInv
<1> QED
  BY <1>7, <1>8

\* The part that begins behind begin is read up to the position, without a '.'.
ReadFrom(text, begin) ==
  /\ begin < position /\ position <= Len(text) + 1
  /\ part_buf \in Seq(Nat) /\ Found(part_buf, Dot, 1) = {}
  /\ part_buf = SubSeq(text, begin + 1, position - 1)

LEMMA PartReadSoFar ==
  ASSUME NEW text \in Seq(Nat), NEW colon, NEW type, NEW path, NEW dots,
         PartsRead(text, colon, type, path, dots), position \in Nat \ {0}
  PROVE  dots[Len(path)] \in Nat /\ ReadFrom(text, dots[Len(path)])
<1>1. PICK l \in Nat : l = Len(text) /\ DOMAIN text = 1 .. l
  BY LenProperties
<1>2. PICK n \in Nat : n = Len(path)
  BY LenProperties DEF PartsRead, Reaches
<1>3. dots[n] \in {colon, l + 1} \cup Found(text, Dot, 1) /\ colon \in 1 .. l
  <2>1. n \in 0 .. n
    OBVIOUS
  <2> QED
    BY <1>1, <1>2, <2>1 DEF PartsRead, Reaches
<1>4. PICK begin \in Nat : begin = dots[Len(path)]
  BY <1>1, <1>2, <1>3 DEF Found
<1>5. /\ begin < position /\ position <= Len(text) + 1
      /\ part_buf = SubSeq(text, begin + 1, position - 1)
      /\ \A i \in Nat : begin < i /\ i < position => text[i] # Dot
  BY <1>4 DEF PartsRead
<1>6. PICK p \in Nat \ {0} : p = position
  OBVIOUS
<1>7. PICK m \in Nat \ {0}, e \in Nat : m = begin + 1 /\ e = p - 1
  <2>1. begin + 1 \in Nat \ {0} /\ p - 1 \in Nat
    OBVIOUS
  <2> QED
    BY <2>1
<1>8. e <= Len(text) /\ m <= e + 1
  BY <1>1, <1>5, <1>6, <1>7
<1>9. part_buf = SubSeq(text, m, e)
  BY <1>5, <1>6, <1>7
<1>10. /\ part_buf \in Seq(Nat) /\ Len(part_buf) = e + 1 - m
       /\ \A i \in 1 .. e + 1 - m : part_buf[i] = text[m + i - 1]
  BY <1>8, <1>9, PartOfText
<1>11. \A i \in 1 .. e + 1 - m : part_buf[i] # Dot
  <2> TAKE i \in 1 .. e + 1 - m
  <2>1. m + i - 1 \in Nat /\ begin < m + i - 1 /\ m + i - 1 < p
    BY <1>7
  <2>2. text[m + i - 1] # Dot
    BY <1>5, <1>6, <2>1
  <2> QED
    BY <1>10, <2>2
<1>12. Found(part_buf, Dot, 1) = {}
  BY <1>10, <1>11 DEF Found
<1> QED
  BY <1>4, <1>5, <1>10, <1>12 DEF ReadFrom

\* A part that is not rejected makes the path longer.
LEMMA PartAccepted ==
  ASSUME NumbersFit, NEW text \in Seq(Nat), query \in Queries, text = Text,
         NEW colon, NEW type, NEW path, NEW dots,
         PartsRead(text, colon, type, path, dots), position \in Nat \ {0},
         CompilationInv, pc = "Parts", ~compiled.thrown,
         NEW part, part = ParsePart(part_buf), ~CompileQueryPart(compiled, part).thrown,
         position \in {Len(text) + 1} \cup Found(text, Dot, 1)
  PROVE  /\ part \in PathParts /\ path \in Seq(PathParts)
         /\ \E longer :
              /\ Reaches(text, colon, Append(path, part), longer)
              /\ longer[Len(Append(path, part))] = position
<1>0. dots[Len(path)] \in Nat /\ ReadFrom(text, dots[Len(path)])
  BY PartReadSoFar, Zenon
<1>1. PICK begin \in Nat :
        /\ begin = dots[Len(path)] /\ begin < position /\ position <= Len(text) + 1
        /\ part_buf \in Seq(Nat) /\ Found(part_buf, Dot, 1) = {}
        /\ part_buf = SubSeq(text, begin + 1, position - 1)
  BY <1>0 DEF ReadFrom
<1>2. /\ part # EmptyPart
      /\ part.number \in FieldNumbers /\ part.filter \in {"none", "keys", "brackets"}
  BY PartFinds DEF CompilationInv, Following
<1>3. part_buf # <<>>
  BY <1>2 DEF ParsePart
<1>4. NumeralsFit(part_buf)
  <2>1. PICK m \in Nat \ {0}, e \in Nat : m = begin + 1 /\ e = position - 1
    <3>1. begin + 1 \in Nat \ {0} /\ position - 1 \in Nat
      OBVIOUS
    <3> QED
      BY <3>1
  <2>2. e <= Len(text) /\ m <= e + 1
    <3>1. Len(text) \in Nat
      BY LenProperties
    <3> QED
      BY <1>1, <2>1, <3>1
  <2>3. NumeralsFit(SubSeq(text, m, e))
    BY <2>2, NumeralsOfPart DEF Text
  <2> QED
    BY <1>1, <2>1, <2>3
<1>5. part \in PathParts /\ WritesPart(part_buf, part)
  BY <1>1, <1>2, <1>3, <1>4, PartWritten
<1>6. Reaches(text, colon, path, dots) /\ (path # <<>> => dots[Len(path)] \in Found(text, Dot, 1))
  BY DEF PartsRead
<1>7. dots[Len(path)] < position /\ WritesPart(SubSeq(text, dots[Len(path)] + 1, position - 1), part)
  BY <1>1, <1>5
<1>8. path \in Seq(PathParts)
  BY <1>6 DEF Reaches
<1> QED
  BY <1>5, <1>6, <1>7, <1>8, PathGrows

LEMMA CharacterReadOn ==
  ASSUME NumbersFit, NEW text \in Seq(Nat), query \in Queries, text = Text,
         CompilationInv, ReadInv(text), ReadCharacter
  PROVE  ReadInv(text)'
<1>1. /\ pc = "Parts" /\ ~compiled.thrown /\ position <= Len(text)
      /\ position \in Nat \ {0} /\ position' = position + 1
  BY DEF ReadCharacter, ReadInv
<1>2. PICK p \in Nat \ {0} : p = position
  BY <1>1
<1>3. p + 1 \in Nat \ {0} /\ p + 1 - 1 = p /\ p < p + 1
  OBVIOUS
<1>4. PICK colon, type, path, dots : PartsRead(text, colon, type, path, dots)
  BY <1>1 DEF ReadInv
<1>5. position' \in Nat \ {0}
  BY <1>1, <1>2, <1>3
<1>6. p <= Len(text) /\ p + 1 <= Len(text) + 1
  <2>1. Len(text) \in Nat
    BY LenProperties
  <2> QED
    BY <1>1, <1>2, <2>1
<1>7. CASE text[position] # Dot
  <2>1. part_buf' = Append(part_buf, text[position]) /\ UNCHANGED vars
    BY <1>7 DEF ReadCharacter
  <2>2. dots[Len(path)] \in Nat /\ ReadFrom(text, dots[Len(path)])
    BY <1>1, <1>4, PartReadSoFar, Zenon
  <2>3. PICK begin \in Nat : begin = dots[Len(path)]
    BY <2>2
  <2>4. begin < p /\ part_buf = SubSeq(text, begin + 1, p - 1)
    BY <1>2, <2>2, <2>3 DEF ReadFrom
  <2>5. part_buf' = SubSeq(text, begin + 1, p + 1 - 1)
    BY <1>2, <1>3, <1>6, <2>1, <2>4, PartGrows
  <2>6. begin < p + 1
    BY <2>4
  <2>7. ASSUME NEW i \in Nat, begin < i, i < p + 1 PROVE text[i] # Dot
    <3>1. CASE i = p
      BY <1>2, <1>7, <3>1
    <3>2. CASE i < p
      BY <1>2, <1>4, <2>3, <2>7, <3>2 DEF PartsRead
    <3> QED
      BY <2>7, <3>1, <3>2
  <2>8. position' = p + 1 /\ compiled' = compiled /\ pc' = "Parts"
    BY <1>1, <1>2, <2>1 DEF vars
  <2>9. PartsRead(text, colon, type, path, dots)'
    <3>1. /\ dots[Len(path)] < position' /\ position' <= Len(text) + 1
          /\ part_buf' = SubSeq(text, dots[Len(path)] + 1, position' - 1)
          /\ \A i \in Nat : dots[Len(path)] < i /\ i < position' => text[i] # Dot
      BY <1>6, <2>3, <2>5, <2>6, <2>7, <2>8
    <3>2. /\ colon \in DOMAIN text /\ NamesType(text, colon, type)
          /\ Reaches(text, colon, path, dots)
          /\ path # <<>> => dots[Len(path)] \in Found(text, Dot, 1)
          /\ compiled' = UpTo(type, path, Len(path))
      BY <1>4, <2>8 DEF PartsRead
    <3> QED
      BY <3>1, <3>2, Zenon DEF PartsRead
  <2> QED
    BY <1>5, <2>8, <2>9 DEF ReadInv
<1>8. CASE text[position] = Dot
  <2>1. PICK part : part = ParsePart(part_buf)
    OBVIOUS
  <2>2. PartEndsAtDot(part) /\ part_buf' = <<>>
    BY <1>8, <2>1 DEF ReadCharacter
  <2>3. pc' = "Parts" /\ compiled' = CompileInnerPart(compiled, part)
    BY <1>1, <2>2 DEF PartEndsAtDot, Compiles
  <2>4. CASE CompileQueryPart(compiled, part).thrown
    <3>1. compiled'.thrown
      BY <2>3, <2>4 DEF CompileInnerPart
    <3> QED
      BY <1>5, <2>3, <3>1 DEF ReadInv
  <2>5. CASE ~CompileQueryPart(compiled, part).thrown
    <3>1. p \in Found(text, Dot, 1)
      <4>1. Len(text) \in Nat
        BY LenProperties
      <4> QED
        BY <1>2, <1>6, <1>8, <4>1 DEF Found
    <3>2. /\ part \in PathParts /\ path \in Seq(PathParts)
          /\ \E longer :
               /\ Reaches(text, colon, Append(path, part), longer)
               /\ longer[Len(Append(path, part))] = p
      BY <1>1, <1>2, <1>4, <2>1, <2>5, <3>1, PartAccepted
    <3>3. PICK longer :
            /\ Reaches(text, colon, Append(path, part), longer)
            /\ longer[Len(Append(path, part))] = p
      BY <3>2
    <3>4. PICK s : s = Append(path, part)
      OBVIOUS
    <3>5. compiled' = UpTo(type, s, Len(s))
      <4>1. PICK l \in Nat : l = Len(path)
        BY <3>2, LenProperties
      <4>2. UpTo(type, s, Len(s)) = CompileInnerPart(UpTo(type, path, l), part)
        BY <3>2, <3>4, <4>1, UpToLast
      <4>3. compiled = UpTo(type, path, l)
        BY <1>4, <4>1 DEF PartsRead
      <4> QED
        BY <2>3, <4>2, <4>3
    <3>6. part_buf' = SubSeq(text, longer[Len(s)] + 1, position' - 1)
      <4>1. SubSeq(text, p + 1, p) = <<>>
        BY <1>3, SubSeqEmpty
      <4>2. longer[Len(s)] + 1 = p + 1 /\ position' - 1 = p
        BY <1>1, <1>2, <1>3, <3>3, <3>4
      <4> QED
        BY <2>2, <4>1, <4>2
    <3>7. /\ longer[Len(s)] < position' /\ position' <= Len(text) + 1
          /\ \A i \in Nat : longer[Len(s)] < i /\ i < position' => text[i] # Dot
      <4>1. \A i \in Nat : ~(p < i /\ i < p + 1)
        OBVIOUS
      <4> QED
        BY <1>1, <1>2, <1>3, <1>6, <3>3, <3>4, <4>1
    <3>8. /\ colon \in DOMAIN text /\ NamesType(text, colon, type)
          /\ Reaches(text, colon, s, longer)
          /\ s # <<>> => longer[Len(s)] \in Found(text, Dot, 1)
      BY <1>4, <3>1, <3>3, <3>4 DEF PartsRead
    <3>9. PartsRead(text, colon, type, s, longer)'
      BY <3>5, <3>6, <3>7, <3>8, Zenon DEF PartsRead
    <3> QED
      BY <1>5, <2>3, <3>9 DEF ReadInv
  <2> QED
    BY <2>4, <2>5
<1> QED
  BY <1>7, <1>8

\* The last part ends where the text does.
LEMMA EndReadOn ==
  ASSUME NumbersFit, NEW text \in Seq(Nat), query \in Queries, text = Text,
         CompilationInv, ReadInv(text), ReadEnd
  PROVE  ReadInv(text)'
<1>1. PICK part : part = ParsePart(part_buf)
  OBVIOUS
<1>2. /\ pc = "Parts" /\ ~compiled.thrown /\ position > Len(text) /\ position \in Nat \ {0}
      /\ UNCHANGED textVars /\ pc' = "Done" /\ compiled' = CompileLastPart(compiled, part, NoLimit)
  BY <1>1 DEF ReadEnd, QueryEnds, Compiles, ReadInv
<1>3. PICK colon, type, path, dots : PartsRead(text, colon, type, path, dots)
  BY <1>2 DEF ReadInv
<1>4. position = Len(text) + 1
  <2>1. position <= Len(text) + 1 /\ Len(text) \in Nat
    BY <1>3, LenProperties DEF PartsRead
  <2> QED
    BY <1>2, <2>1
<1>5. SUFFICES ASSUME ~compiled'.thrown, ~EndsWithDot(compiled'.visitors) PROVE Documented(text)'
  BY <1>2 DEF ReadInv, textVars
<1>6. part # EmptyPart
  <2>1. ASSUME part = EmptyPart PROVE FALSE
    <3>1. compiled' = [compiled EXCEPT !.visitors = Append(@, Emitter(compiled.desc_ptrs, NoLimit))]
      BY <1>2, <2>1 DEF CompileLastPart
    <3>2. compiled'.visitors = Append(compiled.visitors, Emitter(compiled.desc_ptrs, NoLimit))
      BY <3>1 DEF CompilationInv, IsCompiled
    <3>3. EndsWithDot(compiled'.visitors)
      BY <1>2, <3>2, EndsBehindDot DEF CompilationInv, Following
    <3> QED
      BY <1>5, <3>3
  <2> QED
    BY <2>1
<1>7. ~CompileQueryPart(compiled, part).thrown
  BY <1>2, <1>5, <1>6 DEF CompileLastPart
<1>8. /\ part \in PathParts /\ path \in Seq(PathParts)
      /\ \E longer :
           /\ Reaches(text, colon, Append(path, part), longer)
           /\ longer[Len(Append(path, part))] = position
  BY <1>1, <1>2, <1>3, <1>4, <1>7, PartAccepted
<1>9. PICK longer :
        /\ Reaches(text, colon, Append(path, part), longer)
        /\ longer[Len(Append(path, part))] = position
  BY <1>8
<1>10. PICK s : s = Append(path, part)
  OBVIOUS
<1>11. s \in Seq(PathParts) /\ s # <<>>
  BY <1>8, <1>10, AppendProperties
<1>12. WritesPath(text, colon, s)
  BY <1>4, <1>9, <1>10, <1>11 DEF WritesPath, Reaches, Separates
<1>13. Documents(text, type, s)
  BY <1>3, <1>12 DEF Documents, PartsRead
<1>14. compiled' = CompileQuery(type, s, NoLimit)
  <2>1. PICK l \in Nat : l = Len(path)
    BY <1>8, LenProperties
  <2>2. CompileQuery(type, s, NoLimit) = CompileLastPart(UpTo(type, path, l), part, NoLimit)
    BY <1>8, <1>10, <2>1, UpToLast
  <2>3. compiled = UpTo(type, path, l)
    BY <1>3, <2>1 DEF PartsRead
  <2> QED
    BY <1>2, <2>2, <2>3
<1> QED
  BY <1>13, <1>14 DEF Documented

LEMMA ReadStep ==
  ASSUME NumbersFit, NEW text \in Seq(Nat), query \in Queries, text = Text,
         CompilationInv, ReadInv(text), [TextNext]_<<vars, textVars>>
  PROVE  ReadInv(text)'
<1>1. CASE GetDescSet
  BY <1>1, NameReadStep
<1>2. CASE GetDesc
  BY <1>2, TypeReadStep
<1>3. CASE BeginPath
  BY <1>3, PathBegun
<1>4. CASE ReadCharacter
  BY <1>4, CharacterReadOn
<1>5. CASE ReadEnd
  BY <1>5, EndReadOn
<1>6. CASE BadQuery /\ UNCHANGED textVars
  <2>1. pc' = "Done" /\ compiled'.thrown /\ position' = position
    BY <1>6 DEF BadQuery, textVars
  <2> QED
    BY <2>1 DEF ReadInv
<1>7. CASE (Compiled /\ UNCHANGED textVars) \/ UNCHANGED <<vars, textVars>>
  <2>1. UNCHANGED <<root, pc, compiled, position, part_buf, desc_set>>
    BY <1>7 DEF Compiled, vars, textVars
  <2>2. NameRead(text)' <=> NameRead(text)
    BY <2>1 DEF NameRead
  <2>3. Documented(text)' <=> Documented(text)
    BY <2>1 DEF Documented
  <2>4. \A colon, type, path, dots :
          PartsRead(text, colon, type, path, dots) => PartsRead(text, colon, type, path, dots)'
    BY <2>1 DEF PartsRead
  <2> QED
    BY <2>1, <2>2, <2>3, <2>4 DEF ReadInv
<1> QED
  BY <1>1, <1>2, <1>3, <1>4, <1>5, <1>6, <1>7 DEF TextNext

-----------------------------------------------------------------------------
(* The theorems of the converse *)

SourceInv == TextInv /\ query \in Queries /\ ReadInv(Text)

LEMMA SourceStart == TextInit => SourceInv
<1> SUFFICES ASSUME TextInit PROVE SourceInv
  OBVIOUS
<1>1. TextInv
  BY InitiallyInv DEF TextInit, TextInv
<1>2. query \in Queries /\ pc = "Name" /\ desc_set = NoType /\ position = 1 /\ part_buf = <<>>
  BY DEF TextInit, Init
<1> QED
  BY <1>1, <1>2 DEF SourceInv, ReadInv

LEMMA SourceKept ==
  ASSUME NumbersFit
  PROVE  SourceInv /\ [TextNext]_<<vars, textVars>> => SourceInv'
<1> SUFFICES ASSUME SourceInv, [TextNext]_<<vars, textVars>> PROVE SourceInv'
  OBVIOUS
<1>1. PICK text \in Seq(Nat) : text = Text
  BY QueriesAssumption DEF SourceInv, Text
<1>2. query' = query
  BY DEF TextNext, GetDescSet, GetDesc, BeginPath, ReadCharacter, ReadEnd, textVars
<1>3. Text' = text /\ query' \in Queries
  BY <1>1, <1>2 DEF SourceInv, Text
<1>4. TextInv'
  BY TextStep DEF SourceInv
<1>5. ReadInv(text)'
  BY <1>1, ReadStep DEF SourceInv, TextInv
<1>6. ReadInv(Text)'
  <2>1. NameRead(Text)' <=> NameRead(text)'
    BY <1>3 DEF NameRead
  <2>2. \A colon, type, path, dots :
          PartsRead(text, colon, type, path, dots)' => PartsRead(Text, colon, type, path, dots)'
    BY <1>3 DEF PartsRead
  <2>3. Documented(Text)' <=> Documented(text)'
    BY <1>3 DEF Documented
  <2> QED
    BY <1>3, <1>5, <2>1, <2>2, <2>3 DEF ReadInv
<1> QED
  BY <1>3, <1>4, <1>6 DEF SourceInv

LEMMA SourceInvariant ==
  ASSUME NumbersFit
  PROVE  TextSpec => []SourceInv
<1>1. SourceInv /\ [TextNext]_<<vars, textVars>> => SourceInv'
  BY SourceKept
<1> QED
  BY <1>1, SourceStart, PTL DEF TextSpec

\* What is accepted has a reading that README.md gives it, and is compiled to what
\* that reading says: the converse of QueriesAreUnderstood, for every text.  Only
\* the two leniencies of Accepted are left out.
AcceptedIsDocumented == Accepted => Documented(Text)

THEOREM AcceptedQueriesAreDocumented ==
  ASSUME NumbersFit
  PROVE  TextSpec => []AcceptedIsDocumented
<1>1. SourceInv => AcceptedIsDocumented
  BY DEF SourceInv, ReadInv, Accepted, AcceptedIsDocumented
<1>2. TextSpec => []SourceInv
  BY SourceInvariant
<1> QED
  BY <1>1, <1>2, PTL

\* If the meanings of the queries are the readings of their texts that fit their
\* messages, a text without one is rejected, wherever ':', '.', '[', '|' or a digit
\* turns up in it.  Not said of a text that ends with '.', or goes on behind "|keys"
\* (Accepted), or has a numeral that wraps around to the number of a field
\* (NumbersFit).  A reading fits whatever number ParseNum and std::stol can read
\* between the brackets, blanks and sign in front included.
THEOREM OtherTextsAreRejected ==
  ASSUME NumbersFit, ReadingsAreMeant
  PROVE  TextSpec => []RejectsOtherTexts
<1>1. SourceInv => RejectsOtherTexts
  <2> SUFFICES ASSUME SourceInv, query.meaning = {}, Accepted PROVE FALSE
    BY DEF RejectsOtherTexts
  <2>1. PICK type, path : Documents(Text, type, path) /\ compiled = CompileQuery(type, path, NoLimit)
    BY DEF SourceInv, ReadInv, Accepted, Documented
  <2>2. Fits(compiled)
    BY DEF Accepted, Fits
  <2>3. [type |-> type, path |-> path] \in query.meaning
    BY <2>1, <2>2 DEF ReadingsAreMeant, SourceInv, Text
  <2> QED
    BY <2>3
<1>2. TextSpec => []SourceInv
  BY SourceInvariant
<1> QED
  BY <1>1, <1>2, PTL

=============================================================================
