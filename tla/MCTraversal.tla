----------------------------- MODULE MCTraversal -----------------------------
(***************************************************************************)
(* Instances of Traversal: a schema, columns serialized from small messages*)
(* of it, and queries compiled by QueryCompiler.                           *)
(***************************************************************************)
EXTENDS Traversal, ReferenceQuery

-----------------------------------------------------------------------------
(* The schema *)

\* Singular and repeated fields, maps, and packed fields of type "M".
Fd(number, ty) == FieldDescriptor(number, ty, NoType, FALSE, FALSE, FALSE)
RepeatedFd(number, ty) == FieldDescriptor(number, ty, NoType, TRUE, FALSE, FALSE)
PackedFd(number, ty) == FieldDescriptor(number, ty, NoType, TRUE, TRUE, FALSE)
MessageFd(number, type) == FieldDescriptor(number, "message", type, FALSE, FALSE, FALSE)
MapFd(number, type) == FieldDescriptor(number, "message", type, TRUE, FALSE, TRUE)

MCSchema ==
  [M |-> {Fd(1, "varint"), Fd(2, "string"), PackedFd(3, "varint"), RepeatedFd(4, "string"),
          FieldDescriptor(5, "message", "M", TRUE, FALSE, FALSE),
          MapFd(6, "StringToInt"), MapFd(7, "IntToString"), MapFd(8, "StringToM"),
          PackedFd(9, "fixed32"), MessageFd(10, "M"), Fd(11, "fixed32"), Fd(12, "bytes"),
          RepeatedFd(13, "fixed64"), MapFd(14, "FixedToInt"), PackedFd(15, "fixed64")},
   StringToInt |-> {Fd(1, "string"), Fd(2, "varint")},
   IntToString |-> {Fd(1, "varint"), Fd(2, "string")},
   StringToM   |-> {Fd(1, "string"), MessageFd(2, "M")},
   FixedToInt  |-> {Fd(1, "fixed64"), Fd(2, "varint")},
   \* An older M: field 10 was an opaque string of bytes.
   OldM |-> {Fd(1, "varint"), Fd(4, "string"), Fd(10, "bytes")}]

-----------------------------------------------------------------------------
(* Messages *)

F(number, value) == [number |-> number, value |-> value]

a == <<97>>
b == <<98>>
eAcute == <<195, 169>>           \* UTF-8 encoded

Entry(key, value) == <<F(1, key), F(2, value)>>
ValueFirst(key, value) == <<F(2, value), F(1, key)>>

Leaves == {F(1, 5), F(2, a), F(3, <<1, 200>>), F(4, a), F(4, b)}

Composites ==
  {F(5, <<F(1, 200), F(4, b)>>), F(5, <<>>),
   F(6, Entry(a, 7)), F(6, <<F(1, b)>>),
   F(7, Entry(1, a)), F(7, ValueFirst(2, eAcute)),
   F(8, Entry(a, <<F(1, 5)>>)),
   F(8, ValueFirst(b, <<F(5, <<F(1, 6)>>), F(8, Entry(a, <<F(1, 7)>>)), F(6, Entry(b, 9))>>)),
   F(10, <<F(4, a), F(6, Entry(a, 1)), F(4, b), F(3, <<2>>)>>)}

Fields == Leaves \cup Composites

Messages == {<<>>} \cup {<<f>> : f \in Fields} \cup {<<f, g>> : f \in Fields, g \in Fields}

\* Longer ones, for the indexes of repeated fields and the state that visitors
\* carry from one occurrence to the next.
LongMessages ==
  {<<F(4, a), F(2, b), F(4, b), F(4, a)>>,
   <<F(3, <<1, 2, 3>>), F(1, 5)>>, <<F(9, <<1, 2>>), F(11, 5), F(12, b)>>, <<F(15, <<1, 2>>)>>,
   <<F(13, 1), F(13, 2)>>,
   <<F(5, <<F(4, a), F(4, b)>>), F(1, 1), F(5, <<F(4, b), F(4, a)>>), F(5, <<F(1, 1)>>)>>,
   <<F(5, <<F(5, <<F(1, 1)>>), F(5, <<F(1, 2)>>)>>), F(5, <<F(5, <<F(1, 3)>>)>>)>>,
   <<F(10, <<F(10, <<F(10, <<F(1, 1)>>), F(1, 2)>>)>>)>>,
   <<F(14, Entry(1, 1)), F(14, ValueFirst(2, 2))>>,
   <<F(6, Entry(a, 7)), F(6, ValueFirst(b, 8)), F(6, Entry(a, 9))>>,
   <<F(7, Entry(1, a)), F(7, <<F(2, b)>>)>>}

-----------------------------------------------------------------------------
(* Queries *)

Field(number) == Part(number, "none", <<>>)
Index(number, text) == Part(number, "brackets", text)
All(number) == Part(number, "brackets", Star)
Keys(number) == Part(number, "keys", <<>>)

zero == <<48>>
one == <<49>>
two == <<50>>

Paths ==
  {<<>>, <<Field(1)>>, <<Field(2)>>, <<Field(10)>>,
   <<All(3)>>, <<Index(3, one)>>, <<All(4)>>, <<Index(4, one)>>, <<All(5)>>, <<Index(5, zero)>>,
   <<All(5), Field(1)>>, <<Index(5, one), Index(4, zero)>>, <<All(5), Index(4, one)>>,
   <<All(5), Index(5, zero), Field(1)>>,
   <<All(6)>>, <<Keys(6)>>, <<Index(6, a)>>, <<All(7)>>, <<Keys(7)>>, <<Index(7, two)>>,
   <<All(8)>>, <<Index(8, a)>>, <<All(8), Field(1)>>, <<Index(8, a), Field(1)>>,
   <<Index(8, b), Index(8, a), Field(1)>>, <<Index(8, b), All(5)>>, <<Index(8, b), Index(6, b)>>,
   <<Field(10), All(3)>>, <<Field(10), Index(4, one)>>, <<Field(10), All(6)>>}

LongPaths ==
  Paths \cup {<<Field(11)>>, <<Field(12)>>, <<All(9)>>, <<All(13)>>, <<Index(13, one)>>, <<All(15)>>, <<Index(14, two)>>, <<Keys(14)>>,
              <<Index(6, b)>>, <<Index(7, zero)>>,
              <<Field(10), Field(10), Field(10), Field(1)>>}

-----------------------------------------------------------------------------
(* Inputs *)

Visitors(path) == CompileQuery("M", path, NoLimit).visitors

\* Whatever the memory of a new MapFilter holds.
SomeGarbage == [ZeroField EXCEPT !.wire_type = 5, !.value = <<190, 239>>]

InputOf(stream, path, selection, damage) ==
  [stream |-> stream, visitors |-> Visitors(path), selection |-> selection, damage |-> damage,
   garbage |-> [key |-> SomeGarbage, value |-> SomeGarbage]]

Query(msg, path) == InputOf(Encode("M", msg), path, Selection("M", path, msg), "none")

\* While a packed field is wanted, FieldSelector reads every length-delimited
\* field of the message as if it were packed.  f cannot be read like this.
NotLikePacked(fd, f) ==
  LET contents == Encode("M", <<f>>) IN
  /\ f.number # fd.number
  /\ contents[1] % 8 = 2
  /\ IF WireTypeForFieldType(fd.ty) = 0
     THEN \E i \in 3 .. Len(contents) :
            contents[i] >= 128 /\ (i = Len(contents) \/ contents[i + 1] >= 128)
     ELSE (Len(contents) - 2) % (IF fd.ty = "fixed32" THEN Width32 ELSE Width64) # 0

ReadAsPacked(path, msg) ==
  /\ path # <<>>
  /\ FieldOf("M", Head(path).number).packed
  /\ \E i \in DOMAIN msg : NotLikePacked(FieldOf("M", Head(path).number), msg[i])

\* An index that is used after the end of a packed chunk: it is one too high.
IndexedPackedChunks(path, msg) ==
  /\ path # <<>>
  /\ FieldOf("M", Head(path).number).packed
  /\ Head(path).text # Star
  /\ Len(ValuesOf(msg, Head(path).number)) > 1

\* An entry without a value, wanted by its key.
MapValueMissing(path, msg) ==
  /\ path # <<>>
  /\ LET fd == FieldOf("M", Head(path).number) IN
     /\ fd.map /\ Head(path).filter = "brackets" /\ Head(path).text # Star
     /\ \E i \in DOMAIN msg :
          /\ msg[i].number = fd.number
          /\ ValuesOf(msg[i].value, 2) = <<>>
          /\ KeyIs(fd, msg[i].value, Head(path).text)

\* What the runs that expect a violation show.
Misread(path, msg) ==
  ReadAsPacked(path, msg) \/ IndexedPackedChunks(path, msg) \/ MapValueMissing(path, msg)

QueriesOver(messages, paths) ==
  {Query(q[1], q[2]) : q \in {r \in messages \X paths : ~Misread(r[2], r[1])}}

\* Columns in which field 10, wanted or not, is not the message it should be.
UnreadableQuery(before, after, path) ==
  LET wanted == Head(path).number = 10 IN
  InputOf(Encode("OldM", before \o <<F(10, <<255>>)>> \o after), path,
          Selection("M", path, IF wanted THEN before ELSE before \o after),
          IF wanted THEN "unreadable" ELSE "none")

UnreadableQueries ==
  {UnreadableQuery(before, after, path) :
     before \in {<<>>, <<F(4, a)>>}, after \in {<<>>, <<F(4, b), F(1, 5)>>},
     path \in {<<Field(1)>>, <<All(4)>>, <<Field(10)>>, <<Field(10), All(6)>>}}

\* More nested messages than RecursionLimit allows.
DeepQuery ==
  LET message == <<F(10, <<F(10, <<F(10, <<F(10, <<F(1, 1)>>)>>)>>)>>)>>
      path == <<Field(10), Field(10), Field(10), Field(10), Field(1)>>
  IN InputOf(Encode("M", message), path, <<>>, "unreadable")

MCUnconvertible == {<<255>>}

-----------------------------------------------------------------------------
(* Damaged columns *)

DamagedMessages ==
  {<<F(1, 200), F(4, a), F(4, b)>>, <<F(3, <<1, 2>>), F(3, <<3>>)>>,
   <<F(5, <<F(4, a), F(1, 200)>>), F(2, a), F(5, <<F(1, 1)>>)>>,
   <<F(6, Entry(a, 7)), F(6, ValueFirst(b, 8))>>,
   <<F(7, Entry(1, a)), F(7, ValueFirst(2, a))>>,
   <<F(8, ValueFirst(b, <<F(5, <<F(1, 6)>>)>>)), F(8, Entry(a, <<F(1, 5)>>))>>}

\* A MapFilter makes up a number for a value that is cut off (see MapValueMissing).
MayLoseMapValue(path) ==
  \E v \in DOMAIN Visitors(path) :
    Visitors(path)[v].kind = "MapFilter" /\ Visitors(path)[v].ty = "varint"

\* Every proper prefix of a column, with the rows that the whole column has.
TruncatedQueries(msg, path) ==
  LET stream == Encode("M", msg) IN
  {InputOf(SubSeq(stream, 1, n), path, Selection("M", path, msg), "cut") :
     n \in 0 .. Len(stream) - 1}

TruncatedInputs ==
  UNION {TruncatedQueries(q[1], q[2]) : q \in
           {r \in DamagedMessages \X Paths :
              r[2] # <<>> /\ ~Misread(r[2], r[1]) /\ ~MayLoseMapValue(r[2])}}

\* One byte of the column is replaced: tags get other numbers and wire types,
\* sizes and values become too long, too short or zero.
CorruptedQueries(msg, path) ==
  LET stream == Encode("M", msg) IN
  {InputOf([stream EXCEPT ![n] = byte], path, <<>>, "any") :
     n \in DOMAIN stream, byte \in {0, 2, 8, 58, 255}}

CorruptedInputs ==
  UNION {CorruptedQueries(q[1], q[2]) : q \in
           DamagedMessages \X
             {path \in Paths : path # <<>> /\ Head(path).number \in {3, 5, 6, 7, 8}}}

-----------------------------------------------------------------------------
(* Everything *)

MCInputs ==
  QueriesOver(Messages, Paths) \cup QueriesOver(LongMessages, LongPaths)
    \cup UnreadableQueries \cup {DeepQuery}
    \cup TruncatedInputs \cup CorruptedInputs

-----------------------------------------------------------------------------
(* Columns whose rows are not what README.md says *)

\* A packed field next to a string that does not read like a packed field.
PackedAmongStrings == {Query(<<F(2, eAcute), F(3, <<1>>)>>, <<All(3)>>)}

\* A packed field written in two chunks: the third element is asked for.
PackedInTwoChunks == {Query(<<F(3, <<1, 2>>), F(3, <<5, 6>>)>>, <<Index(3, two)>>)}

\* The entry for the wanted key has no value.
MapEntryWithoutValue == {Query(<<F(6, <<F(1, a)>>)>>, <<Index(6, a)>>)}

-----------------------------------------------------------------------------
(* Properties *)

QuerySpec == INSTANCE QuerySpec WITH selection <- input.selection, damage <- input.damage

\* README "Reference": the query returns all the matching fields, those of the
\* reference definition, in the order of the column, and rejects no column
\* that it can read.  A column that is cut off gives rows the whole column has,
\* whether the run rejects it or, having found no field cut in two that it has
\* to read, takes it for complete.
SelectsMatchingFields == QuerySpec!Spec

=============================================================================
