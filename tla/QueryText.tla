------------------------------ MODULE QueryText ------------------------------
(***************************************************************************)
(* The text of a query, as QueryImpl::GetDescSet, GetDesc, CompileQuery and*)
(* CompileQueryPart take it apart: [<descriptor set>:]<message>:<path>.    *)
(* What the parts of the path are compiled to is QueryCompilation's.       *)
(* Documents says which texts README.md calls a query, and of what.        *)
(*                                                                         *)
(* A text is the sequence of its character codes.                          *)
(***************************************************************************)
EXTENDS QueryCompilation

CONSTANTS
  Queries,    \* [text, meaning]; meaning holds what the text stands for, if anything
  DescSets,   \* name of a descriptor set -> message name -> message type
  FieldName,  \* field number -> name of the field
  IntRange    \* number of values of an int

ASSUME DescSetsAssumption ==
  \A name \in DOMAIN DescSets : \A message \in DOMAIN DescSets[name] :
    DescSets[name][message] \in DOMAIN Schema

\* Character codes, whatever the encoding.
ASSUME QueriesAssumption == \A q \in Queries : q.text \in Seq(Nat)

ASSUME IntRangeAssumption == IntRange \in Nat \ {0}

VARIABLES
  query,     \* the query, chosen at the start
  desc_set,  \* name of its descriptor set, or NoType
  position,  \* query_start, then the i of the loop over the path
  part_buf   \* the part of the path that is being read

textVars == <<query, desc_set, position, part_buf>>

Text == query.text

Colon == 58
Dot == 46
Pipe == 124
OpenBracket == 91
CloseBracket == 93

\* Fields are named by identifiers, and no two alike.
ASSUME FieldNameAssumption ==
  \A n \in DOMAIN FieldName :
    /\ FieldName[n] \in Seq(Nat) \ {<<>>}
    /\ FieldName[n][1] \notin 48 .. 57
    /\ \A i \in DOMAIN FieldName[n] : FieldName[n][i] \notin {Dot, Pipe, OpenBracket}
    /\ \A k \in DOMAIN FieldName : FieldName[k] = FieldName[n] => k = n

PipeKeys == <<Pipe, 107, 101, 121, 115>>                          \* |keys
DefaultDescSet == <<100, 101, 102, 97, 117, 108, 116>>            \* default

\* Where ch is found in text from position from on.
Found(text, ch, from) == {i \in from .. Len(text) : text[i] = ch}

-----------------------------------------------------------------------------
(* GetProtobufInfoOrThrow: how the JSON functions are told a message *)

\* The type called name in a descriptor set; {} is what the exceptions stand for.
TypesNamed(set, name) ==
  IF set \in DOMAIN DescSets /\ name \in DOMAIN DescSets[set] THEN {DescSets[set][name]} ELSE {}

\* Mutant: without a ':' the name is that of the descriptor set.
InfoWithoutDefault(spec) ==
  LET colons == Found(spec, Colon, 1) \cup {Len(spec) + 1}
  IN TypesNamed(SubSeq(spec, 1, Min(colons) - 1), SubSeq(spec, Min(colons) + 1, Len(spec)))

ProtobufInfo(spec) ==
  LET colons == Found(spec, Colon, 1)
  IN IF colons = {} THEN TypesNamed(DefaultDescSet, spec)
     ELSE TypesNamed(SubSeq(spec, 1, Min(colons) - 1), SubSeq(spec, Min(colons) + 1, Len(spec)))

-----------------------------------------------------------------------------
(* CompileQueryPart: the field and the filter of a part *)

NoField == -1    \* the number no field has

FieldNamed(name) ==
  IF \E n \in DOMAIN FieldName : FieldName[n] = name
  THEN CHOOSE n \in DOMAIN FieldName : FieldName[n] = name
  ELSE NoField

\* std::strtol must stop where the selector does; its result becomes an int.
FieldNumbered(digits) ==
  IF IsNumeral(digits) THEN NumeralValue(digits) % IntRange ELSE NoField

FieldSelectorEnd(part) ==
  LET ends == Found(part, OpenBracket, 1) \cup Found(part, Pipe, 1)
  IN IF ends = {} THEN Len(part) ELSE Min(ends) - 1

\* Mutant: what a '[' opens need not be closed.
BracketOpened(filter_str) == filter_str # <<>> /\ Head(filter_str) = OpenBracket

Bracketed(filter_str) ==
  filter_str # <<>> /\ Head(filter_str) = OpenBracket /\ Last(filter_str) = CloseBracket

ParsePart(part) ==
  LET end == FieldSelectorEnd(part)
      selector == SubSeq(part, 1, end)
      filter_str == SubSeq(part, end + 1, Len(part))
      number == IF part[1] \in 48 .. 57 THEN FieldNumbered(selector) ELSE FieldNamed(selector)
  IN IF part = <<>> THEN EmptyPart
     ELSE IF filter_str = <<>> THEN Part(number, "none", <<>>)
     ELSE IF filter_str = PipeKeys THEN Part(number, "keys", <<>>)
     ELSE IF Bracketed(filter_str) THEN Part(number, "brackets", Front(Tail(filter_str)))
     ELSE Part(number, "other", <<>>)

-----------------------------------------------------------------------------
TextInit ==
  /\ Init
  /\ query \in Queries
  /\ desc_set = NoType
  /\ position = 1
  /\ part_buf = <<>>

\* Mutant: a descriptor set is looked for in front of any ':'.
GetDescSetAtAnyColon ==
  /\ pc = "Name" /\ desc_set = NoType
  /\ LET colons == Found(Text, Colon, 1)
         named == colons # {}
         name == IF named THEN SubSeq(Text, 1, Min(colons) - 1) ELSE DefaultDescSet
     IN IF name \in DOMAIN DescSets
        THEN /\ desc_set' = name
             /\ position' = IF named THEN Min(colons) + 1 ELSE 1
             /\ UNCHANGED vars
        ELSE NamesNothing /\ UNCHANGED <<desc_set, position>>
  /\ UNCHANGED <<query, part_buf>>

\* A descriptor set is named in front of the first ':' if there is another.
GetDescSet ==
  /\ pc = "Name" /\ desc_set = NoType
  /\ LET colons == Found(Text, Colon, 1)
         named == Cardinality(colons) > 1
         name == IF named THEN SubSeq(Text, 1, Min(colons) - 1) ELSE DefaultDescSet
     IN IF name \in DOMAIN DescSets
        THEN /\ desc_set' = name
             /\ position' = IF named THEN Min(colons) + 1 ELSE 1
             /\ UNCHANGED vars
        ELSE NamesNothing /\ UNCHANGED <<desc_set, position>>
  /\ UNCHANGED <<query, part_buf>>

GetDesc ==
  /\ pc = "Name" /\ desc_set # NoType
  /\ LET colons == Found(Text, Colon, position)
         name == SubSeq(Text, position, Min(colons) - 1)
     IN IF colons # {} /\ name \in DOMAIN DescSets[desc_set]
        THEN /\ NamesRoot(DescSets[desc_set][name])
             /\ position' = Min(colons) + 1
        ELSE NamesNothing /\ UNCHANGED position
  /\ UNCHANGED <<query, desc_set, part_buf>>

BeginPath ==
  /\ IF position > Len(Text) THEN EmptyPath ELSE DescendIntoRootMessage
  /\ UNCHANGED textVars

\* One iteration of the loop of CompileQuery.
ReadCharacter ==
  /\ pc = "Parts" /\ ~compiled.thrown
  /\ position <= Len(Text)
  /\ IF Text[position] = Dot
     THEN PartEndsAtDot(ParsePart(part_buf)) /\ part_buf' = <<>>
     ELSE part_buf' = Append(part_buf, Text[position]) /\ UNCHANGED vars
  /\ position' = position + 1
  /\ UNCHANGED <<query, desc_set>>

ReadEnd ==
  /\ position > Len(Text)
  /\ QueryEnds(ParsePart(part_buf))
  /\ UNCHANGED textVars

TextNext ==
  \/ GetDescSet \/ GetDesc \/ BeginPath \/ ReadCharacter \/ ReadEnd
  \/ (BadQuery \/ Compiled) /\ UNCHANGED textVars

TextSpec == TextInit /\ [][TextNext]_<<vars, textVars>>

-----------------------------------------------------------------------------
(* README "Reference": the form of a query.  A part of the path stands     *)
(* between two dots, the ':' in front of the path and the end of the text  *)
(* being dots as well; none has a '.' in it.                               *)

PathParts == [number : Nat, filter : {"none", "keys", "brackets"}, text : Seq(Nat)]

FilterText(part) ==
  CASE part.filter = "none" -> <<>>
    [] part.filter = "keys" -> PipeKeys
    [] part.filter = "brackets" -> <<OpenBracket>> \o part.text \o <<CloseBracket>>

\* By name or by number.
Denotes(selector, number) ==
  \/ number \in DOMAIN FieldName /\ FieldName[number] = selector
  \/ /\ selector # <<>> /\ \A i \in DOMAIN selector : selector[i] \in 48 .. 57
     /\ number = NumeralValue(selector) /\ number \in 0 .. IntRange - 1

WritesPart(text, part) ==
  /\ part.filter # "brackets" => part.text = <<>>
  /\ Found(text, Dot, 1) = {}
  /\ \E n \in DOMAIN text :
       Denotes(SubSeq(text, 1, n), part.number) /\ SubSeq(text, n + 1, Len(text)) = FilterText(part)

\* dots is where each part of the path ends, and, of 0, where the first one begins.
Separates(dots, text, colon, path) ==
  /\ dots[0] = colon /\ dots[Len(path)] = Len(text) + 1
  /\ \A i \in 1 .. Len(path) - 1 : dots[i] \in Found(text, Dot, 1)
  /\ \A i \in 1 .. Len(path) :
       dots[i - 1] < dots[i] /\ WritesPart(SubSeq(text, dots[i - 1] + 1, dots[i] - 1), path[i])

WritesPath(text, colon, path) ==
  /\ path \in Seq(PathParts)
  /\ path = <<>> => colon = Len(text)
  /\ path # <<>> =>
       \E dots \in [0 .. Len(path) -> {colon, Len(text) + 1} \cup Found(text, Dot, 1)] :
         Separates(dots, text, colon, path)

\* What the colons up to the path say.
NamesType(text, colon, type) ==
  \/ /\ Found(text, Colon, 1) = {colon}
     /\ TypesNamed(DefaultDescSet, SubSeq(text, 1, colon - 1)) = {type}
  \/ \E c \in 1 .. colon - 1 :
       /\ {i \in Found(text, Colon, 1) : i <= colon} = {c, colon}
       /\ TypesNamed(SubSeq(text, 1, c - 1), SubSeq(text, c + 1, colon - 1)) = {type}

\* text is a query for what the path selects in messages of that type.  Any text
\* may stand between brackets; which are numbers or keys is CompileQuery's to say.
Documents(text, type, path) ==
  \E colon \in DOMAIN text : NamesType(text, colon, type) /\ WritesPath(text, colon, path)

-----------------------------------------------------------------------------
(* What the texts of the queries are taken to be, checked where they are given *)

FieldNumbers == UNION {{fd.number : fd \in Schema[type]} : type \in DOMAIN Schema}

\* A numeral that does not fit an int is narrowed to one, but not to the number of
\* a field.
NumbersFit ==
  \A q \in Queries : \A from, to \in DOMAIN q.text :
    LET digits == SubSeq(q.text, from, to)
    IN q.text[from] \in 48 .. 57 /\ FieldNumbered(digits) \in FieldNumbers =>
         NumeralValue(digits) = FieldNumbered(digits)

\* A path may be written that the message does not have.
Fits(c) == ~c.thrown /\ ~GoesOnBehindKeys(c.visitors)

\* A query means what README.md says of its text, where that fits the message.
ReadingsAreMeant ==
  \A q \in Queries : \A type, path :
    Documents(q.text, type, path) /\ Fits(CompileQuery(type, path, NoLimit)) =>
      [type |-> type, path |-> path] \in q.meaning

-----------------------------------------------------------------------------
(* Properties *)

\* README "Reference": a query of the form [<descriptor_set>:]<message_name>:
\* <path> is compiled to what its path says of that message of that set, or is
\* rejected because the path does not fit the message.
UnderstandsQueries ==
  pc = "Done" => \A m \in query.meaning : compiled = CompileQuery(m.type, m.path, NoLimit)

\* Whatever is not of that form is rejected, wherever the characters with a
\* meaning of their own turn up in it.  The code is lenient about two things:
\* '.' at the end of a path, and a path that goes on behind "|keys".  What stands
\* between brackets is a number if std::stol says so, as in "[ +1]".
RejectsOtherTexts == query.meaning = {} => ~Accepted

\* A message is named to the JSON functions by what stands in front of the path
\* of a query: the two read it with code of their own, GetDescSet and GetDesc in
\* the one case and GetProtobufInfoOrThrow in the other.
NamedAlikeForJson ==
  pc = "Start" => ProtobufInfo(SubSeq(Text, 1, position - 2)) = {root}

=============================================================================
