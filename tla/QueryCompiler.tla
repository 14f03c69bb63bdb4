---------------------------- MODULE QueryCompiler ----------------------------
(***************************************************************************)
(* QueryImpl::CompileQuery and CompileQueryPart of querying.cpp: the path  *)
(* of a query is compiled, part by part, into a chain of visitors, while   *)
(* desc_ptrs follows the type of the value selected so far.                *)
(*                                                                         *)
(* A path is the sequence of its parts (what '.' separates).  A part is a  *)
(* field and the text behind it: nothing, "|keys", "[text]", or anything   *)
(* else.  Fields are identified by number; a name finds the same field.    *)
(***************************************************************************)
EXTENDS CodedStream, SequencesExt

CONSTANTS
  Schema,   \* message type -> set of its field descriptors
  NoType    \* the null descriptor

FieldDescriptor(number, ty, type_name, repeated, packed, map) ==
  [number |-> number, ty |-> ty, type_name |-> type_name,
   repeated |-> repeated, packed |-> packed, map |-> map]

Part(number, filter, text) == [number |-> number, filter |-> filter, text |-> text]

\* Nothing stands between two dots, or behind the last.
EmptyPart == Part(0, "empty", <<>>)

Star == <<42>>                   \* the text *

-----------------------------------------------------------------------------
(* ParseNum, std::stol and std::strtol: blanks, a sign, digits.  What does  *)
(* not fit a long is left out, which the code rejects; MapKeys has the     *)
(* ranges of keys.                                                         *)

Blanks == (9 .. 13) \cup {32}    \* isspace

\* text without the blanks in front.
Trimmed(text) ==
  LET ink == {i \in DOMAIN text : text[i] \notin Blanks}
  IN IF ink = {} THEN <<>> ELSE SubSeq(text, Min(ink), Len(text))

StartsWith(text, signs) == Trimmed(text) # <<>> /\ Head(Trimmed(text)) \in signs

IsNegative(text) == StartsWith(text, {45})

Digits(text) == IF StartsWith(text, {43, 45}) THEN Tail(Trimmed(text)) ELSE Trimmed(text)

IsNumeral(text) == Digits(text) # <<>> /\ \A i \in DOMAIN Digits(text) : Digits(text)[i] \in 48 .. 57

NumeralValue(text) ==
  LET n == FoldLeft(LAMBDA m, digit : 10 * m + digit - 48, 0, Digits(text))
  IN IF IsNegative(text) THEN -n ELSE n

TrueText == <<116, 114, 117, 101>>
FalseText == <<102, 97, 108, 115, 101>>

\* What ParseNumericMapKey takes, and any text is a string.
IsKey(ty, text) ==
  CASE ty = "string" -> TRUE
    [] ty = "bool" -> text \in {TrueText, FalseText}
    [] OTHER -> IsNumeral(text)

KeyValue(ty, text) ==
  IF ty # "bool" THEN NumeralValue(text) ELSE IF text = TrueText THEN 1 ELSE 0

\* The little-endian bytes of n.
LittleEndian(n, width) == [i \in 1 .. width |-> (n \div 256 ^ (i - 1)) % 256]

\* The wanted_key_field_ of a MapFilter, and its wanted_key_contents_.
KeyField(ty, text) ==
  LET wt == WireTypeForFieldType(ty) IN
  [number |-> 1, wire_type |-> wt,
   value |-> CASE wt = 0 -> <<KeyValue(ty, text)>>
               [] wt = 1 -> LittleEndian(NumeralValue(text), Width64)
               [] wt = 5 -> LittleEndian(NumeralValue(text), Width32)
               [] OTHER -> <<>>,
   size |-> IF ty = "string" THEN Len(text) ELSE 0]

KeyContents(ty, text) == IF ty = "string" THEN text ELSE <<>>

-----------------------------------------------------------------------------
(* The visitors *)

Descend == [kind |-> "DescendIntoSubmessage"]

FieldSelector(fd, index) ==
  [kind |-> "FieldSelector", wanted_field |-> fd.number, ty |-> fd.ty,
   is_packed |-> fd.packed, wanted_index |-> index]

AllMapEntries(want_keys, ty) == [kind |-> "AllMapEntries", want_keys |-> want_keys, ty |-> ty]

MapFilter(key_ty, text, value_ty) ==
  [kind |-> "MapFilter", wanted_key_field |-> KeyField(key_ty, text),
   wanted_key_contents |-> KeyContents(key_ty, text), ty |-> value_ty]

NoLimit == {}

\* Emitter::Create.  The constructor of Emitter drops the limit it is given.
Emitter(desc_ptrs, limit) == [kind |-> "Emitter", ty |-> desc_ptrs.ty, limit |-> NoLimit]

-----------------------------------------------------------------------------
(* CompileQueryPart *)

FindFieldByNumber(desc, number) == {fd \in Schema[desc] : fd.number = number}

\* Mutant: the descriptor of an enum is forgotten.
DescPtrsWithoutEnum(fd) ==
  [ty |-> fd.ty,
   desc |-> IF fd.ty = "message" THEN fd.type_name ELSE NoType,
   enum_desc |-> NoType]

DescPtrs(fd) ==
  [ty |-> fd.ty,
   desc |-> IF fd.ty = "message" THEN fd.type_name ELSE NoType,
   enum_desc |-> IF fd.ty = "enum" THEN fd.type_name ELSE NoType]

KeyOf(fd) == CHOOSE k \in Schema[fd.type_name] : k.number = 1
ValueOf(fd) == CHOOSE v \in Schema[fd.type_name] : v.number = 2

\* The conditions under which CompileQueryPart throws BadQuery.
FilterRejected(fd, part) ==
  \/ ~fd.repeated /\ part.filter # "none"
  \/ fd.repeated /\ part.filter \notin {"brackets", "keys"}
  \/ part.filter = "keys" /\ ~fd.map
  \/ /\ fd.repeated /\ part.filter = "brackets" /\ part.text # Star
     /\ \/ part.text = <<>>
        \/ ~fd.map /\ ~IsNumeral(part.text)
        \/ fd.map /\ ~IsKey(KeyOf(fd).ty, part.text)

PartRejected(part, desc) ==
  \/ desc = NoType
  \/ part = EmptyPart
  \/ \A fd \in FindFieldByNumber(desc, part.number) : FilterRejected(fd, part)

\* Mutant: "|keys" is taken for "[*]".
DescPtrsAfterAsValue(fd, part) ==
  IF fd.map
  THEN [DescPtrs(fd) EXCEPT
          !.ty = ValueOf(fd).ty,
          !.desc = IF ValueOf(fd).ty = "message" THEN ValueOf(fd).type_name ELSE NoType]
  ELSE DescPtrs(fd)

\* What desc_ptrs refers to once a part with field fd is compiled.  The keys of
\* a map have no descriptor of their own: desc stays that of the entry.
DescPtrsAfter(fd, part) ==
  CASE fd.map /\ part.filter = "keys" -> [DescPtrs(fd) EXCEPT !.ty = KeyOf(fd).ty]
    [] fd.map /\ part.filter # "keys" ->
         [DescPtrs(fd) EXCEPT
            !.ty = ValueOf(fd).ty,
            !.desc = IF ValueOf(fd).ty = "message" THEN ValueOf(fd).type_name ELSE NoType]
    [] OTHER -> DescPtrs(fd)

VisitorsFor(fd, part) ==
  CASE ~fd.repeated -> <<FieldSelector(fd, {})>>
    [] fd.map /\ part.filter = "keys" ->
         <<FieldSelector(fd, {}), AllMapEntries(TRUE, KeyOf(fd).ty)>>
    [] fd.map /\ part.filter = "brackets" /\ part.text = Star ->
         <<FieldSelector(fd, {}), AllMapEntries(FALSE, ValueOf(fd).ty)>>
    [] fd.map /\ part.filter = "brackets" /\ part.text # Star ->
         <<FieldSelector(fd, {}), MapFilter(KeyOf(fd).ty, part.text, ValueOf(fd).ty)>>
    [] OTHER ->
         <<FieldSelector(fd, IF part.text = Star THEN {} ELSE {NumeralValue(part.text)})>>

CompileQueryPart(compiled, part) ==
  IF compiled.thrown \/ PartRejected(part, compiled.desc_ptrs.desc)
  THEN [compiled EXCEPT !.thrown = TRUE]
  ELSE LET fd == CHOOSE f \in FindFieldByNumber(compiled.desc_ptrs.desc, part.number) : TRUE IN
       [compiled EXCEPT !.desc_ptrs = DescPtrsAfter(fd, part),
                        !.visitors = @ \o VisitorsFor(fd, part)]

-----------------------------------------------------------------------------
(* CompileQuery *)

\* desc_ptrs at the root message.
Root(desc) ==
  [desc_ptrs |-> [ty |-> "message", desc |-> desc, enum_desc |-> NoType],
   visitors |-> <<>>,
   thrown |-> FALSE]

\* Any path but the empty one, which emits the message, goes into it.
DescendIntoRoot(compiled) == [compiled EXCEPT !.visitors = <<Descend>>]

\* A part ended by '.'
CompileInnerPart(compiled, part) ==
  LET next == CompileQueryPart(compiled, part) IN
  IF next.thrown THEN next
  ELSE [next EXCEPT !.visitors = Append(@, Descend)]

\* Mutant: an empty last part ends the query as it is.
CompileLastPartIfAny(compiled, part, limit) ==
  LET next == CompileQueryPart(compiled, part) IN
  IF part = EmptyPart THEN compiled
  ELSE IF next.thrown THEN next
  ELSE [next EXCEPT !.visitors = Append(@, Emitter(next.desc_ptrs, limit))]

\* The end of the path: an empty last part is not compiled.
CompileLastPart(compiled, part, limit) ==
  LET next == IF part = EmptyPart THEN compiled ELSE CompileQueryPart(compiled, part) IN
  IF next.thrown THEN next
  ELSE [next EXCEPT !.visitors = Append(@, Emitter(next.desc_ptrs, limit))]

CompileQuery(desc, path, limit) ==
  IF path = <<>> THEN CompileLastPart(Root(desc), EmptyPart, limit)
  ELSE CompileLastPart(FoldLeft(CompileInnerPart, DescendIntoRoot(Root(desc)), Front(path)),
                       Last(path), limit)

=============================================================================
