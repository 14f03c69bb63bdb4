--------------------------- MODULE ReferenceQuery ---------------------------
(***************************************************************************)
(* What a query means, defined over messages rather than over bytes, and   *)
(* how a serializer writes those messages.  Only the model checker uses    *)
(* this module: the definitions recur through the tree of a message.       *)
(*                                                                         *)
(* A message is a sequence of fields [number, value] in the order they are *)
(* written.  The value is a number, a sequence of bytes, a message (an     *)
(* entry of a map is one too), or the sequence of numbers of one packed    *)
(* chunk.                                                                  *)
(***************************************************************************)
EXTENDS QueryCompiler

FieldOf(desc, number) == CHOOSE fd \in Schema[desc] : fd.number = number

-----------------------------------------------------------------------------
(* The wire format *)

VarintBytes(n) == IF n < 128 THEN <<n>> ELSE <<128 + (n % 128), n \div 128>>

PrimitiveBytes(ty, n) ==
  CASE WireTypeForFieldType(ty) = 0 -> VarintBytes(n)
    [] WireTypeForFieldType(ty) = 1 -> LittleEndian(n, Width64)
    [] OTHER -> LittleEndian(n, Width32)

Delimited(bytes) == VarintBytes(Len(bytes)) \o bytes

Tag(number, wire_type) == VarintBytes(8 * number + wire_type)

RECURSIVE Encode(_, _)

EncodeField(desc, f) ==
  LET fd == FieldOf(desc, f.number) IN
  CASE fd.packed -> Tag(f.number, 2) \o
                      Delimited(FlattenSeq([i \in DOMAIN f.value |-> PrimitiveBytes(fd.ty, f.value[i])]))
    [] fd.ty = "message" -> Tag(f.number, 2) \o Delimited(Encode(fd.type_name, f.value))
    [] fd.ty \in {"string", "bytes"} -> Tag(f.number, 2) \o Delimited(f.value)
    [] OTHER -> Tag(f.number, WireTypeForFieldType(fd.ty)) \o PrimitiveBytes(fd.ty, f.value)

Encode(desc, msg) == FlattenSeq([i \in DOMAIN msg |-> EncodeField(desc, msg[i])])

-----------------------------------------------------------------------------
(* Selection *)

ValuesOf(msg, number) ==
  LET fields == SelectSeq(msg, LAMBDA f : f.number = number)
  IN [i \in DOMAIN fields |-> fields[i].value]

\* The value of a field of a map entry; that of its type if it is not written.
EntryValue(fd, en) ==
  LET values == ValuesOf(en, fd.number) IN
  IF values # <<>> THEN Last(values)
  ELSE IF WireTypeForFieldType(fd.ty) = 2 THEN <<>> ELSE 0

KeyIs(fd, en, text) ==
  EntryValue(KeyOf(fd), en) = IF KeyOf(fd).ty = "string" THEN text ELSE KeyValue(KeyOf(fd).ty, text)

\* The values of msg that one part of a path selects, in the order written.
\* Like a field, the value of an entry is selected only if it is written.
PartSelects(fd, part, msg) ==
  LET values == ValuesOf(msg, fd.number)
      elements == IF fd.packed THEN FlattenSeq(values) ELSE values
      chosen == SelectSeq(values, LAMBDA en : part.text = Star \/ KeyIs(fd, en, part.text))
  IN CASE fd.map /\ part.filter = "keys" ->
            FlattenSeq([i \in DOMAIN values |-> ValuesOf(values[i], 1)])
       [] fd.map /\ part.filter # "keys" ->
            FlattenSeq([i \in DOMAIN chosen |-> ValuesOf(chosen[i], 2)])
       [] ~fd.map /\ fd.repeated /\ part.text # Star ->
            LET n == NumeralValue(part.text) + 1 IN
            IF n \in DOMAIN elements THEN <<elements[n]>> ELSE <<>>
       [] OTHER -> elements

Row(desc_ptrs, value) ==
  CASE desc_ptrs.ty = "message" -> Encode(desc_ptrs.desc, value)
    [] desc_ptrs.ty \in {"string", "bytes"} -> value
    [] WireTypeForFieldType(desc_ptrs.ty) = 0 -> <<value>>
    [] OTHER -> PrimitiveBytes(desc_ptrs.ty, value)

RECURSIVE Select(_, _, _)

\* The rows that path selects from value, which is of the type of desc_ptrs.
Select(desc_ptrs, value, path) ==
  IF path = <<>> THEN <<Row(desc_ptrs, value)>>
  ELSE LET fd == FieldOf(desc_ptrs.desc, Head(path).number)
           selected == PartSelects(fd, Head(path), value)
       IN FlattenSeq([i \in DOMAIN selected |->
                        Select(DescPtrsAfter(fd, Head(path)), selected[i], Tail(path))])

Selection(desc, path, msg) ==
  Select([ty |-> "message", desc |-> desc, enum_desc |-> NoType], msg, path)

=============================================================================
