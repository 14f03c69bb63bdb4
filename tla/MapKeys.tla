-------------------------------- MODULE MapKeys --------------------------------
(***************************************************************************)
(* Keys of maps that are numbers or bools, in and out: PrimitiveEmitter    *)
(* prints them for "|keys", ParseNumericMapKey reads them from "[text]",   *)
(* and a MapFilter compares what it read with the key of each entry.  In   *)
(* between a key is a FieldInfo::Value, a union of an as_uint64 and an     *)
(* as_uint32, which is its lower half.                                     *)
(*                                                                         *)
(* Traversal models how the entries are found, and QueryCompilation what   *)
(* else a query is compiled to.  Every entry has its key written out.      *)
(***************************************************************************)
EXTENDS Integers, Sequences

CONSTANTS
  KeyTypes,  \* types of keys
  Columns,   \* type -> sequences of keys, the entries of a column
  Texts,     \* what stands in the brackets: [kind, n]
  Half       \* 2^32, scaled down

ASSUME HalfAssumption == Half \in Nat /\ Half > 0 /\ Half % 2 = 0

Full == Half * Half    \* 2^64

VARIABLES
  ty,        \* the type of the keys
  column,    \* the keys of the entries
  text,      \* the selector
  pc,        \* "Compile", "Scan" or "BadQuery"
  garbage,   \* what wanted_key_field holds before it is set
  wanted,    \* its value once it is set
  printed,   \* the rows of "|keys" so far
  selected   \* the entries selected so far

vars == <<ty, column, text, pc, garbage, wanted, printed, selected>>

-----------------------------------------------------------------------------
(* Numbers *)

Unsigned(width) == 0 .. width - 1
Signed(width) == -(width \div 2) .. width \div 2 - 1

\* static_cast to the signed integer of that width.
AsSigned(n, width) == IF n % width < width \div 2 THEN n % width ELSE (n % width) - width

Unions == [lo : Unsigned(Half), hi : Unsigned(Half)]

AsUint64(u) == u.lo + Half * u.hi
SetUint64(n) == [lo |-> n % Half, hi |-> n \div Half]
SetUint32(u, n) == [u EXCEPT !.lo = n]    \* the upper half stays as it is

\* WireFormatLite.
ZigZagEncode(n) == IF n >= 0 THEN 2 * n ELSE -2 * n - 1
ZigZagDecode(n) == IF n % 2 = 0 THEN n \div 2 ELSE -((n + 1) \div 2)

SignedTypes == {"int64", "sfixed64", "int32", "sfixed32"}
UnsignedTypes == {"uint64", "fixed64", "uint32", "fixed32"}
ZigZagTypes == {"sint64", "sint32"}
Types64 == {"int64", "sfixed64", "uint64", "fixed64", "sint64"}

Width(type) == IF type \in Types64 THEN Full ELSE Half

Keys(type) ==
  IF type = "bool" THEN {0, 1}
  ELSE IF type \in UnsignedTypes THEN Unsigned(Width(type)) ELSE Signed(Width(type))

\* The types of keys but strings; a column of such keys; and numerals of any size.
ASSUME KeyTypesAssumption == KeyTypes \subseteq SignedTypes \cup UnsignedTypes \cup ZigZagTypes \cup {"bool"}
ASSUME ColumnsAssumption == \A type \in KeyTypes : Columns[type] \subseteq Seq(Keys(type))
ASSUME TextsAssumption == \A t \in Texts : t.n \in Int

WireType(type) ==
  IF type \in {"sfixed64", "fixed64"} THEN 1 ELSE IF type \in {"sfixed32", "fixed32"} THEN 5 ELSE 0

\* What protobuf writes for a key: a varint of a negative number has 64 bits.
Serialized(type, key) ==
  IF type \in ZigZagTypes THEN ZigZagEncode(key)
  ELSE key % (IF type = "sfixed32" THEN Half ELSE Full)

-----------------------------------------------------------------------------
\* ReadFieldValueOrSize, into a field whose value was u.
ReadValue(type, n, u) == IF WireType(type) = 5 THEN SetUint32(u, n) ELSE SetUint64(n)

\* The member of the union that PrimitiveEmitter and ParseNumericMapKey use.
Raw(type, u) == IF type \in Types64 \cup {"bool"} THEN AsUint64(u) ELSE u.lo

\* Mutant: a 32-bit number is not cast to a signed one.
PrintedUnsigned(type, u) ==
  IF type \in {"int64", "sfixed64"} THEN AsSigned(Raw(type, u), Full)
  ELSE IF type \in ZigZagTypes THEN ZigZagDecode(Raw(type, u))
  ELSE IF type = "bool" /\ Raw(type, u) # 0 THEN 1
  ELSE Raw(type, u)

\* PrimitiveEmitter::ReadPrimitive; 1 and 0 stand for true and false.
Printed(type, u) ==
  IF type \in SignedTypes THEN AsSigned(Raw(type, u), Width(type))
  ELSE IF type \in ZigZagTypes THEN ZigZagDecode(Raw(type, u))
  ELSE IF type = "bool" /\ Raw(type, u) # 0 THEN 1
  ELSE Raw(type, u)

\* ParseNum takes 64 bits, if unsigned with a sign as well, and casts them to the
\* type of the key.  The set is empty when BadQuery is thrown.
ParseNum(type, n) ==
  IF type \in UnsignedTypes THEN {m % Width(type) : m \in {n} \cap (-(Full - 1) .. Full - 1)}
  ELSE {AsSigned(m, Width(type)) : m \in {n} \cap Signed(Full)}

ParseKey(type, t) ==
  IF type = "bool" THEN {b \in {0, 1} : t.kind = IF b = 1 THEN "true" ELSE "false"}
  ELSE IF t.kind = "numeral" THEN ParseNum(type, t.n) ELSE {}

\* Mutant: keys of type sint32 and sint64 are not encoded.
SetWithoutZigZag(type, n, u) ==
  IF type \in Types64 THEN SetUint64(n % Full) ELSE SetUint32(u, n % Half)

\* What ParseNumericMapKey makes of the key it has parsed, in a value that was u.
SetKey(type, n, u) ==
  LET m == IF type \in ZigZagTypes THEN ZigZagEncode(n) ELSE n % Width(type)
  IN IF type \in Types64 THEN SetUint64(m) ELSE SetUint32(u, m)

\* Mutant: keys of all types are compared as_uint32.
LowerHalvesEqual(type, u, v) == u.lo = v.lo

ValueEquals(type, u, v) ==
  IF WireType(type) = 5 THEN u.lo = v.lo ELSE AsUint64(u) = AsUint64(v)

-----------------------------------------------------------------------------
Init ==
  /\ ty \in KeyTypes
  /\ column \in Columns[ty]
  /\ text \in Texts
  /\ garbage \in Unions
  /\ pc = "Compile"
  /\ wanted = garbage
  /\ printed = <<>>
  /\ selected = {}

Rejected ==
  /\ pc = "Compile" /\ ParseKey(ty, text) = {}
  /\ pc' = "BadQuery"
  /\ UNCHANGED <<ty, column, text, garbage, wanted, printed, selected>>

Compile ==
  /\ pc = "Compile"
  /\ \E n \in ParseKey(ty, text) : wanted' = SetKey(ty, n, wanted)
  /\ pc' = "Scan"
  /\ UNCHANGED <<ty, column, text, garbage, printed, selected>>

\* The next entry, as both queries see it.  before is what was in the field that
\* its key is read into.
ReadEntry(before) ==
  /\ pc = "Scan" /\ Len(printed) < Len(column)
  /\ LET i == Len(printed) + 1
         key == ReadValue(ty, Serialized(ty, column[i]), before)
     IN /\ printed' = Append(printed, Printed(ty, key))
        /\ selected' = IF ValueEquals(ty, key, wanted) THEN selected \cup {i} ELSE selected
  /\ UNCHANGED <<ty, column, text, pc, garbage, wanted>>

Done == (pc = "BadQuery" \/ Len(printed) = Len(column)) /\ UNCHANGED vars

Next == Rejected \/ Compile \/ (\E before \in Unions : ReadEntry(before)) \/ Done

Spec == Init /\ [][Next]_vars

-----------------------------------------------------------------------------
(* Properties *)

Names(t) == CASE t.kind = "numeral" -> {t.n} [] t.kind = "true" -> {1} [] t.kind = "false" -> {0} [] OTHER -> {}

TextOf(type) == IF type = "bool" THEN {"true", "false"} ELSE {"numeral"}

\* The selector is the text of a key of that type, as "|keys" prints it.
NamesKey == text.kind \in TextOf(ty) /\ Names(text) \subseteq Keys(ty)

\* "|keys" prints the keys that were written, whatever their type.
PrintsKeys == \A i \in DOMAIN printed : printed[i] = column[i]

\* No selector selects an entry with another key than the one it names.  Only
\* what a numeral has too many bits for is cut off.
SelectsNoOtherKey ==
  \A i \in selected : \E n \in Names(text) : (column[i] - n) % Width(ty) = 0

\* A key of 32 bits that is a varint is compared as 64 bits, of which only the
\* lower half has been set, to zero or not by what was there before, and never
\* to the sign of a negative int32.
ComparedAsSet ==
  Width(ty) = Half /\ WireType(ty) = 0 => garbage.hi = 0 /\ (ty = "int32" => text.n >= 0)

NamedEntries == {i \in DOMAIN printed : column[i] \in Names(text)}

\* Any other key selects, by the text that "|keys" prints, each of its entries.
KeysFindTheirEntries ==
  NamesKey /\ ComparedAsSet => pc # "BadQuery" /\ NamedEntries \subseteq selected

\* README "Reference": field[123] selects the given map key.
EveryKeyFindsItsEntries == NamesKey => NamedEntries \subseteq selected

=============================================================================
