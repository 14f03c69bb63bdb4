----------------------------- MODULE CodedStream -----------------------------
(***************************************************************************)
(* What querying.cpp uses of google::protobuf::io::CodedInputStream and of *)
(* the protobuf wire format.  A stream is a sequence of bytes; a position  *)
(* is the number of bytes consumed and a limit the position that reads may *)
(* not pass.  Every operator says how many bytes a read consumes, 0 when   *)
(* the library's reader returns false.                                     *)
(*                                                                         *)
(* Scaled down: a varint has at most two bytes (ten in the library), the   *)
(* fixed-width values have Width32 and Width64 bytes (four and eight).     *)
(***************************************************************************)
EXTENDS Integers, Sequences

CONSTANTS Width32,   \* bytes of a wire type 5 value
          Width64    \* bytes of a wire type 1 value

ASSUME WidthAssumption == Width32 \in Nat \ {0} /\ Width64 \in Nat \ {0}

Byte == 0 .. 255

Minimum(a, b) == IF a <= b THEN a ELSE b

-----------------------------------------------------------------------------
(* Types of fields, as far as the traversal tells them apart, and the wire *)
(* type each is encoded with (WireFormat::WireTypeForFieldType).           *)

FieldTypes == {"message", "string", "bytes", "varint", "enum", "bool", "fixed32", "fixed64"}

WireTypeForFieldType(ty) ==
  IF ty \in {"varint", "enum", "bool"} THEN 0
  ELSE IF ty = "fixed64" THEN 1
  ELSE IF ty = "fixed32" THEN 5
  ELSE 2

-----------------------------------------------------------------------------
(* Reads at position p of stream s below limit l. *)

VarintLength(s, p, l) ==
  IF p < l /\ s[p + 1] < 128 THEN 1
  ELSE IF p + 1 < l /\ s[p + 2] < 128 THEN 2
  ELSE 0

VarintValue(s, p) ==
  IF s[p + 1] < 128 THEN s[p + 1] ELSE (s[p + 1] - 128) + 128 * s[p + 2]

FixedLength(width, p, l) == IF p + width <= l THEN width ELSE 0

Bytes(s, p, size) == SubSeq(s, p + 1, p + size)

=============================================================================
