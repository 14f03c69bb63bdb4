------------------------------ MODULE Traversal ------------------------------
(***************************************************************************)
(* The streaming query engine of querying.cpp: QueryImpl::Run drives a     *)
(* ProtobufTraverser over one serialized protobuf, and the traverser calls *)
(* the visitors of a compiled query.  visitors_ is a chain: next_ of       *)
(* visitor v is visitor v + 1, and the last one is the Emitter.            *)
(*                                                                         *)
(* One action is one call of the traverser into a visitor together with    *)
(* the traverser's reaction to it, so each loop of the C++ code that pushes*)
(* or pops visitors is a loop of actions on pc.  The C++ recursion of      *)
(* ScanField and ScanMessage, and the nested traverser of                  *)
(* MapFilter::ForwardBufferedValue, are frames of the stack call.          *)
(*                                                                         *)
(* A row stands for the value it is converted from: the bytes of the value,*)
(* or <<n>> for the varint n.                                              *)
(***************************************************************************)
EXTENDS CodedStream, VisitorChain, SequencesExt

CONSTANTS
  Inputs,          \* the columns and compiled queries a run starts from
  RecursionLimit,  \* recursion budget of a CodedInputStream (100 in the library)
  Unconvertible    \* byte strings BinaryToJsonString rejects

VARIABLES
  input,      \* [stream, visitors, garbage]: chosen at the start, never changed
  pc,         \* the next call the traverser makes
  field,      \* FieldInfo of the field being scanned
  treatment,  \* LengthDelimitedFieldTreatment still to be applied, or "None"
  gotNew,     \* got_new_visitor of the active ScanField
  call,       \* activations: Run, ScanMessage, ReadPacked, ForwardBufferedValue
  cursor,     \* the CodedInputStream: position, limit, recursion budget
  trav,       \* the ProtobufTraverser: visitor_stack_ and depth_
  sel,        \* FieldSelector: state_, current_field_, current_index_
  scope,      \* MapFilter and AllMapEntries: scope_
  entry,      \* MapFilter: buffered_key_*, buffered_value_*
  rows,       \* rows of the Emitter
  result      \* "running", "ok", or the exception that ended the run

vars == <<input, pc, field, treatment, gotNew, call, cursor, trav, sel, scope, entry, rows, result>>
visitorState == <<sel, scope, entry>>

FieldInfo == [number : Nat, wire_type : 0 .. 7, value : Seq(Nat), size : Nat]

\* The buffers of a MapFilter are not initialized: garbage is what they hold.
ASSUME InputsAssumption ==
  \A q \in Inputs :
    /\ q.stream \in Seq(Byte)
    /\ IsChain(q.visitors)
    /\ q.garbage.key \in FieldInfo /\ q.garbage.value \in FieldInfo

ASSUME RecursionLimitAssumption == RecursionLimit \in Nat

-----------------------------------------------------------------------------
(* Values *)

ZeroField == [number |-> 0, wire_type |-> 0, value |-> <<0>>, size |-> 0]

ValueEquals(f, g) ==
  /\ f.wire_type = g.wire_type
  /\ \/ f.wire_type \in {0, 1, 5} /\ f.value = g.value
     \/ f.wire_type = 2 /\ f.size = g.size

FreshSelector == [state |-> "Scanning", current_field |-> 0, current_index |-> 0]

EmptyEntry(key, value) ==
  [key_field |-> key, key_contents |-> <<>>,
   value_field |-> value, value_contents |-> [pos |-> 0, limit |-> 0]]

ResetEntry == EmptyEntry(ZeroField, ZeroField)

Treatments == {"Skip", "Buffer", "AsString", "AsBytes", "AsSubmessage",
               "AsPackedVarint", "AsPacked32", "AsPacked64"}

CompositeFieldTreatmentForType(ty) ==
  IF ty = "message" THEN "AsSubmessage"
  ELSE IF ty = "string" THEN "AsString"
  ELSE IF ty = "bytes" THEN "AsBytes"
  ELSE "Skip"

PackedCompositeFieldTreatmentForType(ty) ==
  IF WireTypeForFieldType(ty) = 0 THEN "AsPackedVarint"
  ELSE IF WireTypeForFieldType(ty) = 1 THEN "AsPacked64"
  ELSE IF WireTypeForFieldType(ty) = 5 THEN "AsPacked32"
  ELSE "Skip"

PackedWireType(t) == IF t = "AsPackedVarint" THEN 0 ELSE IF t = "AsPacked64" THEN 1 ELSE 5

-----------------------------------------------------------------------------
(* The traverser *)

Stream == input.stream

visitor == Last(trav.visitor_stack).visitor        \* visitor_
This == input.visitors[visitor]
Kind == This.kind

PushVisitor(t, v) ==
  [t EXCEPT !.visitor_stack = Append(@, [visitor |-> v, depth_added |-> t.depth])]

NewTraverser(v) == PushVisitor([visitor_stack |-> <<>>, depth |-> 0], v)

\* What a call puts aside and needs again when it returns.
Frame(op, f) == [op |-> op, gotNew |-> gotNew, field |-> f, cursor |-> cursor, trav |-> trav]

\* Mutant: FieldSelector does not override Popped().
PoppedKeepsSelector(v) ==
  /\ scope' = IF input.visitors[v].kind = "MapFilter" THEN [scope EXCEPT ![v] = "Outermost"] ELSE scope
  /\ entry' = IF input.visitors[v].kind = "MapFilter" THEN [entry EXCEPT ![v] = ResetEntry] ELSE entry
  /\ UNCHANGED sel

\* What ProtobufVisitor::Popped() leaves of the state of visitor v.
Popped(v) ==
  /\ sel'   = IF input.visitors[v].kind = "FieldSelector"
              THEN [sel EXCEPT ![v] = FreshSelector] ELSE sel
  /\ scope' = IF input.visitors[v].kind = "MapFilter"
              THEN [scope EXCEPT ![v] = "Outermost"] ELSE scope
  /\ entry' = IF input.visitors[v].kind = "MapFilter"
              THEN [entry EXCEPT ![v] = ResetEntry] ELSE entry

\* Where control goes when ScanField returns to its caller.
AfterScanField ==
  IF Last(call).op \in {"Message", "Packed"} THEN "Decrement" ELSE "Return"

AfterTreatment == IF gotNew THEN "Decrement" ELSE AfterScanField

Throw(exception) ==
  /\ result' = exception
  /\ pc' = "Done"
  /\ UNCHANGED <<input, field, treatment, gotNew, call, cursor, trav, visitorState, rows>>

\* EmitStr: the row is stored, then LimitReached ends the run early if the
\* emitter has a limit and has reached it.
EmitStr(row, next) ==
  /\ rows' = Append(rows, row)
  /\ IF \E n \in This.limit : Len(rows) + 1 >= n
     THEN result' = "ok" /\ pc' = "Done"
     ELSE pc' = next /\ UNCHANGED result

-----------------------------------------------------------------------------
(* QueryImpl::Run: the whole column is scanned as the value of a made-up   *)
(* length-delimited field, from the first visitor of the chain.            *)

Init ==
  /\ input \in Inputs
  /\ pc = "Run"
  /\ field = ZeroField
  /\ treatment = "None"
  /\ gotNew = FALSE
  /\ call = <<>>
  /\ cursor = [pos |-> 0, limit |-> Len(input.stream), budget |-> RecursionLimit]
  /\ trav = [visitor_stack |-> <<>>, depth |-> 0]
  /\ sel = [v \in DOMAIN input.visitors |-> FreshSelector]
  /\ scope = [v \in DOMAIN input.visitors |-> "Outermost"]
  /\ entry = [v \in DOMAIN input.visitors |-> EmptyEntry(input.garbage.key, input.garbage.value)]
  /\ rows = <<>>
  /\ result = "running"

Run ==
  /\ pc = "Run"
  /\ trav' = NewTraverser(1)
  /\ field' = [number |-> 0, wire_type |-> 2, value |-> <<>>, size |-> Len(Stream)]
  /\ call' = <<Frame("Run", field)>>
  /\ pc' = "ScanField"
  /\ UNCHANGED <<input, treatment, gotNew, cursor, visitorState, rows, result>>

\* ScanField(root) has returned: the top visitor is popped and the rows are
\* handed to the caller.
RunReturns ==
  /\ pc = "Return"
  /\ Last(call).op = "Run"
  /\ Popped(visitor)
  /\ trav' = [trav EXCEPT !.visitor_stack = Front(@)]
  /\ result' = "ok"
  /\ pc' = "Done"
  /\ UNCHANGED <<input, field, treatment, gotNew, call, cursor, rows>>

-----------------------------------------------------------------------------
(* ScanMessage and ReadPacked: the loops that read fields and elements     *)

\* Bytes ReadFieldValueOrSize consumes at p; 0 when it throws.
ValueLength(wire_type, p) ==
  IF wire_type \in {0, 2} THEN VarintLength(Stream, p, cursor.limit)
  ELSE IF wire_type = 1 THEN FixedLength(Width64, p, cursor.limit)
  ELSE IF wire_type = 5 THEN FixedLength(Width32, p, cursor.limit)
  ELSE 0

ReadFieldValueOrSize(number, wire_type, p) ==
  LET n == ValueLength(wire_type, p) IN
  IF n = 0 THEN Throw("BadProto")
  ELSE /\ field' = [number |-> number, wire_type |-> wire_type,
                    value |-> IF wire_type = 0 THEN <<VarintValue(Stream, p)>>
                              ELSE IF wire_type = 2 THEN <<>> ELSE Bytes(Stream, p, n),
                    size |-> IF wire_type = 2 THEN VarintValue(Stream, p) ELSE 0]
       /\ cursor' = [cursor EXCEPT !.pos = p + n]
       /\ trav' = [trav EXCEPT !.depth = @ + 1]
       /\ pc' = "BeginField"
       /\ UNCHANGED <<input, treatment, gotNew, call, visitorState, rows, result>>

\* One iteration of ScanMessage's loop up to the call of BeginField.
ReadField ==
  /\ pc = "NextField"
  /\ Last(call).op = "Message"
  /\ cursor.pos < cursor.limit
  /\ LET n == VarintLength(Stream, cursor.pos, cursor.limit)
         tag == VarintValue(Stream, cursor.pos)
     IN IF n = 0 \/ tag = 0 THEN Throw("BadProto")
        ELSE ReadFieldValueOrSize(tag \div 8, tag % 8, cursor.pos + n)

\* One iteration of ReadPacked's loop up to the call of BeginField.
ReadPackedElement ==
  /\ pc = "NextField"
  /\ Last(call).op = "Packed"
  /\ cursor.pos < cursor.limit
  /\ ReadFieldValueOrSize(Last(call).field.number, Last(call).field.wire_type, cursor.pos)

\* The limit is reached: the loop ends, the previous limit (and, for a
\* message, the recursion budget) is restored, and ScanField goes on.
EndOfMessage ==
  /\ pc = "NextField"
  /\ cursor.pos = cursor.limit
  /\ cursor' = [cursor EXCEPT !.limit = Last(call).cursor.limit,
                              !.budget = IF Last(call).op = "Message" THEN @ + 1 ELSE @]
  /\ call' = Front(call)
  /\ gotNew' = Last(call).gotNew
  /\ pc' = IF Last(call).gotNew \/ Last(call').op \in {"Message", "Packed"}
           THEN "Decrement" ELSE "Return"
  /\ UNCHANGED <<input, field, treatment, trav, visitorState, rows, result>>

-----------------------------------------------------------------------------
(* CallBeginField and CallBeginMessage: one visitor_->Begin...() per step; *)
(* a visitor that returns next_ has it pushed and asked in turn.           *)

ReturnThis(next) == pc' = next /\ UNCHANGED trav
ReturnNext == trav' = PushVisitor(trav, visitor + 1) /\ UNCHANGED pc

\* The field is scanned next, or the treatment chosen before is applied to it.
AfterBeginField == IF treatment = "None" THEN "ScanField" ELSE treatment

ShouldEmitCurrentIndex(s) ==
  /\ s.current_field = This.wanted_field
  /\ This.wanted_index = {} \/ s.current_index \in This.wanted_index

FieldSelectorBeginField ==
  LET s == [sel[visitor] EXCEPT !.current_field = field.number]
      delimited == field.wire_type = 2
      emit == ShouldEmitCurrentIndex(s)
  IN /\ Kind = "FieldSelector"
     /\ sel' = [sel EXCEPT ![visitor] =
                 [s EXCEPT !.state =
                   IF delimited /\ This.is_packed THEN "EmittingPacked"
                   ELSE IF delimited /\ emit /\ This.ty # "message" THEN "EmittingOtherComposite"
                   ELSE @]]
     /\ IF emit /\ (delimited => ~This.is_packed /\ This.ty = "message")
        THEN ReturnNext ELSE ReturnThis(AfterBeginField)
     /\ UNCHANGED scope

MapFilterBeginField ==
  /\ Kind = "MapFilter"
  /\ scope' = [scope EXCEPT ![visitor] =
                IF @ = "Outermost" /\ field.wire_type = 2 THEN "InEntry"
                ELSE IF @ = "InEntry" /\ field.number = 1 THEN "InKey"
                ELSE IF @ = "InEntry" /\ field.number = 2 THEN "InValue"
                ELSE @]
  /\ ReturnThis(AfterBeginField)
  /\ UNCHANGED sel

AllMapEntriesBeginField ==
  LET wanted == field.number = IF This.want_keys THEN 1 ELSE 2
      inEntry == scope[visitor] = "InEntry"
  IN /\ Kind = "AllMapEntries"
     /\ scope' = [scope EXCEPT ![visitor] =
                   IF @ = "Outermost" THEN "InEntry"
                   ELSE IF inEntry /\ wanted THEN "InWantedField"
                   ELSE IF inEntry THEN "InUnwantedOtherField"
                   ELSE @]
     /\ IF inEntry /\ wanted THEN ReturnNext ELSE ReturnThis(AfterBeginField)
     /\ UNCHANGED sel

\* DescendIntoSubmessage and the emitters inherit ProtobufVisitor's: return this.
OtherBeginField ==
  /\ Kind \in {"DescendIntoSubmessage", "Emitter"}
  /\ ReturnThis(AfterBeginField)
  /\ UNCHANGED <<sel, scope>>

BeginField ==
  /\ pc = "BeginField"
  /\ \/ FieldSelectorBeginField
     \/ MapFilterBeginField
     \/ AllMapEntriesBeginField
     \/ OtherBeginField
  /\ UNCHANGED <<input, field, treatment, gotNew, call, cursor, entry, rows, result>>

BeginMessage ==
  /\ pc = "BeginMessage"
  /\ scope' = [scope EXCEPT ![visitor] =
                IF Kind = "MapFilter" /\ @ = "Outermost" THEN "InEntry" ELSE @]
  /\ IF Kind = "DescendIntoSubmessage" THEN ReturnNext ELSE ReturnThis("NextField")
  /\ UNCHANGED <<input, field, treatment, gotNew, call, cursor, sel, entry, rows, result>>

-----------------------------------------------------------------------------
(* ScanField: ReadPrimitive, or ReadLengthDelimitedField and the treatment *)
(* the visitor asks for.                                                   *)

\* MapFilter keeps the key and the value of an entry until it knows whether the
\* key is the wanted one.
BufferField ==
  entry' = [entry EXCEPT ![visitor] =
             IF scope[visitor] = "InKey" THEN [@ EXCEPT !.key_field = field]
             ELSE IF scope[visitor] = "InValue" THEN [@ EXCEPT !.value_field = field]
             ELSE @]

ReadPrimitive ==
  /\ pc = "ScanField"
  /\ field.wire_type # 2
  /\ IF Kind = "Emitter" /\ This.ty \in {"string", "bytes"} THEN Throw("BadProto")
     ELSE /\ IF Kind = "Emitter" /\ This.ty # "message"
             THEN EmitStr(field.value, AfterScanField)
             ELSE pc' = AfterScanField /\ UNCHANGED <<rows, result>>
          /\ BufferField
          /\ UNCHANGED <<input, field, treatment, gotNew, call, cursor, trav, sel, scope>>

\* The visitor scans the field itself, or has next_ pushed, which begins the
\* field before the treatment is applied.
Treat(t) == pc' = t /\ UNCHANGED <<treatment, gotNew, trav>>

HandOver(t) ==
  /\ treatment' = t
  /\ gotNew' = TRUE
  /\ trav' = [PushVisitor(trav, visitor + 1) EXCEPT !.depth = @ + 1]
  /\ pc' = "BeginField"

FieldSelectorTreats ==
  LET s == sel[visitor] IN
  /\ Kind = "FieldSelector"
  /\ IF s.state = "EmittingPacked" THEN Treat(PackedCompositeFieldTreatmentForType(This.ty))
     ELSE IF ~ShouldEmitCurrentIndex(s) THEN Treat("Skip")
     ELSE IF s.state = "EmittingOtherComposite" THEN HandOver(CompositeFieldTreatmentForType(This.ty))
     ELSE Treat(CompositeFieldTreatmentForType(This.ty))

MapFilterTreats ==
  /\ Kind = "MapFilter"
  /\ Treat(IF scope[visitor] \in {"InKey", "InValue"} THEN "Buffer"
           ELSE IF scope[visitor] = "InEntry" THEN "AsSubmessage" ELSE "Skip")

AllMapEntriesTreats ==
  /\ Kind = "AllMapEntries"
  /\ IF scope[visitor] = "InWantedField" THEN HandOver(CompositeFieldTreatmentForType(This.ty))
     ELSE Treat(IF scope[visitor] = "InEntry" THEN "AsSubmessage" ELSE "Skip")

OtherTreats ==
  \/ Kind = "DescendIntoSubmessage" /\ Treat("AsSubmessage")
  \/ /\ Kind = "Emitter"
     /\ Treat(IF This.ty = "message" THEN "Buffer" ELSE CompositeFieldTreatmentForType(This.ty))

ReadLengthDelimitedField ==
  /\ pc = "ScanField"
  /\ field.wire_type = 2
  /\ \/ FieldSelectorTreats
     \/ MapFilterTreats
     \/ AllMapEntriesTreats
     \/ OtherTreats
  /\ BufferField
  /\ UNCHANGED <<input, field, call, cursor, sel, scope, rows, result>>

\* Mutant: the field is skipped whether its bytes are there or not.
SkipPastLimit ==
  /\ pc = "Skip"
  /\ cursor' = [cursor EXCEPT !.pos = @ + field.size]
  /\ treatment' = "None"
  /\ pc' = AfterTreatment
  /\ UNCHANGED <<input, field, gotNew, call, trav, visitorState, rows, result>>

\* stream->Skip(size), its result ignored.
Skip ==
  /\ pc = "Skip"
  /\ cursor' = [cursor EXCEPT !.pos = Minimum(@ + field.size, cursor.limit)]
  /\ treatment' = "None"
  /\ pc' = AfterTreatment
  /\ UNCHANGED <<input, field, gotNew, call, trav, visitorState, rows, result>>

\* stream->ReadString, then BufferedValue, ReadString or ReadBytes of visitor_.
ReadContents ==
  /\ pc \in {"Buffer", "AsString", "AsBytes"}
  /\ LET end == cursor.pos + field.size
         contents == Bytes(Stream, cursor.pos, field.size)
         emits == IF pc = "Buffer" THEN Kind = "Emitter" /\ This.ty = "message" ELSE Kind = "Emitter"
     IN IF end > cursor.limit \/ (pc = "Buffer" /\ emits /\ contents \in Unconvertible)
        THEN Throw("BadProto")
        ELSE /\ cursor' = [cursor EXCEPT !.pos = end]
             /\ treatment' = "None"
             /\ IF emits THEN EmitStr(contents, AfterTreatment)
                ELSE pc' = AfterTreatment /\ UNCHANGED <<rows, result>>
             /\ entry' = [entry EXCEPT ![visitor] =
                  IF scope[visitor] = "InKey" THEN [@ EXCEPT !.key_contents = contents]
                  ELSE IF scope[visitor] = "InValue"
                  THEN [@ EXCEPT !.value_contents = [pos |-> cursor.pos, limit |-> end]]
                  ELSE @]
             /\ UNCHANGED <<input, field, gotNew, call, trav, sel, scope>>

\* Mutant: a size may pass the limit of the enclosing field.
NarrowedPastLimit(size) == [cursor EXCEPT !.limit = cursor.pos + size]

Narrowed(size) == [cursor EXCEPT !.limit = Minimum(cursor.pos + size, @)]

\* Mutant: a message takes nothing from the recursion budget.
ScanMessageFree ==
  /\ pc = "AsSubmessage"
  /\ call' = Append(call, Frame("Message", field))
  /\ cursor' = Narrowed(field.size)
  /\ treatment' = "None"
  /\ gotNew' = FALSE
  /\ pc' = "BeginMessage"
  /\ UNCHANGED <<input, field, trav, visitorState, rows, result>>

\* IncrementRecursionDepthAndPushLimit and the call of ScanMessage.  The first
\* BeginMessage, whose result ScanField drops, changes what the second would.
ScanMessage ==
  /\ pc = "AsSubmessage"
  /\ IF cursor.budget = 0 THEN Throw("RecursionDepthExceeded")
     ELSE /\ call' = Append(call, Frame("Message", field))
          /\ cursor' = [Narrowed(field.size) EXCEPT !.budget = @ - 1]
          /\ treatment' = "None"
          /\ gotNew' = FALSE
          /\ pc' = "BeginMessage"
          /\ UNCHANGED <<input, field, trav, visitorState, rows, result>>

ReadPacked ==
  /\ pc \in {"AsPackedVarint", "AsPacked32", "AsPacked64"}
  /\ call' = Append(call, Frame("Packed", [field EXCEPT !.wire_type = PackedWireType(pc)]))
  /\ cursor' = Narrowed(field.size)
  /\ treatment' = "None"
  /\ gotNew' = FALSE
  /\ pc' = "NextField"
  /\ UNCHANGED <<input, field, trav, visitorState, rows, result>>

-----------------------------------------------------------------------------
(* DecrementDepthAndEndFieldAndPopVisitors                                 *)

DecrementDepth ==
  /\ pc = "Decrement"
  /\ trav' = [trav EXCEPT !.depth = @ - 1]
  /\ pc' = "EndField"
  /\ UNCHANGED <<input, field, treatment, gotNew, call, cursor, visitorState, rows, result>>

\* Mutant: any field counts as an occurrence of the wanted one.
FieldSelectorEndFieldCountsAll ==
  /\ Kind = "FieldSelector"
  /\ sel' = [sel EXCEPT ![visitor].current_index = @ + 1]
  /\ pc' = "PopVisitors"
  /\ UNCHANGED <<field, gotNew, call, cursor, trav, scope>>

FieldSelectorEndField ==
  /\ Kind = "FieldSelector"
  /\ sel' = [sel EXCEPT ![visitor].current_index =
              IF sel[visitor].current_field = This.wanted_field THEN @ + 1 ELSE @]
  /\ pc' = "PopVisitors"
  /\ UNCHANGED <<field, gotNew, call, cursor, trav, scope>>

\* A key or a value of the entry has ended, or a field that is no entry.
MapFilterEndField ==
  /\ Kind = "MapFilter"
  /\ scope[visitor] # "InEntry"
  /\ scope' = [scope EXCEPT ![visitor] =
                IF @ \in {"InKey", "InValue"} THEN "InEntry" ELSE "Outermost"]
  /\ pc' = "PopVisitors"
  /\ UNCHANGED <<field, gotNew, call, cursor, trav, sel>>

KeyMatches ==
  /\ ValueEquals(entry[visitor].key_field, This.wanted_key_field)
  /\ entry[visitor].key_contents = This.wanted_key_contents

\* The entry has ended: ForwardBufferedValue lets a traverser of its own scan
\* the buffered value, from a stream of its own, if the key is the wanted one.
MapFilterEndEntry ==
  /\ Kind = "MapFilter"
  /\ scope[visitor] = "InEntry"
  /\ scope' = [scope EXCEPT ![visitor] = "Outermost"]
  /\ IF KeyMatches
     THEN LET value == entry[visitor].value_contents IN
          /\ call' = Append(call, Frame("Forward", field))
          /\ trav' = NewTraverser(visitor + 1)
          /\ cursor' = [pos |-> value.pos, limit |-> value.limit, budget |-> RecursionLimit]
          /\ field' = entry[visitor].value_field
          /\ gotNew' = FALSE
          /\ pc' = "ScanField"
     ELSE pc' = "Reset" /\ UNCHANGED <<field, gotNew, call, cursor, trav>>
  /\ UNCHANGED sel

AllMapEntriesEndField ==
  /\ Kind = "AllMapEntries"
  /\ scope' = [scope EXCEPT ![visitor] =
                IF @ \in {"InWantedField", "InUnwantedOtherField"} THEN "InEntry" ELSE "Outermost"]
  /\ pc' = "PopVisitors"
  /\ UNCHANGED <<field, gotNew, call, cursor, trav, sel>>

OtherEndField ==
  /\ Kind \in {"DescendIntoSubmessage", "Emitter"}
  /\ pc' = "PopVisitors"
  /\ UNCHANGED <<field, gotNew, call, cursor, trav, sel, scope>>

EndField ==
  /\ pc = "EndField"
  /\ \/ FieldSelectorEndField
     \/ MapFilterEndField
     \/ MapFilterEndEntry
     \/ AllMapEntriesEndField
     \/ OtherEndField
  /\ UNCHANGED <<input, treatment, entry, rows, result>>

\* The nested ScanField has returned: its traverser pops next_.
ForwardReturns ==
  /\ pc = "Return"
  /\ Last(call).op = "Forward"
  /\ Popped(visitor)
  /\ trav' = Last(call).trav
  /\ cursor' = Last(call).cursor
  /\ gotNew' = Last(call).gotNew
  /\ call' = Front(call)
  /\ pc' = "Reset"
  /\ UNCHANGED <<input, field, treatment, rows, result>>

Reset ==
  /\ pc = "Reset"
  /\ scope' = [scope EXCEPT ![visitor] = "Outermost"]
  /\ entry' = [entry EXCEPT ![visitor] = ResetEntry]
  /\ pc' = "PopVisitors"
  /\ UNCHANGED <<input, field, treatment, gotNew, call, cursor, trav, sel, rows, result>>

\* Mutant: visitors pushed at the current depth are popped as well.
PopVisitorAtDepth ==
  /\ pc = "PopVisitors"
  /\ Last(trav.visitor_stack).depth_added >= trav.depth
  /\ Popped(visitor)
  /\ trav' = [trav EXCEPT !.visitor_stack = Front(@)]
  /\ pc' = "EndField"
  /\ UNCHANGED <<input, field, treatment, gotNew, call, cursor, rows, result>>

\* Mutant: the popped visitor stays on the stack.
PopVisitorKeepsIt ==
  /\ pc = "PopVisitors"
  /\ Last(trav.visitor_stack).depth_added > trav.depth
  /\ Popped(visitor)
  /\ pc' = "EndField"
  /\ UNCHANGED <<input, field, treatment, gotNew, call, cursor, trav, rows, result>>

PopVisitor ==
  /\ pc = "PopVisitors"
  /\ Last(trav.visitor_stack).depth_added > trav.depth
  /\ Popped(visitor)
  /\ trav' = [trav EXCEPT !.visitor_stack = Front(@)]
  /\ pc' = "EndField"
  /\ UNCHANGED <<input, field, treatment, gotNew, call, cursor, rows, result>>

\* Mutant: when a handed over field has ended, so has the field itself.
AllPoppedForBoth ==
  /\ pc = "PopVisitors"
  /\ Last(trav.visitor_stack).depth_added <= trav.depth
  /\ gotNew' = FALSE
  /\ pc' = "NextField"
  /\ UNCHANGED <<input, field, treatment, call, cursor, trav, visitorState, rows, result>>

\* The loop ends; ScanField returns, or its caller reads the next field.
AllPopped ==
  /\ pc = "PopVisitors"
  /\ Last(trav.visitor_stack).depth_added <= trav.depth
  /\ gotNew' = FALSE
  /\ pc' = IF gotNew THEN AfterScanField ELSE "NextField"
  /\ UNCHANGED <<input, field, treatment, call, cursor, trav, visitorState, rows, result>>

-----------------------------------------------------------------------------
Returned == pc = "Done" /\ UNCHANGED vars

Next ==
  \/ Run \/ RunReturns
  \/ ReadField \/ ReadPackedElement \/ EndOfMessage
  \/ BeginField \/ BeginMessage
  \/ ReadPrimitive \/ ReadLengthDelimitedField
  \/ Skip \/ ReadContents \/ ScanMessage \/ ReadPacked
  \/ DecrementDepth \/ EndField \/ ForwardReturns \/ Reset
  \/ PopVisitor \/ AllPopped
  \/ Returned

\* The call runs on the backend's thread until it returns or throws.
Spec == Init /\ [][Next]_vars /\ WF_vars(Next)

-----------------------------------------------------------------------------
(* Invariants *)

Loops == {"Message", "Packed"}    \* activations that read fields or elements

Selectors == [state : {"Scanning", "EmittingPacked", "EmittingOtherComposite"},
              current_field : Nat, current_index : Nat]

Scopes == {"Outermost", "InEntry", "InKey", "InValue", "InWantedField", "InUnwantedOtherField"}

Spans == {s \in [pos : Nat, limit : Nat] : s.pos <= s.limit /\ s.limit <= Len(Stream)}

Cursors == {c \in [pos : Nat, limit : Nat, budget : Nat] :
              c.pos <= c.limit /\ c.limit <= Len(Stream)}

Entries == [key_field : FieldInfo, key_contents : Seq(Byte),
            value_field : FieldInfo, value_contents : Spans]

Traversers ==
  [visitor_stack : Seq([visitor : DOMAIN input.visitors, depth_added : Nat]), depth : Nat]

Frames == [op : Loops \cup {"Run", "Forward"}, gotNew : BOOLEAN, field : FieldInfo,
           cursor : Cursors, trav : Traversers]

\* Every variable has the type its C++ counterpart has; the reader never passes
\* the current limit nor a limit the end of the column, and the depth of a
\* traverser never falls below that of its first visitor.
TypeOK ==
  /\ pc \in {"Run", "NextField", "BeginField", "ScanField", "BeginMessage", "Decrement",
             "EndField", "PopVisitors", "Reset", "Return", "Done"} \cup Treatments
  /\ field \in FieldInfo
  /\ treatment \in Treatments \cup {"None"}
  /\ gotNew \in BOOLEAN
  /\ call \in Seq(Frames)
  /\ cursor \in Cursors
  /\ trav \in Traversers
  /\ sel \in [DOMAIN input.visitors -> Selectors]
  /\ scope \in [DOMAIN input.visitors -> Scopes]
  /\ entry \in [DOMAIN input.visitors -> Entries]
  /\ rows \in Seq(Seq(Nat))
  /\ result \in {"running", "ok", "BadProto", "RecursionDepthExceeded"}

\* The traverser and the stream that are used on behalf of call[i]: those put
\* aside by the call it made, or the current ones.
TravOf(i) == IF i < Len(call) THEN call[i + 1].trav ELSE trav
CursorOf(i) == IF i < Len(call) THEN call[i + 1].cursor ELSE cursor

\* t holds the visitors v, v + 1, ... of the chain, v never to be popped by
\* DecrementDepthAndEndFieldAndPopVisitors.
ChainFrom(t, v) ==
  /\ t.visitor_stack # <<>>
  /\ t.visitor_stack[1] = [visitor |-> v, depth_added |-> 0]
  /\ \A i \in DOMAIN t.visitor_stack : t.visitor_stack[i].visitor = v + i - 1

\* How the visitors of t, in use on behalf of caller, follow those of caller.
StackFollows(caller, t) ==
  LET forwarder == Last(caller.trav.visitor_stack).visitor IN
  /\ caller.op = "Run" => ChainFrom(t, 1)
  /\ caller.op = "Forward" => /\ input.visitors[forwarder].kind = "MapFilter"
                              /\ ChainFrom(t, forwarder + 1)
  /\ caller.op \in Loops => ChainFrom(t, caller.trav.visitor_stack[1].visitor)

Running == result = "running" /\ pc # "Run"

\* The visitors of a traverser are consecutive visitors of the chain, and those
\* of the traverser that forwards a map value are all behind its MapFilter, so
\* that no visitor is in use by two traversers: its state would belong to both.
StacksDisjoint ==
  Running =>
    /\ call # <<>>
    /\ \A i \in DOMAIN call :
         /\ call[i].op = "Run" <=> i = 1
         /\ StackFollows(call[i], TravOf(i))

\* Depth of the traverser while an activation of caller's scans a field.
ScanDepth(caller) == IF caller.op \in Loops THEN caller.trav.depth + 1 ELSE 0

Extra(got_new_visitor) == IF got_new_visitor THEN 1 ELSE 0

DepthAtStep ==
  LET opened == ScanDepth(Last(call)) + Extra(gotNew) IN
  /\ pc \in {"BeginField", "ScanField", "Decrement"} \cup Treatments => trav.depth = opened
  /\ pc \in {"EndField", "PopVisitors", "Reset"} => trav.depth = opened - 1
  /\ pc \in {"NextField", "BeginMessage"} => trav.depth = Last(call).trav.depth
  /\ pc = "Return" => trav.depth = 0

DepthAtCall(caller, called) ==
  called.trav.depth =
    (ScanDepth(caller) + Extra(called.gotNew)) - (IF called.op = "Forward" THEN 1 ELSE 0)

\* depth_ counts the fields whose BeginField has not been matched by EndField:
\* one for the field that a loop is at, one more after the visitor has handed
\* over to another, wherever in the nested calls the two halves are.
DepthCountsOpenFields ==
  Running => /\ DepthAtStep
             /\ \A i \in 1 .. Len(call) - 1 : DepthAtCall(call[i], call[i + 1])

\* c is the stream while the field or the made-up field of caller is read.
StreamFollows(caller, c) ==
  IF caller.op \in Loops
  THEN /\ c.limit = Minimum(caller.cursor.pos + caller.field.size, caller.cursor.limit)
       /\ c.pos >= caller.cursor.pos
       /\ c.budget = caller.cursor.budget - (IF caller.op = "Message" THEN 1 ELSE 0)
  ELSE c.budget = RecursionLimit

\* Each loop reads its own message or packed field, all of it and nothing
\* else, however the values within are scanned, and every stream gets back the
\* recursion budget that its messages have taken.
ReadsOwnBytes == Running => \A i \in DOMAIN call : StreamFollows(call[i], CursorOf(i))

OnStack(t, v) == \E i \in DOMAIN t.visitor_stack : t.visitor_stack[i].visitor = v

Active(v) == OnStack(trav, v) \/ \E i \in DOMAIN call : OnStack(call[i].trav, v)

\* A visitor that no traverser uses is as good as new, whichever way it was
\* left: pushed again for the next element, entry or message, it must not
\* remember an index, a scope, a key or a value of the last one.
IdleVisitorsAreClean ==
  result = "running" \/ result = "ok" =>
    \A v \in DOMAIN input.visitors :
      ~Active(v) =>
        /\ sel[v] = FreshSelector
        /\ scope[v] = "Outermost"
        /\ entry[v] \in {ResetEntry, EmptyEntry(input.garbage.key, input.garbage.value)}

\* The MapFilter that forwards a value to the call called.
Forwarder(called) == Last(called.trav.visitor_stack).visitor

\* The recursion of the C++ functions is bounded, whatever the column holds.
\* Without a map value being forwarded no more calls nest than messages are
\* allowed to, and ReadPacked in the last of them.  A forwarded value is scanned
\* with a recursion budget of its own, but each time by visitors further on.
RecursionIsBounded ==
  Running =>
    \A i, j \in DOMAIN call :
      i < j =>
        /\ (\A k \in i + 1 .. j : call[k].op # "Forward") =>
             j - i <= RecursionLimit + (IF call[j].op = "Packed" THEN 1 ELSE 0)
        /\ call[i].op = "Forward" /\ call[j].op = "Forward" =>
             Forwarder(call[i]) < Forwarder(call[j])

-----------------------------------------------------------------------------
(* Temporal properties *)

\* On the way down the field or message is offered to visitor after visitor, on
\* the way up it has been read.
Descending == {"BeginField", "ScanField", "BeginMessage"} \cup Treatments

StepsDown ==
  IF pc = "BeginField" THEN 3 ELSE IF pc = "ScanField" THEN 2 ELSE IF pc \in Treatments THEN 1 ELSE 0

StepsUp == IF pc = "EndField" THEN 4 ELSE IF pc = "Reset" THEN 2 ELSE IF pc = "PopVisitors" THEN 1 ELSE 0

\* What is still to be done, most significant first: bytes to be read, the way
\* down and the visitors ahead; or the calls to return from, the fields that have
\* yet to end before that, the visitors to be popped and the steps with the last.
Down == <<Len(Stream) - cursor.pos, 1, Len(input.visitors) - visitor, StepsDown, 0>>
Up(at, calls, fields, steps) == <<Len(Stream) - at.pos, 0, calls, fields, steps>>

FieldsUp == 2 * Extra(gotNew) + (IF pc = "Decrement" THEN 1 ELSE 0)

Ahead ==
  IF pc \in Descending THEN Down
  ELSE Up(cursor, Len(call), FieldsUp, 5 * Len(trav.visitor_stack) + StepsUp)

\* The same of a traverser that waits, after i - 1 calls, for another to scan a
\* forwarded value.
AheadOf(waiting, i) ==
  Up(waiting.cursor, i - 1, 2 * Extra(waiting.gotNew), 5 * Len(waiting.trav.visitor_stack) + 3)

FirstOf(t) == t.visitor_stack[1].visitor

Waiting(calls, v) == {i \in DOMAIN calls : calls[i].op = "Forward" /\ FirstOf(calls[i].trav) = v}

OneOf(S) == CHOOSE i \in S : TRUE

\* What the traverser whose first visitor is v has still to do, if there is one.
Remaining(v) ==
  IF FirstOf(trav) = v THEN Ahead
  ELSE IF Waiting(call, v) = {} THEN <<0, 0, 0, 0, 0>>
  ELSE LET i == OneOf(Waiting(call, v)) IN AheadOf(call[i], i)

Measure == [v \in DOMAIN input.visitors |-> Remaining(v)]

Lower(r, s) == \E k \in 1 .. 5 : r[k] < s[k] /\ \A j \in 1 .. k - 1 : r[j] = s[j]

LowerFirst(l, m) == \E v \in DOMAIN m : Lower(l[v], m[v]) /\ \A u \in 1 .. v - 1 : l[u] = m[u]

\* No loop of the run goes round without getting on: with every step the traverser
\* of some visitor has less to do, and those that wait for it have no more.  A
\* forwarded value is a second reading of bytes that have been read, by visitors
\* further on, and must be paid for by those in front of them.
StepsMoveOn == [][Running /\ Running' => LowerFirst(Measure', Measure)]_vars

\* Every column, malformed ones included, is scanned to its end or rejected.
Termination == <>(result # "running")

=============================================================================
