---------------------------- MODULE TraversalTypes ----------------------------
(***************************************************************************)
(* Proofs of safety properties of Traversal, for every schema, query,      *)
(* column, recursion limit and width of fixed values.                      *)
(*                                                                         *)
(* The invariant IInv adds to the properties what they rest on: Control    *)
(* says when a field may be handed over to another visitor.                *)
(***************************************************************************)
EXTENDS Traversal, TLAPS, SequenceTheorems

\* When got_new_visitor and a pending treatment can be set, and which
\* activations each step belongs to.
ControlAtStep ==
  /\ pc \in {"NextField", "BeginMessage"} => Last(call).op \in Loops /\ ~gotNew
  /\ pc = "Return" => Last(call).op \notin Loops /\ ~gotNew
  /\ pc = "ScanField" => ~gotNew
  /\ pc = "BeginField" => (gotNew <=> treatment # "None")
  /\ pc \notin Treatments \cup {"BeginField", "Done"} => treatment = "None"
  /\ pc \in Treatments => treatment \in {"None", pc} /\ (gotNew => treatment = pc)
  /\ pc \in {"BeginField", "Decrement", "EndField", "PopVisitors", "Reset"} =>
       gotNew \/ Last(call).op \in Loops

\* A map value is forwarded at the end of a field that has been begun.
ControlAtCall(caller, called) ==
  called.op = "Forward" => called.gotNew \/ caller.op \in Loops

Control ==
  /\ result = "running" <=> pc # "Done"
  /\ pc = "Run" => /\ call = <<>> /\ trav.visitor_stack = <<>>
                   /\ cursor.budget = RecursionLimit
                   /\ ~gotNew /\ treatment = "None"
  /\ ControlAtStep
  /\ Running => \A i \in 1 .. Len(call) - 1 : ControlAtCall(call[i], call[i + 1])

IInv ==
  /\ TypeOK
  /\ input \in Inputs
  /\ Control
  /\ StacksDisjoint
  /\ DepthCountsOpenFields
  /\ ReadsOwnBytes

-----------------------------------------------------------------------------
(* Sequences *)

\* What Front and Last leave of a sequence that is not empty.
LEMMA FrontLast ==
  ASSUME NEW S, NEW s \in Seq(S), s # <<>>
  PROVE  /\ Len(s) \in Nat \ {0}
         /\ Last(s) \in S
         /\ Front(s) \in Seq(S)
         /\ Len(Front(s)) = Len(s) - 1
         /\ \A i \in 1 .. Len(s) - 1 : Front(s)[i] = s[i]
<1>1. Len(s) \in Nat \ {0}
  BY LenProperties, EmptySeq
<1>2. ASSUME NEW n \in Nat, n = Len(s) - 1
      PROVE  /\ SubSeq(s, 1, n) \in Seq(S)
             /\ Len(SubSeq(s, 1, n)) = n
             /\ \A i \in 1 .. n : SubSeq(s, 1, n)[i] = s[i]
  <2>1. \A i \in 1 .. n : s[i] \in S
    BY <1>1, <1>2, ElementOfSeq
  <2>2. /\ SubSeq(s, 1, n) \in Seq(S)
        /\ Len(SubSeq(s, 1, n)) = IF 1 <= n THEN n - 1 + 1 ELSE 0
        /\ \A i \in 1 .. n - 1 + 1 : SubSeq(s, 1, n)[i] = s[1 + i - 1]
    BY <1>2, <2>1, SubSeqProperties
  <2>3. n - 1 + 1 = n
    BY <1>2
  <2>4. \A i \in 1 .. n : 1 + i - 1 = i
    OBVIOUS
  <2> QED
    BY <1>2, <2>2, <2>3, <2>4
<1>3. Last(s) \in S
  BY <1>1, ElementOfSeq DEF Last
<1>4. PICK n \in Nat : n = Len(s) - 1
  BY <1>1
<1>5. Front(s) = SubSeq(s, 1, n) /\ 1 .. Len(s) - 1 = 1 .. n
  BY <1>4 DEF Front
<1> QED
  BY <1>1, <1>2, <1>3, <1>4, <1>5

\* The last element, and the others, of a sequence that grows.
LEMMA LastAppend ==
  ASSUME NEW S, NEW s \in Seq(S), NEW e \in S
  PROVE  /\ Append(s, e) \in Seq(S)
         /\ Append(s, e) # <<>>
         /\ Len(Append(s, e)) = Len(s) + 1
         /\ Last(Append(s, e)) = e
         /\ \A i \in 1 .. Len(s) : Append(s, e)[i] = s[i]
  BY AppendProperties DEF Last

-----------------------------------------------------------------------------
(* Types *)

\* The sets of TypeOK depend on the input only.
LEMMA TypesStable ==
  ASSUME input' = input
  PROVE  /\ Frames' = Frames
         /\ Traversers' = Traversers
         /\ Cursors' = Cursors
         /\ Entries' = Entries
  BY DEF Frames, Traversers, Cursors, Entries, Spans, Stream

Element == [visitor : DOMAIN input.visitors, depth_added : Nat]

\* What a running traversal has in hand.
LEMMA InHand ==
  ASSUME IInv, Running
  PROVE  /\ call \in Seq(Frames) /\ call # <<>>
         /\ Len(call) \in Nat \ {0}
         /\ Last(call) \in Frames
         /\ Last(call) = call[Len(call)]
         /\ trav.visitor_stack \in Seq(Element) /\ trav.visitor_stack # <<>>
         /\ Len(trav.visitor_stack) \in Nat \ {0}
         /\ trav.depth \in Nat
         /\ visitor \in DOMAIN input.visitors
         /\ Last(trav.visitor_stack) \in Element
         /\ StackFollows(Last(call), trav)
         /\ StreamFollows(Last(call), cursor)
<1>1. call \in Seq(Frames) /\ call # <<>>
  BY DEF IInv, TypeOK, StacksDisjoint
<1>2. Len(call) \in Nat \ {0} /\ Last(call) \in Frames /\ Last(call) = call[Len(call)]
  BY <1>1, FrontLast DEF Last
<1>3. trav.visitor_stack \in Seq(Element) /\ trav.depth \in Nat
  BY DEF IInv, TypeOK, Traversers, Element
<1>4. DOMAIN call = 1 .. Len(call)
  BY <1>1, LenProperties
<1>5. StackFollows(Last(call), trav) /\ StreamFollows(Last(call), cursor)
  BY <1>2, <1>4 DEF IInv, StacksDisjoint, ReadsOwnBytes, TravOf, CursorOf
<1>6. trav.visitor_stack # <<>>
  <2>1. Last(call).op \in Loops \cup {"Run", "Forward"}
    BY <1>2 DEF Frames
  <2> QED
    BY <1>5, <2>1 DEF StackFollows, ChainFrom
<1>7. Last(trav.visitor_stack) \in Element /\ Len(trav.visitor_stack) \in Nat \ {0}
  BY <1>3, <1>6, FrontLast
<1>8. visitor \in DOMAIN input.visitors
  BY <1>7 DEF visitor, Element
<1> QED
  BY <1>1, <1>2, <1>3, <1>5, <1>6, <1>7, <1>8

\* Only the emitter has no visitor behind it.
LEMMA NextVisitor ==
  ASSUME input \in Inputs, NEW v \in DOMAIN input.visitors, input.visitors[v].kind # "Emitter"
  PROVE  v + 1 \in DOMAIN input.visitors
  BY InputsAssumption DEF IsChain

LEMMA PushType ==
  ASSUME NEW t \in Traversers, NEW v \in DOMAIN input.visitors
  PROVE  /\ PushVisitor(t, v) \in Traversers
         /\ PushVisitor(t, v).depth = t.depth
         /\ PushVisitor(t, v).visitor_stack =
              Append(t.visitor_stack, [visitor |-> v, depth_added |-> t.depth])
<1>1. t.visitor_stack \in Seq(Element) /\ t.depth \in Nat
  BY DEF Traversers, Element
<1>2. [visitor |-> v, depth_added |-> t.depth] \in Element
  BY <1>1 DEF Element
<1>3. Append(t.visitor_stack, [visitor |-> v, depth_added |-> t.depth]) \in Seq(Element)
  BY <1>1, <1>2, AppendProperties
<1>4. /\ PushVisitor(t, v).depth = t.depth
      /\ PushVisitor(t, v).visitor_stack =
           Append(t.visitor_stack, [visitor |-> v, depth_added |-> t.depth])
  BY DEF PushVisitor, Traversers
<1>5. PushVisitor(t, v) \in Traversers
  BY <1>1, <1>3 DEF PushVisitor, Traversers, Element
<1> QED
  BY <1>4, <1>5

LEMMA NewTraverserType ==
  ASSUME input \in Inputs, NEW v \in DOMAIN input.visitors
  PROVE  /\ NewTraverser(v) \in Traversers
         /\ NewTraverser(v).depth = 0
         /\ ChainFrom(NewTraverser(v), v)
<1> DEFINE none == [visitor_stack |-> <<>>, depth |-> 0]
<1>1. none \in Traversers
  BY EmptySeq DEF Traversers
<1>2. NewTraverser(v) = PushVisitor(none, v)
  BY DEF NewTraverser
<1>3. NewTraverser(v).visitor_stack = Append(<<>>, [visitor |-> v, depth_added |-> 0])
  BY <1>1, <1>2, PushType
<1>4. ChainFrom(NewTraverser(v), v)
  <2>1. v \in Int
    BY InputsAssumption DEF IsChain
  <2>2. v + 1 - 1 = v
    BY <2>1
  <2>3. [visitor |-> v, depth_added |-> 0] \in Element
    BY DEF Element
  <2>4. /\ NewTraverser(v).visitor_stack # <<>>
        /\ Len(NewTraverser(v).visitor_stack) = 1
        /\ DOMAIN NewTraverser(v).visitor_stack = 1 .. 1
        /\ NewTraverser(v).visitor_stack[1] = [visitor |-> v, depth_added |-> 0]
    BY <1>3, <2>3, AppendProperties, EmptySeq, LenProperties
  <2> QED
    BY <2>2, <2>4 DEF ChainFrom
<1> QED
  BY <1>1, <1>2, <1>4, PushType

\* Popping a visitor that is not the last one.
LEMMA PopType ==
  ASSUME NEW t \in Traversers, t.visitor_stack # <<>>
  PROVE  [t EXCEPT !.visitor_stack = Front(@)] \in Traversers
<1>1. Front(t.visitor_stack) \in Seq(Element)
  BY FrontLast DEF Traversers, Element
<1> QED
  BY <1>1 DEF Traversers, Element

LEMMA InitialVisitorState ==
  ASSUME input \in Inputs
  PROVE  /\ ZeroField \in FieldInfo
         /\ FreshSelector \in Selectors
         /\ "Outermost" \in Scopes
         /\ ResetEntry \in Entries
         /\ EmptyEntry(input.garbage.key, input.garbage.value) \in Entries
<1>1. FreshSelector \in Selectors /\ "Outermost" \in Scopes
  BY DEF FreshSelector, Selectors, Scopes
<1>2. Len(Stream) \in Nat
  BY InputsAssumption, LenProperties DEF Stream, IsChain
<1>3. [pos |-> 0, limit |-> 0] \in Spans
  BY <1>2 DEF Spans
<1>4. ZeroField \in FieldInfo
  BY DEF ZeroField, FieldInfo
<1>5. ASSUME NEW key \in FieldInfo, NEW value \in FieldInfo
      PROVE  EmptyEntry(key, value) \in Entries
  BY <1>3, EmptySeq DEF EmptyEntry, Entries
<1> QED
  <2>1. input.garbage.key \in FieldInfo /\ input.garbage.value \in FieldInfo
    BY InputsAssumption DEF IsChain
  <2>2. EmptyEntry(input.garbage.key, input.garbage.value) \in Entries
    BY <1>5, <2>1
  <2>3. ResetEntry \in Entries
    BY <1>4, <1>5 DEF ResetEntry
  <2> QED
    BY <1>1, <1>4, <2>2, <2>3

LEMMA PoppedType ==
  ASSUME NEW v \in DOMAIN input.visitors, Popped(v), TypeOK, input \in Inputs
  PROVE  /\ sel' \in [DOMAIN input.visitors -> Selectors]
         /\ scope' \in [DOMAIN input.visitors -> Scopes]
         /\ entry' \in [DOMAIN input.visitors -> Entries]
<1>1. sel' \in [DOMAIN input.visitors -> Selectors]
  BY InitialVisitorState DEF Popped, TypeOK
<1>2. scope' \in [DOMAIN input.visitors -> Scopes]
  BY InitialVisitorState DEF Popped, TypeOK
<1>3. entry' \in [DOMAIN input.visitors -> Entries]
  BY InitialVisitorState DEF Popped, TypeOK
<1> QED
  BY <1>1, <1>2, <1>3

LEMMA ByteNat == \A x \in Byte : x \in Nat /\ x \in 0 .. 255
  BY DEF Byte

\* Whatever is read lies below the limit.
LEMMA VarintBounds ==
  ASSUME NEW s \in Seq(Byte), NEW p \in Nat, NEW l \in Nat, l <= Len(s), VarintLength(s, p, l) # 0
  PROVE  /\ VarintLength(s, p, l) \in Nat
         /\ p + VarintLength(s, p, l) <= l
         /\ VarintValue(s, p) \in Nat
<1>1. Len(s) \in Nat /\ \A i \in 1 .. Len(s) : s[i] \in 0 .. 255
  BY LenProperties, ElementOfSeq, ByteNat
<1>2. CASE p < l /\ s[p + 1] < 128
  <2>1. VarintLength(s, p, l) = 1
    BY <1>2 DEF VarintLength
  <2>2. p < l /\ p + 1 \in 1 .. Len(s) /\ p + 1 <= l
    BY <1>1, <1>2
  <2>3. VarintValue(s, p) = s[p + 1]
    BY <1>2 DEF VarintValue
  <2>4. s[p + 1] \in Nat
    BY <2>2, ElementOfSeq, ByteNat
  <2> QED
    BY <2>1, <2>2, <2>3, <2>4
<1>3. CASE ~(p < l /\ s[p + 1] < 128)
  <2>1. p + 1 < l /\ s[p + 2] < 128 /\ VarintLength(s, p, l) = 2
    <3>1. CASE p + 1 < l /\ s[p + 2] < 128
      BY <1>3, <3>1 DEF VarintLength
    <3>2. CASE ~(p + 1 < l /\ s[p + 2] < 128)
      BY <1>3, <3>2 DEF VarintLength
    <3> QED
      BY <3>1, <3>2
  <2>2. p + 1 \in 1 .. Len(s) /\ p + 2 \in 1 .. Len(s) /\ p + 2 <= l
    BY <1>1, <2>1
  <2>3. PICK m \in 0 .. 255, n \in 0 .. 255 : m = s[p + 1] /\ n = s[p + 2]
    BY <1>1, <2>2
  <2>4. m >= 128
    BY <1>3, <2>1, <2>3
  <2>5. VarintValue(s, p) = (m - 128) + 128 * n
    BY <2>3, <2>4 DEF VarintValue
  <2>6. (m - 128) + 128 * n \in Nat
    BY <2>4
  <2> QED
    BY <2>1, <2>2, <2>5, <2>6
<1> QED
  BY <1>2, <1>3

LEMMA BytesType ==
  ASSUME NEW s \in Seq(Byte), NEW p \in Nat, NEW n \in Nat, p + n <= Len(s)
  PROVE  Bytes(s, p, n) \in Seq(Byte) /\ Bytes(s, p, n) \in Seq(Nat)
<1>1. ASSUME NEW i \in p + 1 .. p + n
      PROVE  s[i] \in Byte
  <2>1. i \in 1 .. Len(s)
    BY LenProperties
  <2> QED
    BY <2>1, ElementOfSeq
<1>2. ASSUME NEW i \in p + 1 .. p + n
      PROVE  s[i] \in Nat
  BY <1>1, ByteNat
<1>3. PICK first \in Int, last \in Int : first = p + 1 /\ last = p + n
  OBVIOUS
<1>4. SubSeq(s, first, last) \in Seq(Byte)
  BY <1>1, <1>3, SubSeqProperties
<1>5. SubSeq(s, first, last) \in Seq(Nat)
  BY <1>2, <1>3, SubSeqProperties
<1> QED
  BY <1>3, <1>4, <1>5 DEF Bytes

LEMMA StreamType ==
  ASSUME input \in Inputs, TypeOK
  PROVE  /\ Stream \in Seq(Byte)
         /\ Len(Stream) \in Nat
         /\ cursor.pos \in Nat /\ cursor.limit \in Nat /\ cursor.budget \in Nat
         /\ cursor.pos <= cursor.limit /\ cursor.limit <= Len(Stream)
<1>1. Stream \in Seq(Byte)
  BY InputsAssumption DEF Stream, IsChain
<1> QED
  BY <1>1, LenProperties DEF TypeOK, Cursors

LEMMA ValueBounds ==
  ASSUME input \in Inputs, TypeOK, NEW wt \in 0 .. 7, NEW p \in Nat, ValueLength(wt, p) # 0
  PROVE  /\ ValueLength(wt, p) \in Nat
         /\ p + ValueLength(wt, p) <= cursor.limit
         /\ wt \in {0, 2} => VarintValue(Stream, p) \in Nat
         /\ Bytes(Stream, p, ValueLength(wt, p)) \in Seq(Nat)
<1>1. /\ Stream \in Seq(Byte) /\ cursor.limit \in Nat
      /\ cursor.limit <= Len(Stream) /\ Len(Stream) \in Nat
  BY StreamType
<1>2. CASE wt \in {0, 2}
  <2>1. ValueLength(wt, p) = VarintLength(Stream, p, cursor.limit)
    BY <1>2 DEF ValueLength
  <2>2. VarintLength(Stream, p, cursor.limit) # 0
    BY <2>1
  <2>3. /\ VarintLength(Stream, p, cursor.limit) \in Nat
        /\ p + VarintLength(Stream, p, cursor.limit) <= cursor.limit
        /\ VarintValue(Stream, p) \in Nat
    BY <1>1, <2>2, VarintBounds
  <2> QED
    BY <1>1, <2>1, <2>3, BytesType
<1>3. ASSUME NEW width \in Nat, ValueLength(wt, p) = FixedLength(width, p, cursor.limit), wt \in {1, 5}
      PROVE  /\ ValueLength(wt, p) \in Nat
             /\ p + ValueLength(wt, p) <= cursor.limit
             /\ Bytes(Stream, p, ValueLength(wt, p)) \in Seq(Nat)
  <2>1. p + width <= cursor.limit /\ ValueLength(wt, p) = width
    BY <1>3 DEF FixedLength
  <2>2. p + width <= Len(Stream)
    BY <1>1, <2>1
  <2> QED
    BY <1>1, <2>1, <2>2, BytesType
<1>4. CASE wt = 1
  BY <1>3, <1>4, WidthAssumption DEF ValueLength
<1>5. CASE wt = 5
  BY <1>3, <1>5, WidthAssumption DEF ValueLength
<1>6. wt \in {0, 1, 2, 5}
  BY DEF ValueLength
<1> QED
  BY <1>2, <1>3, <1>4, <1>5, <1>6

LEMMA EmitType ==
  ASSUME TypeOK, NEW row \in Seq(Nat), NEW next, EmitStr(row, next)
  PROVE  /\ rows' \in Seq(Seq(Nat))
         /\ \/ pc' = next /\ result' = result
            \/ pc' = "Done" /\ result' = "ok"
  BY AppendProperties DEF EmitStr, TypeOK

LEMMA CursorUpdate ==
  ASSUME NEW c \in Cursors
  PROVE  /\ \A q \in Nat : q <= c.limit => [c EXCEPT !.pos = q] \in Cursors
         /\ \A l \in Nat, m \in Nat : c.pos <= l /\ l <= Len(Stream) =>
              [c EXCEPT !.limit = l, !.budget = m] \in Cursors
<1>1. c \in [pos : Nat, limit : Nat, budget : Nat] /\ c.pos <= c.limit /\ c.limit <= Len(Stream)
  BY DEF Cursors
<1>2. ASSUME NEW q \in Nat, q <= c.limit
      PROVE  [c EXCEPT !.pos = q] \in Cursors
  <2> DEFINE d == [c EXCEPT !.pos = q]
  <2>1. d \in [pos : Nat, limit : Nat, budget : Nat] /\ d.pos = q /\ d.limit = c.limit
    BY <1>1
  <2> HIDE DEF d
  <2>2. d \in Cursors
    BY <1>1, <1>2, <2>1 DEF Cursors
  <2> QED
    BY <2>2 DEF d
<1>3. ASSUME NEW l \in Nat, NEW m \in Nat, c.pos <= l, l <= Len(Stream)
      PROVE  [c EXCEPT !.limit = l, !.budget = m] \in Cursors
  <2> DEFINE d == [c EXCEPT !.limit = l, !.budget = m]
  <2>1. d \in [pos : Nat, limit : Nat, budget : Nat] /\ d.pos = c.pos /\ d.limit = l
    BY <1>1
  <2> HIDE DEF d
  <2>2. d \in Cursors
    BY <1>1, <1>3, <2>1 DEF Cursors
  <2> QED
    BY <2>2 DEF d
<1> QED
  BY <1>2, <1>3

\* Steps that leave the types of most variables alone.
LEMMA ThrowType ==
  ASSUME TypeOK, NEW e \in {"BadProto", "RecursionDepthExceeded"}, Throw(e)
  PROVE  TypeOK'
  BY TypesStable DEF Throw, TypeOK, visitorState

LEMMA BufferFieldType ==
  ASSUME TypeOK, visitor \in DOMAIN input.visitors, BufferField
  PROVE  entry' \in [DOMAIN input.visitors -> Entries]
<1>1. field \in FieldInfo /\ entry[visitor] \in Entries
  BY DEF TypeOK
<1>2. /\ [entry[visitor] EXCEPT !.key_field = field] \in Entries
      /\ [entry[visitor] EXCEPT !.value_field = field] \in Entries
  BY <1>1 DEF Entries
<1> QED
  BY <1>1, <1>2 DEF BufferField, TypeOK

LEMMA RunType ==
  ASSUME IInv, Run
  PROVE  TypeOK'
<1>1. 1 \in DOMAIN input.visitors
  BY InputsAssumption DEF IInv, IsChain
<1>2. NewTraverser(1) \in Traversers
  BY <1>1, NewTraverserType DEF IInv
<1>3. [number |-> 0, wire_type |-> 2, value |-> <<>>, size |-> Len(Stream)] \in FieldInfo
  BY StreamType, EmptySeq DEF IInv, FieldInfo
<1>4. Frame("Run", field) \in Frames
  BY DEF IInv, TypeOK, Frame, Frames
<1>5. <<Frame("Run", field)>> \in Seq(Frames)
  BY <1>4
<1> QED
  BY <1>2, <1>3, <1>5, TypesStable DEF Run, IInv, TypeOK, visitorState

LEMMA RunReturnsType ==
  ASSUME IInv, RunReturns
  PROVE  TypeOK'
<1>1. Running
  BY DEF RunReturns, IInv, Control, Running
<1>2. trav' \in Traversers
  BY <1>1, InHand, PopType DEF RunReturns, IInv, TypeOK
<1>3. /\ sel' \in [DOMAIN input.visitors -> Selectors]
      /\ scope' \in [DOMAIN input.visitors -> Scopes]
      /\ entry' \in [DOMAIN input.visitors -> Entries]
  BY <1>1, InHand, PoppedType DEF RunReturns, IInv
<1> QED
  BY <1>2, <1>3, TypesStable DEF RunReturns, IInv, TypeOK

LEMMA ReadFieldValueOrSizeType ==
  ASSUME TypeOK, input \in Inputs, NEW number \in Nat, NEW wt \in 0 .. 7, NEW p \in Nat,
         ReadFieldValueOrSize(number, wt, p)
  PROVE  TypeOK'
<1> DEFINE n == ValueLength(wt, p)
<1>1. CASE n = 0
  BY <1>1, ThrowType DEF ReadFieldValueOrSize
<1>2. CASE n # 0
  <2>1. /\ n \in Nat /\ p + n <= cursor.limit
        /\ wt \in {0, 2} => VarintValue(Stream, p) \in Nat
        /\ Bytes(Stream, p, n) \in Seq(Nat)
    BY <1>2, ValueBounds
  <2>2. /\ field' = [number |-> number, wire_type |-> wt,
                     value |-> IF wt = 0 THEN <<VarintValue(Stream, p)>>
                               ELSE IF wt = 2 THEN <<>> ELSE Bytes(Stream, p, n),
                     size |-> IF wt = 2 THEN VarintValue(Stream, p) ELSE 0]
        /\ cursor' = [cursor EXCEPT !.pos = p + n]
        /\ trav' = [trav EXCEPT !.depth = @ + 1]
    BY <1>2 DEF ReadFieldValueOrSize
  <2>3. PICK m \in Nat : m = n
    BY <2>1
  <2>4. field' \in FieldInfo
    <3>1. PICK x \in Seq(Nat) : x = IF wt = 0 THEN <<VarintValue(Stream, p)>>
                                    ELSE IF wt = 2 THEN <<>> ELSE Bytes(Stream, p, n)
      <4>1. wt = 0 => <<VarintValue(Stream, p)>> \in Seq(Nat)
        BY <2>1
      <4>2. <<>> \in Seq(Nat)
        BY EmptySeq
      <4> QED
        BY <2>1, <4>1, <4>2, Zenon
    <3>2. PICK z \in Nat : z = IF wt = 2 THEN VarintValue(Stream, p) ELSE 0
      BY <2>1
    <3>3. [number |-> number, wire_type |-> wt, value |-> x, size |-> z] \in FieldInfo
      BY <3>1, <3>2 DEF FieldInfo
    <3>4. field' = [number |-> number, wire_type |-> wt, value |-> x, size |-> z]
      BY <2>2, <3>1, <3>2, Zenon
    <3> QED
      BY <3>3, <3>4
  <2>5. cursor' \in Cursors
    <3>1. p + m \in Nat /\ p + m <= cursor.limit
      BY <2>1, <2>3
    <3> QED
      BY <2>2, <2>3, <3>1, CursorUpdate DEF TypeOK
  <2>6. trav' \in Traversers
    <3>1. trav \in Traversers /\ trav.depth + 1 \in Nat
      BY DEF TypeOK, Traversers
    <3> QED
      BY <2>2, <3>1 DEF Traversers
  <2> QED
    BY <1>2, <2>4, <2>5, <2>6, TypesStable DEF ReadFieldValueOrSize, TypeOK, visitorState
<1> QED
  BY <1>1, <1>2

LEMMA ReadFieldType ==
  ASSUME IInv, ReadField
  PROVE  TypeOK'
<1> DEFINE n == VarintLength(Stream, cursor.pos, cursor.limit)
           tag == VarintValue(Stream, cursor.pos)
<1>1. TypeOK /\ input \in Inputs
  BY DEF IInv
<1>2. CASE n = 0 \/ tag = 0
  BY <1>1, <1>2, ThrowType DEF ReadField
<1>3. CASE ~(n = 0 \/ tag = 0)
  <2>1. n \in Nat /\ tag \in Nat /\ cursor.pos + n \in Nat
    BY <1>1, <1>3, StreamType, VarintBounds
  <2>2. tag \div 8 \in Nat /\ tag % 8 \in 0 .. 7
    BY <2>1
  <2>3. ReadFieldValueOrSize(tag \div 8, tag % 8, cursor.pos + n)
    BY <1>3 DEF ReadField
  <2> HIDE DEF n, tag
  <2> QED
    BY <1>1, <2>1, <2>2, <2>3, ReadFieldValueOrSizeType
<1> QED
  BY <1>2, <1>3

LEMMA ReadPackedElementType ==
  ASSUME IInv, ReadPackedElement
  PROVE  TypeOK'
<1>1. Running
  BY DEF ReadPackedElement, IInv, Control, Running
<1>2. Last(call).field.number \in Nat /\ Last(call).field.wire_type \in 0 .. 7
  BY <1>1, InHand DEF Frames, FieldInfo
<1>3. cursor.pos \in Nat
  BY StreamType DEF IInv
<1> QED
  BY <1>2, <1>3, ReadFieldValueOrSizeType DEF ReadPackedElement, IInv

LEMMA EndOfMessageType ==
  ASSUME IInv, EndOfMessage
  PROVE  TypeOK'
<1>1. Running /\ Last(call).op \in Loops
  BY DEF EndOfMessage, IInv, Control, ControlAtStep, Running
<1>2. /\ Front(call) \in Seq(Frames)
      /\ Last(call).gotNew \in BOOLEAN /\ Last(call).cursor \in Cursors
      /\ Last(call).field.size \in Nat
  BY <1>1, InHand, FrontLast DEF Frames, FieldInfo
<1>3. cursor.limit <= Last(call).cursor.limit
  <2>1. cursor.limit = Minimum(Last(call).cursor.pos + Last(call).field.size, Last(call).cursor.limit)
    BY <1>1, InHand DEF StreamFollows
  <2> QED
    BY <1>2, <2>1 DEF Minimum, Cursors
<1>4. cursor' \in Cursors
  <2>1. PICK l \in Nat, m \in Nat :
          /\ l = Last(call).cursor.limit
          /\ m = IF Last(call).op = "Message" THEN cursor.budget + 1 ELSE cursor.budget
          /\ cursor.limit <= l /\ l <= Len(Stream)
    BY <1>2, <1>3, StreamType DEF Cursors, IInv
  <2>2. cursor' = [cursor EXCEPT !.limit = l, !.budget = m]
    BY <2>1 DEF EndOfMessage
  <2>3. cursor.pos <= l
    BY <2>1, StreamType DEF IInv
  <2> QED
    BY <2>1, <2>2, <2>3, CursorUpdate DEF IInv, TypeOK
<1> QED
  BY <1>2, <1>4, TypesStable DEF EndOfMessage, IInv, TypeOK, visitorState

PCs == {"Run", "NextField", "BeginField", "ScanField", "BeginMessage", "Decrement",
        "EndField", "PopVisitors", "Reset", "Return", "Done"} \cup Treatments

\* Where control can go.
LEMMA NextPC ==
  ASSUME TypeOK
  PROVE  /\ AfterScanField \in {"Decrement", "Return"}
         /\ AfterTreatment \in {"Decrement", "Return"}
         /\ AfterBeginField \in {"ScanField"} \cup Treatments
         /\ \A ty : /\ CompositeFieldTreatmentForType(ty) \in Treatments
                    /\ PackedCompositeFieldTreatmentForType(ty) \in Treatments
<1>1. AfterScanField \in {"Decrement", "Return"}
  BY DEF AfterScanField
<1>2. AfterTreatment \in {"Decrement", "Return"}
  BY <1>1 DEF AfterTreatment
<1>3. AfterBeginField \in {"ScanField"} \cup Treatments
  BY DEF AfterBeginField, TypeOK
<1>4. \A ty : /\ CompositeFieldTreatmentForType(ty) \in Treatments
              /\ PackedCompositeFieldTreatmentForType(ty) \in Treatments
  BY DEF CompositeFieldTreatmentForType, PackedCompositeFieldTreatmentForType, Treatments
<1> QED
  BY <1>1, <1>2, <1>3, <1>4

\* Pushing the visitor behind the active one.
LEMMA ReturnNextType ==
  ASSUME IInv, Running, Kind # "Emitter"
  PROVE  /\ PushVisitor(trav, visitor + 1) \in Traversers
         /\ PushVisitor(trav, visitor + 1).depth = trav.depth
         /\ PushVisitor(trav, visitor + 1).visitor_stack =
              Append(trav.visitor_stack, [visitor |-> visitor + 1, depth_added |-> trav.depth])
<1>1. visitor + 1 \in DOMAIN input.visitors
  BY InHand, NextVisitor DEF IInv, Kind, This
<1> QED
  BY <1>1, PushType DEF IInv, TypeOK

LEMMA BeginFieldType ==
  ASSUME IInv, BeginField
  PROVE  TypeOK'
<1>1. Running /\ TypeOK
  BY DEF BeginField, IInv, Control, Running
<1>2. visitor \in DOMAIN input.visitors
  BY <1>1, InHand
<1>3. CASE FieldSelectorBeginField
  <2>1. /\ PushVisitor(trav, visitor + 1) \in Traversers
        /\ AfterBeginField \in {"ScanField"} \cup Treatments
    BY <1>1, <1>3, ReturnNextType, NextPC DEF FieldSelectorBeginField
  <2>2. trav' \in Traversers /\ pc' \in PCs
    BY <1>1, <1>3, <2>1 DEF FieldSelectorBeginField, ReturnThis, ReturnNext, TypeOK, PCs
  <2>3. sel[visitor] \in Selectors /\ field.number \in Nat
    BY <1>1, <1>2 DEF TypeOK, FieldInfo
  <2>4. \A st \in {"Scanning", "EmittingPacked", "EmittingOtherComposite"} :
          [[sel[visitor] EXCEPT !.current_field = field.number] EXCEPT !.state = st] \in Selectors
    BY <2>3 DEF Selectors
  <2>5. PICK st \in {"Scanning", "EmittingPacked", "EmittingOtherComposite"} :
          sel' = [sel EXCEPT ![visitor] =
                   [[sel[visitor] EXCEPT !.current_field = field.number] EXCEPT !.state = st]]
    BY <1>3, <2>3 DEF FieldSelectorBeginField, Selectors
  <2>6. sel' \in [DOMAIN input.visitors -> Selectors]
    BY <1>1, <2>4, <2>5 DEF TypeOK
  <2> QED
    BY <1>1, <1>3, <2>2, <2>6, TypesStable DEF BeginField, FieldSelectorBeginField, TypeOK, PCs
<1>4. CASE MapFilterBeginField
  <2>1. pc' \in PCs /\ trav' = trav
    BY <1>1, <1>4, NextPC DEF MapFilterBeginField, ReturnThis, PCs
  <2>2. scope' \in [DOMAIN input.visitors -> Scopes]
    BY <1>1, <1>4 DEF MapFilterBeginField, TypeOK, Scopes
  <2> QED
    BY <1>1, <1>4, <2>1, <2>2, TypesStable DEF BeginField, MapFilterBeginField, TypeOK, PCs
<1>5. CASE AllMapEntriesBeginField
  <2>1. /\ PushVisitor(trav, visitor + 1) \in Traversers
        /\ AfterBeginField \in {"ScanField"} \cup Treatments
    BY <1>1, <1>5, ReturnNextType, NextPC DEF AllMapEntriesBeginField
  <2>2. trav' \in Traversers /\ pc' \in PCs
    BY <1>1, <1>5, <2>1 DEF AllMapEntriesBeginField, ReturnThis, ReturnNext, TypeOK, PCs
  <2>3. scope' \in [DOMAIN input.visitors -> Scopes]
    BY <1>1, <1>5 DEF AllMapEntriesBeginField, TypeOK, Scopes
  <2> QED
    BY <1>1, <1>5, <2>2, <2>3, TypesStable DEF BeginField, AllMapEntriesBeginField, TypeOK, PCs
<1>6. CASE OtherBeginField
  <2>1. pc' \in PCs /\ trav' = trav
    BY <1>1, <1>6, NextPC DEF OtherBeginField, ReturnThis, PCs
  <2> QED
    BY <1>1, <1>6, <2>1, TypesStable DEF BeginField, OtherBeginField, TypeOK, PCs
<1> QED
  BY <1>3, <1>4, <1>5, <1>6 DEF BeginField

LEMMA BeginMessageType ==
  ASSUME IInv, BeginMessage
  PROVE  TypeOK'
<1>1. Running /\ TypeOK
  BY DEF BeginMessage, IInv, Control, Running
<1>2. trav' \in Traversers /\ pc' \in PCs
  BY <1>1, ReturnNextType DEF BeginMessage, ReturnThis, ReturnNext, TypeOK, PCs
<1>3. scope' \in [DOMAIN input.visitors -> Scopes]
  BY <1>1 DEF BeginMessage, TypeOK, Scopes
<1> QED
  BY <1>1, <1>2, <1>3, TypesStable DEF BeginMessage, TypeOK, PCs

LEMMA ReadPrimitiveType ==
  ASSUME IInv, ReadPrimitive
  PROVE  TypeOK'
<1>1. Running /\ TypeOK /\ field.value \in Seq(Nat)
  BY DEF ReadPrimitive, IInv, Control, Running, TypeOK, FieldInfo
<1>2. CASE Throw("BadProto")
  BY <1>1, <1>2, ThrowType
<1>3. CASE ~(Kind = "Emitter" /\ This.ty \in {"string", "bytes"})
  <2>1. entry' \in [DOMAIN input.visitors -> Entries]
    BY <1>1, <1>3, InHand, BufferFieldType DEF ReadPrimitive
  <2>2. /\ rows' \in Seq(Seq(Nat))
        /\ pc' \in PCs
        /\ result' \in {"running", "ok", "BadProto", "RecursionDepthExceeded"}
    <3>1. CASE EmitStr(field.value, AfterScanField)
      <4>1. /\ rows' \in Seq(Seq(Nat))
            /\ \/ pc' = AfterScanField /\ result' = result
               \/ pc' = "Done" /\ result' = "ok"
        BY <1>1, <3>1, EmitType
      <4> QED
        BY <1>1, <4>1, NextPC DEF TypeOK, PCs
    <3>2. CASE pc' = AfterScanField /\ UNCHANGED <<rows, result>>
      BY <1>1, <3>2, NextPC DEF TypeOK, PCs
    <3> QED
      BY <1>3, <3>1, <3>2 DEF ReadPrimitive
  <2> QED
    BY <1>1, <1>3, <2>1, <2>2, TypesStable DEF ReadPrimitive, TypeOK, PCs
<1> QED
  BY <1>2, <1>3 DEF ReadPrimitive

LEMMA FrameType ==
  ASSUME TypeOK, NEW op \in Loops \cup {"Run", "Forward"}, NEW f \in FieldInfo
  PROVE  Frame(op, f) \in Frames
  BY DEF TypeOK, Frame, Frames

LEMMA ReadLengthDelimitedFieldType ==
  ASSUME IInv, ReadLengthDelimitedField
  PROVE  TypeOK'
<1>1. Running /\ TypeOK /\ visitor \in DOMAIN input.visitors
  BY InHand DEF ReadLengthDelimitedField, IInv, Control, Running
<1>2. entry' \in [DOMAIN input.visitors -> Entries]
  BY <1>1, BufferFieldType DEF ReadLengthDelimitedField
<1>3. ASSUME NEW t \in Treatments, Treat(t)
      PROVE  pc' \in PCs /\ treatment' \in Treatments \cup {"None"} /\ gotNew' \in BOOLEAN /\ trav' \in Traversers
  BY <1>1, <1>3 DEF Treat, TypeOK, PCs
<1>4. ASSUME NEW t \in Treatments, HandOver(t), Kind # "Emitter"
      PROVE  pc' \in PCs /\ treatment' \in Treatments \cup {"None"} /\ gotNew' \in BOOLEAN /\ trav' \in Traversers
  <2>1. PICK p \in Traversers : p = PushVisitor(trav, visitor + 1)
    BY <1>1, <1>4, ReturnNextType
  <2>2. [p EXCEPT !.depth = @ + 1] \in Traversers
    BY DEF Traversers
  <2> QED
    BY <1>4, <2>1, <2>2 DEF HandOver, PCs
<1>5. \A ty : /\ CompositeFieldTreatmentForType(ty) \in Treatments
              /\ PackedCompositeFieldTreatmentForType(ty) \in Treatments
  BY <1>1, NextPC
<1>6. {"Skip", "Buffer", "AsSubmessage"} \subseteq Treatments
  BY DEF Treatments
<1>7. pc' \in PCs /\ treatment' \in Treatments \cup {"None"} /\ gotNew' \in BOOLEAN /\ trav' \in Traversers
  <2>1. CASE FieldSelectorTreats
    BY <1>3, <1>4, <1>5, <1>6, <2>1 DEF FieldSelectorTreats
  <2>2. CASE MapFilterTreats
    BY <1>3, <1>6, <2>2 DEF MapFilterTreats
  <2>3. CASE AllMapEntriesTreats
    BY <1>3, <1>4, <1>5, <1>6, <2>3 DEF AllMapEntriesTreats
  <2>4. CASE OtherTreats
    BY <1>3, <1>5, <1>6, <2>4 DEF OtherTreats
  <2> QED
    BY <2>1, <2>2, <2>3, <2>4 DEF ReadLengthDelimitedField
<1> QED
  BY <1>1, <1>2, <1>7, TypesStable DEF ReadLengthDelimitedField, TypeOK, PCs

LEMMA SkipType ==
  ASSUME IInv, Skip
  PROVE  TypeOK'
<1>1. TypeOK /\ input \in Inputs /\ field.size \in Nat
  BY DEF IInv, TypeOK, FieldInfo
<1>2. PICK q \in Nat : q = Minimum(cursor.pos + field.size, cursor.limit) /\ q <= cursor.limit
  BY <1>1, StreamType DEF Minimum
<1>3. cursor' \in Cursors
  BY <1>1, <1>2, CursorUpdate DEF Skip, TypeOK
<1> QED
  BY <1>1, <1>3, NextPC, TypesStable DEF Skip, TypeOK, visitorState

LEMMA ReadContentsType ==
  ASSUME IInv, ReadContents
  PROVE  TypeOK'
<1> DEFINE contents == Bytes(Stream, cursor.pos, field.size)
<1>1. Running /\ TypeOK /\ input \in Inputs /\ field.size \in Nat /\ visitor \in DOMAIN input.visitors
  BY InHand DEF ReadContents, IInv, Control, Running, TypeOK, FieldInfo
<1>2. CASE Throw("BadProto")
  BY <1>1, <1>2, ThrowType
<1>3. CASE ~Throw("BadProto")
  <2>1. PICK end \in Nat : end = cursor.pos + field.size
    BY <1>1, StreamType
  <2>2. end <= cursor.limit
    <3>1. ~(cursor.pos + field.size > cursor.limit)
      BY <1>3, Zenon DEF ReadContents
    <3> QED
      BY <1>1, <2>1, <3>1, StreamType
  <2>3. end <= Len(Stream) /\ cursor.pos <= end
    BY <1>1, <2>1, <2>2, StreamType
  <2>4. contents \in Seq(Byte) /\ contents \in Seq(Nat)
    BY <1>1, <2>1, <2>3, StreamType, BytesType
  <2>5. [pos |-> cursor.pos, limit |-> end] \in Spans
    BY <1>1, <2>3, StreamType DEF Spans
  <2> HIDE DEF contents
  <2>6. /\ cursor' = [cursor EXCEPT !.pos = end]
        /\ treatment' = "None"
        /\ \/ EmitStr(contents, AfterTreatment)
           \/ pc' = AfterTreatment /\ UNCHANGED <<rows, result>>
        /\ entry' = [entry EXCEPT ![visitor] =
             IF scope[visitor] = "InKey" THEN [@ EXCEPT !.key_contents = contents]
             ELSE IF scope[visitor] = "InValue"
             THEN [@ EXCEPT !.value_contents = [pos |-> cursor.pos, limit |-> end]]
             ELSE @]
        /\ UNCHANGED <<input, field, gotNew, call, trav, sel, scope>>
    BY <1>3, <2>1 DEF ReadContents, contents
  <2>7. cursor' \in Cursors
    BY <1>1, <2>2, <2>6, CursorUpdate DEF TypeOK
  <2>8. entry' \in [DOMAIN input.visitors -> Entries]
    <3>1. entry[visitor] \in Entries
      BY <1>1 DEF TypeOK
    <3>2. /\ [entry[visitor] EXCEPT !.key_contents = contents] \in Entries
          /\ [entry[visitor] EXCEPT !.value_contents = [pos |-> cursor.pos, limit |-> end]] \in Entries
      BY <2>4, <2>5, <3>1 DEF Entries
    <3> QED
      BY <1>1, <2>6, <3>1, <3>2 DEF TypeOK
  <2>9. /\ rows' \in Seq(Seq(Nat))
        /\ pc' \in PCs
        /\ result' \in {"running", "ok", "BadProto", "RecursionDepthExceeded"}
    <3>1. CASE EmitStr(contents, AfterTreatment)
      <4>1. /\ rows' \in Seq(Seq(Nat))
            /\ \/ pc' = AfterTreatment /\ result' = result
               \/ pc' = "Done" /\ result' = "ok"
        BY <1>1, <2>4, <3>1, EmitType
      <4> QED
        BY <1>1, <4>1, NextPC DEF TypeOK, PCs
    <3>2. CASE pc' = AfterTreatment /\ UNCHANGED <<rows, result>>
      BY <1>1, <3>2, NextPC DEF TypeOK, PCs
    <3> QED
      BY <2>6, <3>1, <3>2
  <2> QED
    BY <1>1, <2>6, <2>7, <2>8, <2>9, TypesStable DEF TypeOK, PCs
<1> QED
  BY <1>2, <1>3

\* The limit of a nested field lies between the position and the old limit.
LEMMA NarrowedType ==
  ASSUME TypeOK, input \in Inputs, NEW size \in Nat, NEW budget \in Nat
  PROVE  /\ [Narrowed(size) EXCEPT !.budget = budget] \in Cursors
         /\ Narrowed(size) \in Cursors
<1>1. PICK l \in Nat : l = Minimum(cursor.pos + size, cursor.limit)
  BY StreamType DEF Minimum
<1>2. cursor.pos <= l /\ l <= Len(Stream)
  BY <1>1, StreamType DEF Minimum
<1>3. \A m \in Nat : [cursor EXCEPT !.limit = l, !.budget = m] \in Cursors
  BY <1>2, CursorUpdate DEF TypeOK
<1>4. Narrowed(size) = [cursor EXCEPT !.limit = l]
  BY <1>1 DEF Narrowed
<1>5. cursor \in [pos : Nat, limit : Nat, budget : Nat]
  BY DEF TypeOK, Cursors
<1>6. [Narrowed(size) EXCEPT !.budget = budget] = [cursor EXCEPT !.limit = l, !.budget = budget]
  BY <1>4, <1>5
<1>7. Narrowed(size) = [cursor EXCEPT !.limit = l, !.budget = cursor.budget]
  BY <1>4, <1>5
<1> QED
  BY <1>3, <1>5, <1>6, <1>7

LEMMA ScanMessageType ==
  ASSUME IInv, ScanMessage
  PROVE  TypeOK'
<1>1. TypeOK /\ input \in Inputs /\ field \in FieldInfo /\ field.size \in Nat
  BY DEF IInv, TypeOK, FieldInfo
<1>2. CASE cursor.budget = 0
  BY <1>1, <1>2, ThrowType DEF ScanMessage
<1>3. CASE cursor.budget # 0
  <2>1. PICK m \in Nat : m = cursor.budget - 1
    BY <1>1, <1>3, StreamType
  <2>2. cursor' = [Narrowed(field.size) EXCEPT !.budget = m]
    <3>1. cursor' = [Narrowed(field.size) EXCEPT !.budget = @ - 1]
      BY <1>3 DEF ScanMessage
    <3>2. Narrowed(field.size).budget = cursor.budget
      BY <1>1 DEF Narrowed, TypeOK, Cursors
    <3> QED
      BY <2>1, <3>1, <3>2
  <2>3. cursor' \in Cursors
    BY <1>1, <2>2, NarrowedType
  <2>4. call' \in Seq(Frames)
    <3>1. Frame("Message", field) \in Frames
      BY <1>1, FrameType DEF Loops
    <3> QED
      BY <1>1, <1>3, <3>1, LastAppend DEF ScanMessage, TypeOK
  <2> QED
    BY <1>1, <1>3, <2>3, <2>4, TypesStable DEF ScanMessage, TypeOK, visitorState
<1> QED
  BY <1>2, <1>3

LEMMA ReadPackedType ==
  ASSUME IInv, ReadPacked
  PROVE  TypeOK'
<1>1. TypeOK /\ input \in Inputs /\ field \in FieldInfo /\ field.size \in Nat
  BY DEF IInv, TypeOK, FieldInfo
<1>2. cursor' \in Cursors
  BY <1>1, NarrowedType DEF ReadPacked
<1>3. [field EXCEPT !.wire_type = PackedWireType(pc)] \in FieldInfo
  BY <1>1 DEF FieldInfo, PackedWireType
<1>4. call' \in Seq(Frames)
  BY <1>1, <1>3, FrameType, AppendProperties DEF ReadPacked, TypeOK, Loops
<1> QED
  BY <1>1, <1>2, <1>4, TypesStable DEF ReadPacked, TypeOK, visitorState

LEMMA DecrementDepthType ==
  ASSUME IInv, DecrementDepth
  PROVE  TypeOK'
<1>1. Running /\ TypeOK
  BY DEF DecrementDepth, IInv, Control, Running
<1>2. trav.depth = ScanDepth(Last(call)) + Extra(gotNew)
  BY <1>1 DEF DecrementDepth, IInv, DepthCountsOpenFields, DepthAtStep
<1>3. gotNew \/ Last(call).op \in Loops
  BY DEF DecrementDepth, IInv, Control, ControlAtStep
<1>4. Last(call).trav.depth \in Nat
  BY <1>1, InHand DEF Frames, Traversers
<1>5. PICK d \in Nat : d = trav.depth - 1
  BY <1>2, <1>3, <1>4 DEF ScanDepth, Extra
<1>6. trav' \in Traversers
  BY <1>1, <1>5 DEF DecrementDepth, TypeOK, Traversers
<1> QED
  BY <1>1, <1>6, TypesStable DEF DecrementDepth, TypeOK, visitorState

LEMMA EndFieldType ==
  ASSUME IInv, EndField
  PROVE  TypeOK'
<1>1. Running /\ TypeOK /\ input \in Inputs /\ visitor \in DOMAIN input.visitors
  BY InHand DEF EndField, IInv, Control, Running
<1>2. CASE FieldSelectorEndField
  <2>1. sel[visitor] \in Selectors
    BY <1>1 DEF TypeOK
  <2>2. \A n \in Nat : [sel[visitor] EXCEPT !.current_index = n] \in Selectors
    BY <2>1 DEF Selectors
  <2>3. PICK n \in Nat : n = IF sel[visitor].current_field = This.wanted_field
                             THEN sel[visitor].current_index + 1 ELSE sel[visitor].current_index
    BY <2>1 DEF Selectors
  <2>4. sel' = [sel EXCEPT ![visitor] = [sel[visitor] EXCEPT !.current_index = n]]
    BY <1>1, <1>2, <2>3 DEF FieldSelectorEndField, TypeOK
  <2>5. sel' \in [DOMAIN input.visitors -> Selectors]
    BY <1>1, <2>2, <2>4 DEF TypeOK
  <2> QED
    BY <1>1, <1>2, <2>5, TypesStable DEF EndField, FieldSelectorEndField, TypeOK
<1>3. CASE MapFilterEndField
  <2>1. scope' \in [DOMAIN input.visitors -> Scopes]
    BY <1>1, <1>3 DEF MapFilterEndField, TypeOK, Scopes
  <2> QED
    BY <1>1, <1>3, <2>1, TypesStable DEF EndField, MapFilterEndField, TypeOK
<1>4. CASE MapFilterEndEntry
  <2>1. scope' \in [DOMAIN input.visitors -> Scopes]
    BY <1>1, <1>4 DEF MapFilterEndEntry, TypeOK, Scopes
  <2>2. CASE KeyMatches
    <3>1. visitor + 1 \in DOMAIN input.visitors
      BY <1>1, <1>4, NextVisitor DEF MapFilterEndEntry, Kind, This
    <3>2. trav' \in Traversers
      BY <1>1, <1>4, <2>2, <3>1, NewTraverserType DEF MapFilterEndEntry
    <3>3. entry[visitor].value_contents \in Spans /\ entry[visitor].value_field \in FieldInfo
      BY <1>1 DEF TypeOK, Entries
    <3>4. \A s \in Spans : [pos |-> s.pos, limit |-> s.limit, budget |-> RecursionLimit] \in Cursors
      BY RecursionLimitAssumption DEF Spans, Cursors
    <3>5. cursor' \in Cursors /\ field' \in FieldInfo
      BY <1>4, <2>2, <3>3, <3>4 DEF MapFilterEndEntry
    <3>6. call' \in Seq(Frames)
      <4>1. Frame("Forward", field) \in Frames
        BY <1>1, FrameType DEF TypeOK
      <4>2. call' = Append(call, Frame("Forward", field))
        BY <1>4, <2>2 DEF MapFilterEndEntry
      <4>3. call \in Seq(Frames)
        BY <1>1 DEF TypeOK
      <4> QED
        BY <4>1, <4>2, <4>3, LastAppend
    <3> QED
      BY <1>1, <1>4, <2>1, <2>2, <3>2, <3>5, <3>6, TypesStable DEF EndField, MapFilterEndEntry, TypeOK
  <2>3. CASE ~KeyMatches
    BY <1>1, <1>4, <2>1, <2>3, TypesStable DEF EndField, MapFilterEndEntry, TypeOK
  <2> QED
    BY <2>2, <2>3
<1>5. CASE AllMapEntriesEndField
  <2>1. scope' \in [DOMAIN input.visitors -> Scopes]
    BY <1>1, <1>5 DEF AllMapEntriesEndField, TypeOK, Scopes
  <2> QED
    BY <1>1, <1>5, <2>1, TypesStable DEF EndField, AllMapEntriesEndField, TypeOK
<1>6. CASE OtherEndField
  BY <1>1, <1>6, TypesStable DEF EndField, OtherEndField, TypeOK
<1> QED
  BY <1>2, <1>3, <1>4, <1>5, <1>6 DEF EndField

LEMMA ForwardReturnsType ==
  ASSUME IInv, ForwardReturns
  PROVE  TypeOK'
<1>1. Running /\ TypeOK
  BY DEF ForwardReturns, IInv, Control, Running
<1>2. /\ sel' \in [DOMAIN input.visitors -> Selectors]
      /\ scope' \in [DOMAIN input.visitors -> Scopes]
      /\ entry' \in [DOMAIN input.visitors -> Entries]
  BY <1>1, InHand, PoppedType DEF ForwardReturns, IInv
<1>3. /\ Last(call).trav \in Traversers /\ Last(call).cursor \in Cursors
      /\ Last(call).gotNew \in BOOLEAN /\ Front(call) \in Seq(Frames)
  BY <1>1, InHand, FrontLast DEF Frames
<1> QED
  BY <1>1, <1>2, <1>3, TypesStable DEF ForwardReturns, TypeOK

LEMMA ResetType ==
  ASSUME IInv, Reset
  PROVE  TypeOK'
<1>1. TypeOK
  BY DEF IInv
<1>2. scope' \in [DOMAIN input.visitors -> Scopes]
  BY <1>1, InitialVisitorState DEF Reset, TypeOK, IInv
<1>3. entry' \in [DOMAIN input.visitors -> Entries]
  BY <1>1, InitialVisitorState DEF Reset, TypeOK, IInv
<1> QED
  BY <1>1, <1>2, <1>3, TypesStable DEF Reset, TypeOK

LEMMA PopVisitorType ==
  ASSUME IInv, PopVisitor
  PROVE  TypeOK'
<1>1. Running /\ TypeOK
  BY DEF PopVisitor, IInv, Control, Running
<1>2. trav' \in Traversers
  BY <1>1, InHand, PopType DEF PopVisitor, TypeOK
<1>3. /\ sel' \in [DOMAIN input.visitors -> Selectors]
      /\ scope' \in [DOMAIN input.visitors -> Scopes]
      /\ entry' \in [DOMAIN input.visitors -> Entries]
  BY <1>1, InHand, PoppedType DEF PopVisitor, IInv
<1> QED
  BY <1>1, <1>2, <1>3, TypesStable DEF PopVisitor, TypeOK

LEMMA AllPoppedType ==
  ASSUME IInv, AllPopped
  PROVE  TypeOK'
  BY NextPC, TypesStable DEF IInv, AllPopped, TypeOK, visitorState

\* Every step from a state that satisfies the invariant preserves the types.
LEMMA TypeStep ==
  ASSUME IInv, [Next]_vars
  PROVE  TypeOK'
<1>1. CASE UNCHANGED vars
  BY <1>1, TypesStable DEF IInv, TypeOK, vars, visitorState
<1>2. CASE Next
  BY <1>1, <1>2, RunType, RunReturnsType, ReadFieldType, ReadPackedElementType,
     EndOfMessageType, BeginFieldType, BeginMessageType, ReadPrimitiveType,
     ReadLengthDelimitedFieldType, SkipType, ReadContentsType, ScanMessageType,
     ReadPackedType, DecrementDepthType, EndFieldType, ForwardReturnsType, ResetType,
     PopVisitorType, AllPoppedType DEF Next, Returned
<1> QED
  BY <1>1, <1>2

=============================================================================
