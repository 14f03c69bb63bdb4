--------------------------- MODULE TraversalProofs ---------------------------
(***************************************************************************)
(* The invariant IInv of TraversalTypes is inductive.  A step leaves the   *)
(* activations alone, begins one or ends one; what each of these preserves *)
(* is stated once (SameCall, BeginCall, EndCall), and each action of the   *)
(* traversal is shown to be of one of the three forms.                     *)
(*                                                                         *)
(* Then: rows are never taken back (RunsKeepTheirRows), RInv bounds how    *)
(* deep the calls nest (RecursionEnds), and every step moves on            *)
(* (RunsMoveOn), by a measure that cannot fall for ever                    *)
(* (MeasuresAreWellFounded).                                               *)
(***************************************************************************)
EXTENDS TraversalTypes, WellFoundedInduction

\* What holds between an activation and the one it has called.
Called(caller, called) ==
  /\ called.op # "Run"
  /\ StackFollows(caller, called.trav)
  /\ StreamFollows(caller, called.cursor)
  /\ DepthAtCall(caller, called)
  /\ ControlAtCall(caller, called)

\* What IInv says of the activations and of the traverser and stream in hand.
Activations ==
  /\ call # <<>>
  /\ call[1].op = "Run"
  /\ \A i \in 1 .. Len(call) - 1 : Called(call[i], call[i + 1])
  /\ StackFollows(Last(call), trav)
  /\ StreamFollows(Last(call), cursor)

LEMMA ActivationsOf ==
  ASSUME IInv, Running
  PROVE  Activations
<1>1. /\ call \in Seq(Frames) /\ call # <<>> /\ Len(call) \in Nat \ {0}
      /\ StackFollows(Last(call), trav) /\ StreamFollows(Last(call), cursor)
  BY InHand
<1>2. DOMAIN call = 1 .. Len(call)
  BY <1>1, LenProperties
<1>3. call[1].op = "Run"
  BY <1>1, <1>2 DEF IInv, StacksDisjoint
<1>4. ASSUME NEW i \in 1 .. Len(call) - 1
      PROVE  Called(call[i], call[i + 1])
  <2>1. i \in DOMAIN call /\ i + 1 \in DOMAIN call /\ i < Len(call) /\ i + 1 # 1
    BY <1>1, <1>2
  <2>2. call[i + 1].op # "Run" /\ StackFollows(call[i], call[i + 1].trav)
    BY <2>1 DEF IInv, StacksDisjoint, TravOf
  <2>3. StreamFollows(call[i], call[i + 1].cursor)
    BY <2>1 DEF IInv, ReadsOwnBytes, CursorOf
  <2>4. DepthAtCall(call[i], call[i + 1]) /\ ControlAtCall(call[i], call[i + 1])
    BY DEF IInv, DepthCountsOpenFields, Control
  <2> QED
    BY <2>2, <2>3, <2>4 DEF Called
<1> QED
  BY <1>1, <1>3, <1>4 DEF Activations

\* The other way round.
ControlAtCalls == \A i \in 1 .. Len(call) - 1 : ControlAtCall(call[i], call[i + 1])

LEMMA OfActivations ==
  call \in Seq(Frames) /\ Activations /\ DepthAtStep
    => StacksDisjoint /\ ReadsOwnBytes /\ DepthCountsOpenFields /\ ControlAtCalls
<1> SUFFICES ASSUME call \in Seq(Frames), Activations, DepthAtStep
             PROVE  StacksDisjoint /\ ReadsOwnBytes /\ DepthCountsOpenFields /\ ControlAtCalls
  OBVIOUS
<1>1. call # <<>> /\ Len(call) \in Nat \ {0} /\ DOMAIN call = 1 .. Len(call) /\ Last(call) = call[Len(call)]
  BY FrontLast, LenProperties DEF Activations, Last
<1>2. ASSUME NEW i \in DOMAIN call
      PROVE  /\ call[i].op = "Run" <=> i = 1
             /\ StackFollows(call[i], TravOf(i))
             /\ StreamFollows(call[i], CursorOf(i))
  <2>1. call[i].op = "Run" <=> i = 1
    <3>1. CASE i = 1
      BY <3>1 DEF Activations
    <3>2. CASE i # 1
      <4>1. PICK j \in 1 .. Len(call) - 1 : i = j + 1
        <5>1. i - 1 \in 1 .. Len(call) - 1 /\ i = (i - 1) + 1
          BY <1>1, <3>2
        <5> QED
          BY <5>1
      <4> QED
        BY <3>2, <4>1 DEF Activations, Called
    <3> QED
      BY <3>1, <3>2
  <2>2. CASE i < Len(call)
    <3>1. i \in 1 .. Len(call) - 1
      BY <1>1, <2>2
    <3> QED
      BY <2>1, <2>2, <3>1 DEF Activations, Called, TravOf, CursorOf
  <2>3. CASE ~(i < Len(call))
    <3>1. i = Len(call)
      BY <1>1, <2>3
    <3> QED
      BY <1>1, <2>1, <2>3, <3>1 DEF Activations, TravOf, CursorOf
  <2> QED
    BY <2>2, <2>3
<1>3. \A i \in 1 .. Len(call) - 1 :
        DepthAtCall(call[i], call[i + 1]) /\ ControlAtCall(call[i], call[i + 1])
  BY DEF Activations, Called
<1> QED
  BY <1>1, <1>2, <1>3 DEF StacksDisjoint, ReadsOwnBytes, DepthCountsOpenFields, ControlAtCalls

-----------------------------------------------------------------------------
(* The invariant after a step *)

\* A run that has ended has nothing in hand.
LEMMA EndOfRun ==
  ASSUME TypeOK', input \in Inputs, input' = input, pc' = "Done", result' # "running"
  PROVE  IInv'
  BY DEF IInv, Control, ControlAtStep, StacksDisjoint, DepthCountsOpenFields, ReadsOwnBytes,
         Running, Treatments

\* The run goes on.
GoesOn == pc' # "Run" /\ pc' # "Done" /\ result' = "running"

LEMMA StillRunning ==
  ASSUME TypeOK', input \in Inputs, input' = input, GoesOn,
         Activations', DepthAtStep', ControlAtStep'
  PROVE  IInv'
<1>1. (call \in Seq(Frames))'
  BY DEF TypeOK
<1>2. StacksDisjoint' /\ ReadsOwnBytes' /\ DepthCountsOpenFields' /\ ControlAtCalls'
  BY <1>1, OfActivations, PTL
<1> QED
  BY <1>2 DEF IInv, Control, ControlAtCalls, GoesOn

-----------------------------------------------------------------------------
(* The three forms of a step *)

\* Called speaks of the input, which does not change, and of the activations.
LEMMA CalledStable ==
  ASSUME input' = input
  PROVE  /\ \A c, d : Called(c, d)' <=> Called(c, d)
         /\ \A c, t : StackFollows(c, t)' <=> StackFollows(c, t)
  BY DEF Called, StackFollows

LEMMA SameCall ==
  ASSUME IInv, Running, TypeOK', input' = input, GoesOn, call' = call,
         StackFollows(Last(call), trav'), StreamFollows(Last(call), cursor'),
         DepthAtStep', ControlAtStep'
  PROVE  IInv'
<1>1. Activations
  BY ActivationsOf
<1>2. Activations'
  BY <1>1, CalledStable DEF Activations, Called, StackFollows
<1> QED
  BY <1>2, StillRunning DEF IInv

LEMMA BeginCall ==
  ASSUME IInv, Running, TypeOK', input' = input, GoesOn,
         NEW f \in Frames, call' = Append(call, f), f.op # "Run",
         f.trav = trav, f.cursor = cursor,
         DepthAtCall(Last(call), f), ControlAtCall(Last(call), f),
         StackFollows(f, trav'), StreamFollows(f, cursor'),
         DepthAtStep', ControlAtStep'
  PROVE  IInv'
<1>1. Activations /\ call \in Seq(Frames) /\ Len(call) \in Nat \ {0}
  BY ActivationsOf, InHand
<1>2. /\ call' # <<>> /\ Len(call') = Len(call) + 1 /\ Last(call') = f
      /\ \A i \in 1 .. Len(call) : call'[i] = call[i]
  BY <1>1, LastAppend
<1>3. call'[1].op = "Run"
  BY <1>1, <1>2 DEF Activations
<1>4. ASSUME NEW i \in 1 .. Len(call') - 1
      PROVE  Called(call'[i], call'[i + 1])
  <2>1. CASE i = Len(call)
    <3>1. call'[i] = Last(call) /\ call'[i + 1] = f
      BY <1>1, <1>2, <2>1, AppendProperties, InHand
    <3> QED
      BY <1>1, <3>1 DEF Called, Activations
  <2>2. CASE i # Len(call)
    <3>1. i \in 1 .. Len(call) - 1 /\ call'[i] = call[i] /\ call'[i + 1] = call[i + 1]
      BY <1>1, <1>2, <2>2
    <3> QED
      BY <1>1, <3>1 DEF Activations
  <2> QED
    BY <2>1, <2>2
<1>5. Activations'
  BY <1>2, <1>3, <1>4, CalledStable DEF Activations, Called, StackFollows
<1> QED
  BY <1>5, StillRunning DEF IInv

LEMMA EndCall ==
  ASSUME IInv, Running, TypeOK', input' = input, GoesOn,
         Last(call).op # "Run", call' = Front(call),
         StackFollows(Last(Front(call)), trav'), StreamFollows(Last(Front(call)), cursor'),
         DepthAtStep', ControlAtStep'
  PROVE  IInv'
<1>1. Activations /\ call \in Seq(Frames) /\ call # <<>> /\ Len(call) \in Nat \ {0}
  BY ActivationsOf, InHand
<1>2. /\ Len(call') = Len(call) - 1
      /\ \A i \in 1 .. Len(call) - 1 : call'[i] = call[i]
  BY <1>1, FrontLast
<1>3. Len(call) > 1
  BY <1>1, InHand DEF Activations
<1>4. call' # <<>> /\ call'[1].op = "Run"
  <2>1. 1 \in 1 .. Len(call) - 1
    BY <1>1, <1>3
  <2>2. Len(call') # 0
    BY <1>1, <1>2, <1>3
  <2>3. call' # <<>>
    BY <2>2, EmptySeq
  <2>4. call'[1] = call[1]
    BY <1>2, <2>1
  <2> QED
    BY <1>1, <2>3, <2>4 DEF Activations
<1>5. ASSUME NEW i \in 1 .. Len(call') - 1
      PROVE  Called(call'[i], call'[i + 1])
  <2>1. i \in 1 .. Len(call) - 1 /\ call'[i] = call[i] /\ call'[i + 1] = call[i + 1]
    BY <1>1, <1>2
  <2> QED
    BY <1>1, <2>1 DEF Activations
<1>6. Activations'
  BY <1>4, <1>5, CalledStable DEF Activations, Called, StackFollows
<1> QED
  BY <1>6, StillRunning DEF IInv

\* The caller of the last activation.
LEMMA Caller ==
  ASSUME IInv, Running, Last(call).op # "Run"
  PROVE  /\ Called(Last(Front(call)), Last(call))
         /\ Last(Front(call)) \in Frames
<1>1. Activations /\ call \in Seq(Frames) /\ call # <<>> /\ Len(call) \in Nat \ {0}
  BY ActivationsOf, InHand
<1>2. Len(call) > 1
  BY <1>1, InHand DEF Activations
<1>3. PICK n \in Nat \ {0} : Len(call) = n + 1
  <2>1. PICK m \in Nat : m = Len(call) /\ m > 1
    BY <1>1, <1>2
  <2>2. m - 1 \in Nat \ {0} /\ m = (m - 1) + 1
    BY <2>1
  <2> QED
    BY <2>1, <2>2
<1>4. Front(call) \in Seq(Frames) /\ Len(Front(call)) = n /\ Front(call)[n] = call[n]
  BY <1>1, <1>3, FrontLast
<1>5. Last(Front(call)) = call[n] /\ Last(call) = call[n + 1]
  BY <1>3, <1>4 DEF Last
<1>6. call[n] \in Frames
  BY <1>1, <1>3, ElementOfSeq
<1> QED
  BY <1>1, <1>3, <1>5, <1>6 DEF Activations

-----------------------------------------------------------------------------
(* What the actions do to the traverser and to the stream *)

\* StackFollows depends on the visitors of a traverser only.
LEMMA SameVisitors ==
  ASSUME NEW caller, NEW t, NEW u, u.visitor_stack = t.visitor_stack, StackFollows(caller, t)
  PROVE  StackFollows(caller, u)
  BY DEF StackFollows, ChainFrom

LEMMA NextVisitorFollows ==
  ASSUME IInv, Running, Kind # "Emitter", NEW caller, StackFollows(caller, trav),
         NEW u, NEW d \in Nat,
         u.visitor_stack = Append(trav.visitor_stack, [visitor |-> visitor + 1, depth_added |-> d])
  PROVE  StackFollows(caller, u)
<1>1. /\ trav.visitor_stack \in Seq(Element) /\ trav.visitor_stack # <<>>
      /\ visitor \in DOMAIN input.visitors /\ input \in Inputs
  BY InHand DEF IInv
<1>2. PICK n \in Nat \ {0} : n = Len(trav.visitor_stack)
  BY <1>1, FrontLast
<1>3. [visitor |-> visitor + 1, depth_added |-> d] \in Element
  BY <1>1, NextVisitor DEF Element, Kind, This
<1>4. /\ Len(u.visitor_stack) = n + 1
      /\ u.visitor_stack \in Seq(Element) /\ u.visitor_stack # <<>>
      /\ \A i \in 1 .. n : u.visitor_stack[i] = trav.visitor_stack[i]
      /\ u.visitor_stack[n + 1] = [visitor |-> visitor + 1, depth_added |-> d]
  BY <1>1, <1>2, <1>3, AppendProperties
<1>5. DOMAIN trav.visitor_stack = 1 .. n /\ DOMAIN u.visitor_stack = 1 .. n + 1
  BY <1>1, <1>2, <1>4, LenProperties
<1>6. visitor = trav.visitor_stack[n].visitor
  BY <1>2 DEF visitor, Last
<1>7. ASSUME NEW v, ChainFrom(trav, v)
      PROVE  ChainFrom(u, v)
  <2>1. v \in Int
    <3>1. trav.visitor_stack[1] \in Element /\ v = trav.visitor_stack[1].visitor
      BY <1>1, <1>2, <1>7, ElementOfSeq DEF ChainFrom
    <3> QED
      BY <1>1, <3>1, InputsAssumption DEF Element, IsChain
  <2>2. u.visitor_stack[1] = [visitor |-> v, depth_added |-> 0]
    BY <1>2, <1>4, <1>7 DEF ChainFrom
  <2>3. \A i \in 1 .. n : u.visitor_stack[i].visitor = v + i - 1
    BY <1>4, <1>5, <1>7 DEF ChainFrom
  <2>4. u.visitor_stack[n + 1].visitor = v + (n + 1) - 1
    <3>1. visitor = v + n - 1
      BY <1>2, <1>5, <1>6, <1>7 DEF ChainFrom
    <3> QED
      BY <1>4, <2>1, <3>1
  <2>5. ASSUME NEW i \in DOMAIN u.visitor_stack
        PROVE  u.visitor_stack[i].visitor = v + i - 1
    <3>1. i \in 1 .. n \/ i = n + 1
      BY <1>5
    <3>2. CASE i \in 1 .. n
      BY <2>3, <3>2
    <3>3. CASE i = n + 1
      BY <2>4, <3>3, Zenon
    <3> QED
      BY <3>1, <3>2, <3>3
  <2> QED
    BY <1>4, <2>2, <2>5, Zenon DEF ChainFrom
<1> QED
  BY <1>7 DEF StackFollows

LEMMA PoppedFollows ==
  ASSUME IInv, Running, NEW caller, StackFollows(caller, trav),
         Last(trav.visitor_stack).depth_added > 0
  PROVE  StackFollows(caller, [trav EXCEPT !.visitor_stack = Front(@)])
<1> DEFINE u == [trav EXCEPT !.visitor_stack = Front(@)]
<1>1. /\ trav.visitor_stack \in Seq(Element) /\ trav.visitor_stack # <<>>
      /\ trav \in Traversers
  BY InHand DEF IInv, TypeOK
<1>2. PICK n \in Nat \ {0} : n = Len(trav.visitor_stack)
  BY <1>1, FrontLast
<1>3. /\ u.visitor_stack = Front(trav.visitor_stack)
      /\ u.visitor_stack \in Seq(Element)
      /\ Len(u.visitor_stack) = n - 1
      /\ \A i \in 1 .. n - 1 : u.visitor_stack[i] = trav.visitor_stack[i]
  BY <1>1, <1>2, FrontLast DEF Traversers
<1>4. DOMAIN trav.visitor_stack = 1 .. n /\ DOMAIN u.visitor_stack = 1 .. n - 1
  BY <1>1, <1>2, <1>3, LenProperties
<1> HIDE DEF u
<1>5. ASSUME NEW v, ChainFrom(trav, v)
      PROVE  ChainFrom(u, v)
  <2>1. n # 1
    BY <1>2, <1>5 DEF ChainFrom, Last
  <2>2. 1 \in 1 .. n - 1
    BY <2>1
  <2>3. u.visitor_stack # <<>>
    BY <1>3, <2>1, EmptySeq
  <2>4. u.visitor_stack[1] = [visitor |-> v, depth_added |-> 0]
    BY <1>3, <1>5, <2>2 DEF ChainFrom
  <2>5. \A i \in 1 .. n - 1 : i \in 1 .. n
    OBVIOUS
  <2> QED
    BY <1>3, <1>4, <1>5, <2>3, <2>4, <2>5 DEF ChainFrom
<1> QED
  BY <1>5 DEF StackFollows, u

\* The reader of a loop only moves forward.
LEMMA StreamAdvances ==
  ASSUME NEW caller \in Frames, NEW c \in Cursors, NEW q \in Nat, q >= c.pos,
         StreamFollows(caller, c)
  PROVE  StreamFollows(caller, [c EXCEPT !.pos = q])
<1>1. /\ [c EXCEPT !.pos = q].pos = q
      /\ [c EXCEPT !.pos = q].limit = c.limit
      /\ [c EXCEPT !.pos = q].budget = c.budget
  BY DEF Cursors
<1>2. c.pos \in Nat /\ caller.cursor.pos \in Nat
  BY DEF Frames, Cursors
<1> QED
  BY <1>1, <1>2 DEF StreamFollows

-----------------------------------------------------------------------------
(* The actions *)

LEMMA RunStep ==
  ASSUME IInv, Run
  PROVE  IInv'
<1>1. TypeOK' /\ input \in Inputs
  BY RunType DEF IInv
<1>2. PICK f : f = Frame("Run", field)
  OBVIOUS
<1>3. call' = <<f>> /\ call' # <<>> /\ Len(call') = 1 /\ call'[1] = f /\ Last(call') = f
  BY <1>2 DEF Run, Last
<1>4. f.op = "Run"
  BY <1>2 DEF Frame
<1>5. trav' = NewTraverser(1) /\ trav'.depth = 0 /\ ChainFrom(trav', 1)
  BY <1>1, NewTraverserType, InputsAssumption DEF Run, IsChain
<1>6. StackFollows(f, trav')
  BY <1>4, <1>5 DEF StackFollows, Loops
<1>7. StreamFollows(f, cursor')
  BY <1>4 DEF StreamFollows, Run, IInv, Control, Loops
<1>8. input' = input
  BY DEF Run
<1>9. Activations'
  BY <1>3, <1>4, <1>6, <1>7, <1>8, CalledStable DEF Activations, StackFollows
<1>10. pc' = "ScanField" /\ gotNew' = FALSE /\ treatment' = "None" /\ GoesOn
  BY DEF Run, IInv, Control, GoesOn
<1>11. DepthAtStep'
  BY <1>3, <1>4, <1>5, <1>10 DEF DepthAtStep, ScanDepth, Extra, Loops
<1>12. ControlAtStep'
  BY <1>10 DEF ControlAtStep, Treatments
<1> QED
  BY <1>1, <1>8, <1>9, <1>10, <1>11, <1>12, StillRunning

LEMMA RunReturnsStep ==
  ASSUME IInv, RunReturns
  PROVE  IInv'
  BY RunReturnsType, EndOfRun DEF RunReturns, IInv

LEMMA ThrowStep ==
  ASSUME IInv, NEW e \in {"BadProto", "RecursionDepthExceeded"}, Throw(e)
  PROVE  IInv'
  BY ThrowType, EndOfRun DEF Throw, IInv

\* What every step of a run starts from.
LEMMA AtStep ==
  ASSUME IInv, Running
  PROVE  /\ TypeOK /\ input \in Inputs /\ result = "running"
         /\ DepthAtStep /\ ControlAtStep
         /\ Last(call) \in Frames
         /\ Last(call).trav.depth \in Nat /\ trav.depth \in Nat
         /\ trav \in Traversers /\ cursor \in Cursors
         /\ StackFollows(Last(call), trav) /\ StreamFollows(Last(call), cursor)
  BY InHand DEF IInv, Control, DepthCountsOpenFields, TypeOK, Running, Frames, Traversers

LEMMA ReadFieldValueOrSizeStep ==
  ASSUME IInv, pc = "NextField", NEW number \in Nat, NEW wt \in 0 .. 7,
         NEW p \in Nat, p >= cursor.pos, ReadFieldValueOrSize(number, wt, p)
  PROVE  IInv'
<1>1. Running
  BY DEF IInv, Control, Running
<1>2. CASE ValueLength(wt, p) = 0
  BY <1>2, ThrowStep DEF ReadFieldValueOrSize
<1>3. CASE ValueLength(wt, p) # 0
  <2>1. TypeOK'
    BY ReadFieldValueOrSizeType DEF IInv
  <2>2. /\ cursor' = [cursor EXCEPT !.pos = p + ValueLength(wt, p)]
        /\ trav' = [trav EXCEPT !.depth = @ + 1]
        /\ pc' = "BeginField"
        /\ UNCHANGED <<input, treatment, gotNew, call, visitorState, rows, result>>
    BY <1>3 DEF ReadFieldValueOrSize
  <2>3. StackFollows(Last(call), trav') /\ trav'.depth = trav.depth + 1
    <3>1. trav'.visitor_stack = trav.visitor_stack /\ trav'.depth = trav.depth + 1
      BY <1>1, <2>2, AtStep DEF Traversers
    <3> QED
      BY <1>1, <3>1, AtStep, SameVisitors
  <2>4. StreamFollows(Last(call), cursor')
    <3>1. PICK q \in Nat : q = p + ValueLength(wt, p) /\ q >= cursor.pos
      <4>1. PICK n \in Nat : n = ValueLength(wt, p)
        BY <1>3, ValueBounds DEF IInv
      <4>2. p + n \in Nat /\ p + n >= cursor.pos
        BY StreamType DEF IInv
      <4> QED
        BY <4>1, <4>2
    <3> QED
      BY <1>1, <2>2, <3>1, AtStep, StreamAdvances
  <2>5. Last(call).op \in Loops /\ ~gotNew /\ treatment = "None" /\ trav.depth = Last(call).trav.depth
    BY <1>1, AtStep DEF ControlAtStep, DepthAtStep, Treatments
  <2>6. DepthAtStep' /\ ControlAtStep'
    BY <1>1, <2>2, <2>3, <2>5, AtStep DEF DepthAtStep, ControlAtStep, ScanDepth, Extra, Treatments
  <2> QED
    BY <1>1, <2>1, <2>2, <2>3, <2>4, <2>6, AtStep, SameCall DEF GoesOn
<1> QED
  BY <1>2, <1>3

LEMMA ReadFieldStep ==
  ASSUME IInv, ReadField
  PROVE  IInv'
<1> DEFINE n == VarintLength(Stream, cursor.pos, cursor.limit)
           tag == VarintValue(Stream, cursor.pos)
<1>1. CASE n = 0 \/ tag = 0
  BY <1>1, ThrowStep DEF ReadField
<1>2. CASE ~(n = 0 \/ tag = 0)
  <2>1. n \in Nat /\ tag \in Nat /\ cursor.pos + n \in Nat /\ cursor.pos + n >= cursor.pos
    BY <1>2, StreamType, VarintBounds DEF IInv
  <2>2. tag \div 8 \in Nat /\ tag % 8 \in 0 .. 7
    BY <2>1
  <2>3. ReadFieldValueOrSize(tag \div 8, tag % 8, cursor.pos + n) /\ pc = "NextField"
    BY <1>2 DEF ReadField
  <2> HIDE DEF n, tag
  <2> QED
    BY <2>1, <2>2, <2>3, ReadFieldValueOrSizeStep
<1> QED
  BY <1>1, <1>2

LEMMA ReadPackedElementStep ==
  ASSUME IInv, ReadPackedElement
  PROVE  IInv'
<1>1. Running
  BY DEF ReadPackedElement, IInv, Control, Running
<1>2. Last(call).field.number \in Nat /\ Last(call).field.wire_type \in 0 .. 7
  BY <1>1, InHand DEF Frames, FieldInfo
<1>3. cursor.pos \in Nat /\ cursor.pos >= cursor.pos
  BY StreamType DEF IInv
<1> QED
  BY <1>2, <1>3, ReadFieldValueOrSizeStep DEF ReadPackedElement

LEMMA EndOfMessageStep ==
  ASSUME IInv, EndOfMessage
  PROVE  IInv'
<1>1. Running /\ TypeOK'
  BY EndOfMessageType DEF EndOfMessage, IInv, Control, Running
<1>2. /\ Last(call).op \in Loops /\ ~gotNew /\ treatment = "None"
      /\ trav.depth = Last(call).trav.depth
  BY <1>1, AtStep DEF EndOfMessage, ControlAtStep, DepthAtStep, Treatments
<1> DEFINE d == Last(call)
           c == Last(Front(call))
<1>3. Called(c, d) /\ c \in Frames /\ d \in Frames
  BY <1>1, <1>2, Caller, AtStep DEF Loops
<1>4. StackFollows(c, trav)
  <2>1. ChainFrom(trav, d.trav.visitor_stack[1].visitor)
    BY <1>1, <1>2, AtStep DEF StackFollows
  <2>2. \A v : ChainFrom(d.trav, v) => ChainFrom(trav, v)
    BY <2>1 DEF ChainFrom
  <2> QED
    BY <1>3, <2>2 DEF Called, StackFollows
<1>5. StreamFollows(c, cursor')
  <2>1. /\ cursor'.pos = cursor.pos
        /\ cursor'.limit = d.cursor.limit
        /\ cursor'.budget = IF d.op = "Message" THEN cursor.budget + 1 ELSE cursor.budget
    BY <1>1, AtStep DEF EndOfMessage, Cursors
  <2>2. /\ cursor.pos >= d.cursor.pos
        /\ cursor.budget = d.cursor.budget - (IF d.op = "Message" THEN 1 ELSE 0)
    BY <1>1, <1>2, AtStep DEF StreamFollows
  <2>3. /\ d.cursor.pos \in Nat /\ d.cursor.budget \in Nat /\ c.cursor.pos \in Nat
        /\ cursor.pos \in Nat /\ cursor.budget \in Nat
    BY <1>1, <1>3, AtStep DEF Frames, Cursors
  <2>4. cursor'.budget = d.cursor.budget /\ cursor'.pos >= d.cursor.pos /\ cursor'.pos \in Nat
    BY <2>1, <2>2, <2>3
  <2>5. StreamFollows(c, d.cursor)
    BY <1>3 DEF Called
  <2> HIDE DEF c, d
  <2> QED
    BY <2>1, <2>3, <2>4, <2>5 DEF StreamFollows
<1>6. /\ call' = Front(call) /\ gotNew' = d.gotNew /\ Last(call') = c
      /\ pc' = IF d.gotNew \/ c.op \in Loops THEN "Decrement" ELSE "Return"
      /\ UNCHANGED <<input, field, treatment, trav, visitorState, rows, result>>
  BY DEF EndOfMessage, Loops
<1>7. trav.depth = ScanDepth(c) + Extra(d.gotNew)
  <2>1. d.trav.depth = (ScanDepth(c) + Extra(d.gotNew)) - 0
    BY <1>2, <1>3 DEF Called, DepthAtCall, Loops
  <2>2. ScanDepth(c) \in Nat /\ Extra(d.gotNew) \in Nat
    BY <1>3 DEF ScanDepth, Extra, Frames, Traversers
  <2> QED
    BY <1>2, <2>1, <2>2
<1>8. d.gotNew \in BOOLEAN
  BY <1>3 DEF Frames
<1> HIDE DEF c, d
<1>9. DepthAtStep'
  BY <1>6, <1>7, <1>8 DEF DepthAtStep, ScanDepth, Extra, Treatments
<1>10. ControlAtStep'
  BY <1>2, <1>6, <1>8 DEF ControlAtStep, Treatments
<1> QED
  BY <1>1, <1>2, <1>4, <1>5, <1>6, <1>9, <1>10, AtStep, EndCall DEF c, GoesOn, Loops

\* A visitor that returns next_ has it pushed and asked in turn.
LEMMA ReturnNextStep ==
  ASSUME IInv, Running, pc \in {"BeginField", "BeginMessage"}, Kind # "Emitter", ReturnNext,
         UNCHANGED <<input, treatment, gotNew, call, cursor, rows, result>>, TypeOK'
  PROVE  IInv'
<1>1. /\ trav'.depth = trav.depth
      /\ trav'.visitor_stack =
           Append(trav.visitor_stack, [visitor |-> visitor + 1, depth_added |-> trav.depth])
  BY ReturnNextType DEF ReturnNext
<1>2. StackFollows(Last(call), trav')
  BY <1>1, AtStep, NextVisitorFollows
<1>3. DepthAtStep' /\ ControlAtStep'
  BY <1>1, AtStep DEF ReturnNext, DepthAtStep, ControlAtStep
<1> QED
  BY <1>2, <1>3, AtStep, SameCall DEF ReturnNext, GoesOn

LEMMA BeginFieldStep ==
  ASSUME IInv, BeginField
  PROVE  IInv'
<1>1. Running /\ TypeOK'
  BY BeginFieldType DEF BeginField, IInv, Control, Running
<1>2. /\ pc = "BeginField"
      /\ UNCHANGED <<input, field, treatment, gotNew, call, cursor, entry, rows, result>>
      /\ ReturnThis(AfterBeginField) \/ (Kind # "Emitter" /\ ReturnNext)
  BY DEF BeginField, FieldSelectorBeginField, MapFilterBeginField, AllMapEntriesBeginField,
         OtherBeginField
<1>3. CASE ReturnThis(AfterBeginField)
  <2>1. /\ pc' = IF treatment = "None" THEN "ScanField" ELSE treatment
        /\ trav' = trav
    BY <1>3 DEF ReturnThis, AfterBeginField
  <2>2. treatment \in Treatments \cup {"None"} /\ (gotNew <=> treatment # "None")
    BY <1>1, <1>2, AtStep DEF TypeOK, ControlAtStep
  <2>3. DepthAtStep' /\ ControlAtStep'
    BY <1>1, <1>2, <2>1, <2>2, AtStep DEF DepthAtStep, ControlAtStep, Treatments
  <2>4. GoesOn
    BY <1>1, <1>2, <2>1, <2>2, AtStep DEF GoesOn, Treatments
  <2> QED
    BY <1>1, <1>2, <2>1, <2>3, <2>4, AtStep, SameCall
<1>4. CASE Kind # "Emitter" /\ ReturnNext
  BY <1>1, <1>2, <1>4, ReturnNextStep
<1> QED
  BY <1>2, <1>3, <1>4

LEMMA BeginMessageStep ==
  ASSUME IInv, BeginMessage
  PROVE  IInv'
<1>1. Running /\ TypeOK'
  BY BeginMessageType DEF BeginMessage, IInv, Control, Running
<1>2. CASE ReturnThis("NextField")
  <2>1. /\ pc = "BeginMessage" /\ pc' = "NextField" /\ trav' = trav
        /\ UNCHANGED <<input, field, treatment, gotNew, call, cursor, sel, entry, rows, result>>
    BY <1>2 DEF ReturnThis, BeginMessage
  <2>2. DepthAtStep' /\ ControlAtStep'
    BY <1>1, <2>1, AtStep DEF DepthAtStep, ControlAtStep, Treatments
  <2> QED
    BY <1>1, <2>1, <2>2, AtStep, SameCall DEF GoesOn
<1>3. CASE Kind = "DescendIntoSubmessage" /\ ReturnNext
  BY <1>1, <1>3, ReturnNextStep DEF BeginMessage
<1> QED
  BY <1>2, <1>3 DEF BeginMessage

\* ScanField returns to its caller, with the stream where it is or further on.
LEMMA FieldScannedStep ==
  ASSUME IInv, Running, pc \in {"ScanField"} \cup Treatments, TypeOK',
         UNCHANGED <<input, gotNew, call, trav>>, treatment' = "None",
         NEW q \in Nat, q >= cursor.pos, cursor' = [cursor EXCEPT !.pos = q],
         \/ result' = result /\ pc' = IF gotNew THEN "Decrement" ELSE AfterScanField
         \/ result' # "running" /\ pc' = "Done"
  PROVE  IInv'
<1>1. CASE result' # "running" /\ pc' = "Done"
  BY <1>1, EndOfRun DEF IInv
<1>2. CASE result' = result /\ pc' = IF gotNew THEN "Decrement" ELSE AfterScanField
  <2>1. pc' = IF gotNew \/ Last(call).op \in Loops THEN "Decrement" ELSE "Return"
    BY <1>2 DEF AfterScanField, Loops
  <2>2. trav.depth = ScanDepth(Last(call)) + Extra(gotNew) /\ gotNew \in BOOLEAN
    BY AtStep DEF DepthAtStep, TypeOK
  <2>3. DepthAtStep' /\ ControlAtStep'
    BY <2>1, <2>2, AtStep DEF DepthAtStep, ControlAtStep, ScanDepth, Extra, Treatments
  <2>4. StreamFollows(Last(call), cursor')
    BY AtStep, StreamAdvances
  <2> QED
    BY <1>2, <2>1, <2>3, <2>4, AtStep, SameCall DEF GoesOn
<1> QED
  BY <1>1, <1>2

LEMMA ReadPrimitiveStep ==
  ASSUME IInv, ReadPrimitive
  PROVE  IInv'
<1>1. Running /\ TypeOK' /\ pc = "ScanField"
  BY ReadPrimitiveType DEF ReadPrimitive, IInv, Control, Running
<1>2. CASE Throw("BadProto")
  BY <1>2, ThrowStep
<1>3. CASE ~Throw("BadProto")
  <2>1. /\ UNCHANGED <<input, field, treatment, gotNew, call, cursor, trav, sel, scope>>
        /\ \/ result' = result /\ pc' = AfterScanField
           \/ result' = "ok" /\ pc' = "Done"
    BY <1>3 DEF ReadPrimitive, EmitStr
  <2>2. ~gotNew /\ treatment = "None"
    BY <1>1, AtStep DEF ControlAtStep, Treatments
  <2>3. cursor' = [cursor EXCEPT !.pos = cursor.pos] /\ cursor.pos \in Nat
    BY <1>1, <2>1, AtStep DEF Cursors
  <2>4. cursor.pos >= cursor.pos
    BY <2>3
  <2> QED
    BY <1>1, <2>1, <2>2, <2>3, <2>4, FieldScannedStep
<1> QED
  BY <1>2, <1>3

LEMMA SkipStep ==
  ASSUME IInv, Skip
  PROVE  IInv'
<1>1. Running /\ TypeOK' /\ pc = "Skip" /\ field.size \in Nat
  BY SkipType DEF Skip, IInv, Control, Running, TypeOK, FieldInfo
<1>2. PICK q \in Nat : q = Minimum(cursor.pos + field.size, cursor.limit) /\ q >= cursor.pos
  BY <1>1, StreamType DEF Minimum, IInv
<1> QED
  BY <1>1, <1>2, FieldScannedStep DEF Skip, AfterTreatment, Treatments

LEMMA ReadContentsStep ==
  ASSUME IInv, ReadContents
  PROVE  IInv'
<1>1. Running /\ TypeOK' /\ pc \in Treatments /\ field.size \in Nat
  BY ReadContentsType DEF ReadContents, IInv, Control, Running, TypeOK, FieldInfo, Treatments
<1>2. CASE Throw("BadProto")
  BY <1>2, ThrowStep
<1>3. CASE ~Throw("BadProto")
  <2>1. PICK q \in Nat : q = cursor.pos + field.size /\ q >= cursor.pos
    BY <1>1, StreamType DEF IInv
  <2>2. /\ cursor' = [cursor EXCEPT !.pos = q]
        /\ treatment' = "None"
        /\ UNCHANGED <<input, field, gotNew, call, trav, sel, scope>>
        /\ \/ result' = result /\ pc' = AfterTreatment
           \/ result' = "ok" /\ pc' = "Done"
    BY <1>3, <2>1 DEF ReadContents, EmitStr
  <2> QED
    BY <1>1, <2>1, <2>2, FieldScannedStep DEF AfterTreatment
<1> QED
  BY <1>2, <1>3

LEMMA ReadLengthDelimitedFieldStep ==
  ASSUME IInv, ReadLengthDelimitedField
  PROVE  IInv'
<1>1. Running /\ TypeOK'
  BY ReadLengthDelimitedFieldType DEF ReadLengthDelimitedField, IInv, Control, Running
<1>2. /\ pc = "ScanField" /\ ~gotNew /\ treatment = "None"
      /\ trav.depth = ScanDepth(Last(call))
      /\ UNCHANGED <<input, field, call, cursor, sel, scope, rows, result>>
  <2>1. pc = "ScanField" /\ UNCHANGED <<input, field, call, cursor, sel, scope, rows, result>>
    BY DEF ReadLengthDelimitedField
  <2>2. ~gotNew /\ treatment = "None" /\ trav.depth = ScanDepth(Last(call)) + 0
    BY <1>1, <2>1, AtStep DEF ControlAtStep, DepthAtStep, Extra, Treatments
  <2>3. ScanDepth(Last(call)) \in Nat
    BY <1>1, AtStep DEF ScanDepth
  <2> QED
    BY <2>1, <2>2, <2>3
<1>3. ASSUME NEW t \in Treatments, Treat(t)
      PROVE  IInv'
  <2>1. DepthAtStep' /\ ControlAtStep'
    BY <1>1, <1>2, <1>3, AtStep DEF Treat, DepthAtStep, ControlAtStep, Treatments
  <2>2. GoesOn
    BY <1>1, <1>2, <1>3, AtStep DEF Treat, GoesOn, Treatments
  <2> QED
    BY <1>1, <1>2, <1>3, <2>1, <2>2, AtStep, SameCall DEF Treat
<1>4. ASSUME NEW t \in Treatments, HandOver(t), Kind # "Emitter"
      PROVE  IInv'
  <2>1. /\ trav'.depth = trav.depth + 1
        /\ trav'.visitor_stack =
             Append(trav.visitor_stack, [visitor |-> visitor + 1, depth_added |-> trav.depth])
    BY <1>1, <1>4, ReturnNextType DEF HandOver, Traversers
  <2>2. StackFollows(Last(call), trav')
    BY <1>1, <1>4, <2>1, AtStep, NextVisitorFollows
  <2>3. DepthAtStep'
    BY <1>1, <1>2, <1>4, <2>1, AtStep DEF HandOver, DepthAtStep, ScanDepth, Extra, Treatments
  <2>4. ControlAtStep'
    BY <1>2, <1>4 DEF HandOver, ControlAtStep, Treatments
  <2> QED
    BY <1>1, <1>2, <1>4, <2>2, <2>3, <2>4, AtStep, SameCall DEF HandOver, GoesOn
<1>5. (\E t \in Treatments : Treat(t)) \/ (Kind # "Emitter" /\ \E t \in Treatments : HandOver(t))
  <2>1. \A ty : /\ CompositeFieldTreatmentForType(ty) \in Treatments
                /\ PackedCompositeFieldTreatmentForType(ty) \in Treatments
    BY <1>1, AtStep, NextPC
  <2>2. {"Skip", "Buffer", "AsSubmessage"} \subseteq Treatments
    BY DEF Treatments
  <2>3. CASE FieldSelectorTreats
    BY <2>1, <2>2, <2>3 DEF FieldSelectorTreats
  <2>4. CASE MapFilterTreats
    BY <2>2, <2>4 DEF MapFilterTreats
  <2>5. CASE AllMapEntriesTreats
    BY <2>1, <2>2, <2>5 DEF AllMapEntriesTreats
  <2>6. CASE OtherTreats
    BY <2>1, <2>2, <2>6 DEF OtherTreats
  <2> QED
    BY <2>3, <2>4, <2>5, <2>6 DEF ReadLengthDelimitedField
<1> QED
  BY <1>3, <1>4, <1>5

\* A loop over a nested message or a packed field begins.
LEMMA LoopBegins ==
  ASSUME IInv, Running, pc \in Treatments, TypeOK',
         NEW op \in Loops, NEW f \in FieldInfo, f.size = field.size,
         call' = Append(call, Frame(op, f)),
         cursor'.pos = cursor.pos,
         cursor'.limit = Minimum(cursor.pos + field.size, cursor.limit),
         cursor'.budget = cursor.budget - (IF op = "Message" THEN 1 ELSE 0),
         UNCHANGED <<input, trav, result>>, treatment' = "None", gotNew' = FALSE,
         pc' = IF op = "Message" THEN "BeginMessage" ELSE "NextField"
  PROVE  IInv'
<1>1. PICK d : d = Frame(op, f)
  OBVIOUS
<1>2. /\ d.op = op /\ d.field = f /\ d.trav = trav /\ d.cursor = cursor /\ d.gotNew = gotNew
      /\ d \in Frames
  BY <1>1, AtStep, FrameType DEF Frame
<1>3. DepthAtCall(Last(call), d)
  <2>1. trav.depth = ScanDepth(Last(call)) + Extra(gotNew)
    BY AtStep DEF DepthAtStep
  <2>2. PICK n \in Nat : n = ScanDepth(Last(call)) + Extra(gotNew)
    BY AtStep DEF ScanDepth, Extra
  <2>3. n = n - 0
    BY <2>2
  <2>4. (IF d.op = "Forward" THEN 1 ELSE 0) = 0
    BY <1>2 DEF Loops
  <2>5. d.trav.depth = (ScanDepth(Last(call)) + Extra(d.gotNew)) - 0
    BY <1>2, <2>1, <2>2, <2>3, Zenon
  <2> QED
    BY <2>4, <2>5, Zenon DEF DepthAtCall
<1>4. ControlAtCall(Last(call), d)
  BY <1>2 DEF ControlAtCall, Loops
<1>5. StackFollows(d, trav')
  <2>1. ChainFrom(trav, trav.visitor_stack[1].visitor)
    <3>1. PICK v : ChainFrom(trav, v)
      BY AtStep DEF StackFollows, Frames
    <3> QED
      BY <3>1 DEF ChainFrom
  <2> QED
    BY <1>2, <2>1 DEF StackFollows, Loops
<1>6. StreamFollows(d, cursor')
  <2>1. cursor.pos \in Nat
    BY AtStep DEF Cursors
  <2> QED
    BY <1>2, <2>1 DEF StreamFollows
<1>7. Last(call') = d
  BY <1>1, <1>2, InHand, LastAppend
<1>8. DepthAtStep' /\ ControlAtStep'
  BY <1>2, <1>7, AtStep DEF DepthAtStep, ControlAtStep, Treatments, Loops
<1> QED
  BY <1>1, <1>2, <1>3, <1>4, <1>5, <1>6, <1>8, AtStep, BeginCall DEF GoesOn, Loops

LEMMA ScanMessageStep ==
  ASSUME IInv, ScanMessage
  PROVE  IInv'
<1>1. Running /\ TypeOK' /\ pc \in Treatments
  BY ScanMessageType DEF ScanMessage, IInv, Control, Running, Treatments
<1>2. CASE cursor.budget = 0
  BY <1>2, ThrowStep DEF ScanMessage
<1>3. CASE cursor.budget # 0
  <2>1. /\ cursor'.pos = cursor.pos
        /\ cursor'.limit = Minimum(cursor.pos + field.size, cursor.limit)
        /\ cursor'.budget = cursor.budget - 1
    BY <1>1, <1>3, AtStep DEF ScanMessage, Narrowed, Cursors
  <2>2. field \in FieldInfo
    BY <1>1, AtStep DEF TypeOK
  <2> QED
    BY <1>1, <1>3, <2>1, <2>2, LoopBegins DEF ScanMessage, Loops
<1> QED
  BY <1>2, <1>3

LEMMA ReadPackedStep ==
  ASSUME IInv, ReadPacked
  PROVE  IInv'
<1>1. Running /\ TypeOK' /\ pc \in Treatments
  BY ReadPackedType DEF ReadPacked, IInv, Control, Running, Treatments
<1>2. /\ cursor'.pos = cursor.pos
      /\ cursor'.limit = Minimum(cursor.pos + field.size, cursor.limit)
      /\ cursor'.budget = cursor.budget - 0
  BY <1>1, AtStep DEF ReadPacked, Narrowed, Cursors
<1>3. PICK f \in FieldInfo : f = [field EXCEPT !.wire_type = PackedWireType(pc)] /\ f.size = field.size
  <2>1. field \in FieldInfo /\ PackedWireType(pc) \in 0 .. 7
    BY <1>1, AtStep DEF TypeOK, PackedWireType
  <2> DEFINE g == [field EXCEPT !.wire_type = PackedWireType(pc)]
  <2>2. g \in FieldInfo /\ g.size = field.size
    BY <2>1 DEF FieldInfo
  <2> QED
    BY <2>2
<1>4. call' = Append(call, Frame("Packed", f))
  BY <1>3 DEF ReadPacked
<1> QED
  BY <1>1, <1>2, <1>3, <1>4, LoopBegins DEF ReadPacked, Loops

LEMMA DecrementDepthStep ==
  ASSUME IInv, DecrementDepth
  PROVE  IInv'
<1>1. Running /\ TypeOK'
  BY DecrementDepthType DEF DecrementDepth, IInv, Control, Running
<1>2. trav'.depth = trav.depth - 1 /\ trav'.visitor_stack = trav.visitor_stack
  BY <1>1, AtStep DEF DecrementDepth, Traversers
<1>3. StackFollows(Last(call), trav')
  BY <1>1, <1>2, AtStep, SameVisitors
<1>4. DepthAtStep' /\ ControlAtStep'
  BY <1>1, <1>2, AtStep DEF DecrementDepth, DepthAtStep, ControlAtStep, Treatments
<1> QED
  BY <1>1, <1>3, <1>4, AtStep, SameCall DEF DecrementDepth, GoesOn

\* MapFilter lets a traverser of its own scan the value of an entry.
LEMMA ForwardBegins ==
  ASSUME IInv, EndField, MapFilterEndEntry, KeyMatches
  PROVE  IInv'
<1>1. Running /\ TypeOK' /\ pc = "EndField" /\ input \in Inputs
  BY EndFieldType DEF EndField, IInv, Control, Running
<1>2. PICK d : d = Frame("Forward", field)
  OBVIOUS
<1>3. /\ d.op = "Forward" /\ d.trav = trav /\ d.cursor = cursor /\ d.gotNew = gotNew
      /\ d \in Frames
  BY <1>1, <1>2, AtStep, FrameType DEF Frame, TypeOK
<1>4. /\ Kind = "MapFilter"
      /\ call' = Append(call, d)
      /\ trav' = NewTraverser(visitor + 1)
      /\ cursor'.budget = RecursionLimit
      /\ gotNew' = FALSE /\ pc' = "ScanField"
      /\ UNCHANGED <<input, treatment, rows, result>>
  BY <1>2 DEF EndField, MapFilterEndEntry
<1>5. trav'.depth = 0 /\ ChainFrom(trav', visitor + 1)
  <2>1. visitor + 1 \in DOMAIN input.visitors
    BY <1>1, <1>4, InHand, NextVisitor DEF Kind, This
  <2> QED
    BY <1>1, <1>4, <2>1, NewTraverserType
<1>6. StackFollows(d, trav')
  BY <1>3, <1>4, <1>5 DEF StackFollows, Loops, visitor, Kind, This
<1>7. StreamFollows(d, cursor')
  BY <1>3, <1>4 DEF StreamFollows, Loops
<1>8. DepthAtCall(Last(call), d)
  <2>1. d.trav.depth = (ScanDepth(Last(call)) + Extra(d.gotNew)) - 1
    <3>1. trav.depth = (ScanDepth(Last(call)) + Extra(gotNew)) - 1
      <4>1. DepthAtStep
        BY <1>1, AtStep
      <4> QED
        BY <1>1, <4>1, Zenon DEF DepthAtStep
    <3> QED
      BY <1>3, <3>1, Zenon
  <2>2. (IF d.op = "Forward" THEN 1 ELSE 0) = 1
    BY <1>3
  <2> QED
    BY <2>1, <2>2, Zenon DEF DepthAtCall
<1>9. ControlAtCall(Last(call), d)
  BY <1>1, <1>3, AtStep DEF ControlAtCall, ControlAtStep
<1>10. Last(call') = d
  BY <1>1, <1>3, <1>4, InHand, LastAppend
<1>11. DepthAtStep'
  BY <1>3, <1>4, <1>5, <1>10 DEF DepthAtStep, ScanDepth, Extra, Loops, Treatments
<1>12. ControlAtStep'
  BY <1>1, <1>4, AtStep DEF ControlAtStep, Treatments
<1> QED
  BY <1>1, <1>3, <1>4, <1>6, <1>7, <1>8, <1>9, <1>11, <1>12, AtStep, BeginCall DEF GoesOn

\* EndField is followed by the popping of visitors, or by Reset in between.
LEMMA FieldEndsStep ==
  ASSUME IInv, Running, pc \in {"EndField", "Reset"}, pc' \in {"PopVisitors", "Reset"}, TypeOK',
         UNCHANGED <<input, treatment, gotNew, call, cursor, trav, rows, result>>
  PROVE  IInv'
<1>1. DepthAtStep' /\ ControlAtStep'
  BY AtStep DEF DepthAtStep, ControlAtStep, Treatments
<1> QED
  BY <1>1, AtStep, SameCall DEF GoesOn

LEMMA EndFieldStep ==
  ASSUME IInv, EndField
  PROVE  IInv'
<1>1. Running /\ TypeOK' /\ pc = "EndField"
  BY EndFieldType DEF EndField, IInv, Control, Running
<1>2. CASE MapFilterEndEntry /\ KeyMatches
  BY <1>2, ForwardBegins
<1>3. CASE ~(MapFilterEndEntry /\ KeyMatches)
  <2>1. /\ pc' \in {"PopVisitors", "Reset"}
        /\ UNCHANGED <<input, treatment, gotNew, call, cursor, trav, rows, result>>
    BY <1>3 DEF EndField, FieldSelectorEndField, MapFilterEndField, MapFilterEndEntry,
       AllMapEntriesEndField, OtherEndField
  <2> QED
    BY <1>1, <2>1, FieldEndsStep
<1> QED
  BY <1>2, <1>3

LEMMA ForwardReturnsStep ==
  ASSUME IInv, ForwardReturns
  PROVE  IInv'
<1>1. Running /\ TypeOK'
  BY ForwardReturnsType DEF ForwardReturns, IInv, Control, Running
<1> DEFINE d == Last(call)
           c == Last(Front(call))
<1>2. /\ pc = "Return" /\ d.op = "Forward" /\ call' = Front(call) /\ Last(call') = c
      /\ trav' = d.trav /\ cursor' = d.cursor /\ gotNew' = d.gotNew /\ pc' = "Reset"
      /\ UNCHANGED <<input, field, treatment, rows, result>>
  BY DEF ForwardReturns
<1>3. Called(c, d) /\ d.op # "Run"
  BY <1>1, <1>2, Caller
<1>4. treatment = "None"
  BY <1>1, <1>2, AtStep DEF ControlAtStep, Treatments
<1> HIDE DEF c, d
<1>5. DepthAtStep'
  <2>1. (IF d.op = "Forward" THEN 1 ELSE 0) = 1
    BY <1>2
  <2>2. d.trav.depth = (ScanDepth(c) + Extra(d.gotNew)) - 1
    BY <1>3, <2>1, Zenon DEF Called, DepthAtCall
  <2>3. trav'.depth = (ScanDepth(Last(call')) + Extra(gotNew')) - 1
    BY <1>2, <2>2, Zenon
  <2>4. pc' \notin {"BeginField", "ScanField", "Decrement"} \cup Treatments
    BY <1>2 DEF Treatments
  <2> QED
    BY <1>2, <2>3, <2>4, Zenon DEF DepthAtStep
<1>6. ControlAtStep'
  BY <1>2, <1>3, <1>4 DEF Called, ControlAtCall, ControlAtStep, Treatments
<1>7. StackFollows(c, trav') /\ StreamFollows(c, cursor')
  BY <1>2, <1>3 DEF Called
<1> QED
  BY <1>1, <1>2, <1>3, <1>5, <1>6, <1>7, AtStep, EndCall DEF c, d, GoesOn

LEMMA ResetStep ==
  ASSUME IInv, Reset
  PROVE  IInv'
<1>1. Running /\ TypeOK'
  BY ResetType DEF Reset, IInv, Control, Running
<1> QED
  BY <1>1, FieldEndsStep DEF Reset

LEMMA PopVisitorStep ==
  ASSUME IInv, PopVisitor
  PROVE  IInv'
<1>1. Running /\ TypeOK'
  BY PopVisitorType DEF PopVisitor, IInv, Control, Running
<1>2. Last(trav.visitor_stack).depth_added > 0
  BY <1>1, InHand, AtStep DEF PopVisitor, Element
<1>3. StackFollows(Last(call), trav')
  BY <1>1, <1>2, AtStep, PoppedFollows DEF PopVisitor
<1>4. trav'.depth = trav.depth
  BY <1>1, AtStep DEF PopVisitor, Traversers
<1>5. DepthAtStep' /\ ControlAtStep'
  BY <1>1, <1>4, AtStep DEF PopVisitor, DepthAtStep, ControlAtStep, Treatments
<1> QED
  BY <1>1, <1>3, <1>5, AtStep, SameCall DEF PopVisitor, GoesOn

LEMMA AllPoppedStep ==
  ASSUME IInv, AllPopped
  PROVE  IInv'
<1>1. Running /\ TypeOK'
  BY AllPoppedType DEF AllPopped, IInv, Control, Running
<1>2. /\ pc = "PopVisitors" /\ gotNew' = FALSE
      /\ pc' = IF ~gotNew THEN "NextField"
               ELSE IF Last(call).op \in Loops THEN "Decrement" ELSE "Return"
      /\ UNCHANGED <<input, field, treatment, call, cursor, trav, rows, result>>
  BY DEF AllPopped, AfterScanField, Loops
<1>3. /\ trav.depth = (ScanDepth(Last(call)) + Extra(gotNew)) - 1
      /\ gotNew \/ Last(call).op \in Loops
      /\ treatment = "None" /\ gotNew \in BOOLEAN
  <2>1. trav.depth = (ScanDepth(Last(call)) + Extra(gotNew)) - 1
    <3>1. DepthAtStep
      BY <1>1, AtStep
    <3> QED
      BY <1>2, <3>1, Zenon DEF DepthAtStep
  <2>2. treatment = "None" /\ (gotNew \/ Last(call).op \in Loops)
    BY <1>1, <1>2, AtStep DEF ControlAtStep, Treatments
  <2>3. gotNew \in BOOLEAN
    BY <1>1, AtStep DEF TypeOK
  <2> QED
    BY <2>1, <2>2, <2>3
<1>4. DepthAtStep'
  BY <1>1, <1>2, <1>3, AtStep DEF DepthAtStep, ScanDepth, Extra, Treatments
<1>5. ControlAtStep'
  BY <1>2, <1>3 DEF ControlAtStep, Treatments
<1> QED
  BY <1>1, <1>2, <1>4, <1>5, AtStep, SameCall DEF GoesOn

-----------------------------------------------------------------------------
(* The theorems *)

LEMMA Initial ==
  ASSUME Init
  PROVE  IInv
<1>1. input \in Inputs /\ Len(Stream) \in Nat
  BY InputsAssumption, LenProperties DEF Init, Stream, IsChain
<1>2. TypeOK
  <2>1. /\ sel \in [DOMAIN input.visitors -> Selectors]
        /\ scope \in [DOMAIN input.visitors -> Scopes]
        /\ entry \in [DOMAIN input.visitors -> Entries]
    BY <1>1, InitialVisitorState DEF Init
  <2>2. cursor \in Cursors
    <3>1. cursor = [pos |-> 0, limit |-> Len(Stream), budget |-> RecursionLimit]
      BY DEF Init, Stream
    <3>2. cursor.pos = 0 /\ cursor.limit = Len(Stream)
      BY <3>1
    <3>3. cursor \in [pos : Nat, limit : Nat, budget : Nat]
      BY <1>1, <3>1, RecursionLimitAssumption
    <3> QED
      BY <1>1, <3>2, <3>3 DEF Cursors
  <2>3. trav \in Traversers
    BY EmptySeq DEF Init, Traversers
  <2>4. field \in FieldInfo
    BY <1>1, InitialVisitorState DEF Init
  <2> QED
    BY <2>1, <2>2, <2>3, <2>4, EmptySeq DEF Init, TypeOK
<1>3. Control
  BY DEF Init, Control, ControlAtStep, Running, Treatments
<1> QED
  BY <1>1, <1>2, <1>3
     DEF Init, IInv, StacksDisjoint, DepthCountsOpenFields, ReadsOwnBytes, Running

LEMMA Inductive ==
  ASSUME IInv, [Next]_vars
  PROVE  IInv'
<1>1. CASE Next
  <2>1. CASE Returned
    <3>1. TypeOK'
      BY TypeStep
    <3> QED
      BY <2>1, <3>1, EndOfRun DEF Returned, vars, IInv, Control
  <2> QED
    BY <1>1, <2>1, RunStep, RunReturnsStep, ReadFieldStep, ReadPackedElementStep,
       EndOfMessageStep, BeginFieldStep, BeginMessageStep, ReadPrimitiveStep,
       ReadLengthDelimitedFieldStep, SkipStep, ReadContentsStep, ScanMessageStep,
       ReadPackedStep, DecrementDepthStep, EndFieldStep, ForwardReturnsStep, ResetStep,
       PopVisitorStep, AllPoppedStep DEF Next
<1>2. CASE UNCHANGED vars
  <2>1. TypeOK'
    BY TypeStep
  <2>2. CASE Running
    <3>1. /\ DepthAtStep' /\ ControlAtStep'
      BY <1>2, <2>2, AtStep DEF vars, DepthAtStep, ControlAtStep
    <3> QED
      BY <1>2, <2>1, <2>2, <3>1, AtStep, SameCall DEF vars, Running, GoesOn, IInv, Control
  <2>3. CASE result # "running"
    BY <1>2, <2>1, <2>3, EndOfRun DEF vars, IInv, Control
  <2>4. CASE pc = "Run"
    BY <1>2, <2>1, <2>4 DEF vars, IInv, Control, ControlAtStep, StacksDisjoint,
       DepthCountsOpenFields, ReadsOwnBytes, Running
  <2> QED
    BY <2>2, <2>3, <2>4 DEF Running
<1> QED
  BY <1>1, <1>2

LEMMA Invariance == Spec => []IInv
<1>1. Init => IInv
  BY Initial
<1>2. IInv /\ [Next]_vars => IInv'
  BY Inductive
<1> QED
  BY <1>1, <1>2, PTL DEF Spec

\* The types of TypeOK, and with them: no read passes the limit of the
\* enclosing field or the end of the column, whatever bytes it holds.
THEOREM TypeCorrect == Spec => []TypeOK
<1>1. IInv => TypeOK
  BY DEF IInv
<1> QED
  BY <1>1, Invariance, PTL

\* No visitor is ever in use by two traversers, however entries of maps nest.
THEOREM VisitorsNotShared == Spec => []StacksDisjoint
<1>1. IInv => StacksDisjoint
  BY DEF IInv
<1> QED
  BY <1>1, Invariance, PTL

\* BeginField and EndField are balanced, across visitors and nested calls.
THEOREM DepthIsBalanced == Spec => []DepthCountsOpenFields
<1>1. IInv => DepthCountsOpenFields
  BY DEF IInv
<1> QED
  BY <1>1, Invariance, PTL

\* Every loop keeps to the limit of its own message or packed field and never
\* reads backwards, and every stream has the recursion budget it started with
\* but for the messages that are being scanned.
THEOREM NestedReadsStayWithin == Spec => []ReadsOwnBytes
<1>1. IInv => ReadsOwnBytes
  BY DEF IInv
<1> QED
  BY <1>1, Invariance, PTL

-----------------------------------------------------------------------------
(* What a run promises of any column: QuerySpec without a selection that    *)
(* the rows are to be compared with.                                       *)

Promise == INSTANCE QuerySpec WITH selection <- <<>>, damage <- "any"

NoLimits == \A q \in Inputs : IsUnlimited(q.visitors)

Ends == result' \in {"ok", "BadProto", "RecursionDepthExceeded"} /\ UNCHANGED rows
Emits == (\E row : rows' = Append(rows, row)) /\ UNCHANGED result

LEMMA StepPromised ==
  ASSUME IInv, result = "running", UNCHANGED <<rows, result>> \/ Ends \/ Emits
  PROVE  [Promise!Next]_(Promise!vars)
<1>1. CASE UNCHANGED <<rows, result>>
  BY <1>1 DEF Promise!vars
<1>2. CASE Ends
  <2>1. CASE result' = "ok"
    <3>1. Promise!Finish
      BY <1>2, <2>1 DEF Ends, Promise!Finish
    <3> QED
      BY <3>1 DEF Promise!Next
  <2>2. CASE result' # "ok"
    <3>1. Promise!Reject
      BY <1>2, <2>2 DEF Ends, Promise!Reject
    <3> QED
      BY <3>1 DEF Promise!Next
  <2> QED
    BY <2>1, <2>2
<1>3. CASE Emits
  <2>1. PICK row : rows' = Append(rows, row)
    BY <1>3 DEF Emits
  <2>2. PICK S : rows \in Seq(S) /\ row \in S
    <3>1. rows \in Seq(Seq(Nat) \cup {row}) /\ row \in Seq(Nat) \cup {row}
      BY DEF IInv, TypeOK
    <3> QED
      BY <3>1
  <2>3. PICK s, t : s = rows /\ t = rows'
    OBVIOUS
  <2>4. /\ s \in Seq(S) /\ t \in Seq(S) /\ Len(t) = Len(s) + 1
        /\ \A i \in 1 .. Len(s) : t[i] = s[i]
    BY <2>1, <2>2, <2>3, AppendProperties
  <2>5. PICK n \in Nat : n = Len(s)
    BY <2>4, LenProperties
  <2>6. /\ SubSeq(t, 1, n) \in Seq(S) /\ Len(SubSeq(t, 1, n)) = n
        /\ \A i \in 1 .. n : SubSeq(t, 1, n)[i] = t[i]
    <3>1. \A i \in 1 .. n : t[i] \in S
      BY <2>4, <2>5, ElementOfSeq
    <3>2. /\ SubSeq(t, 1, n) \in Seq(S)
          /\ Len(SubSeq(t, 1, n)) = IF 1 <= n THEN n - 1 + 1 ELSE 0
          /\ \A i \in 1 .. n - 1 + 1 : SubSeq(t, 1, n)[i] = t[1 + i - 1]
      BY <3>1, SubSeqProperties
    <3> QED
      BY <3>2
  <2>7. s = SubSeq(t, 1, n)
    BY <2>4, <2>5, <2>6, SeqEqual
  <2>8. Len(rows') = Len(rows) + 1 /\ rows = SubSeq(rows', 1, Len(rows))
    BY <2>3, <2>4, <2>5, <2>7
  <2>9. Promise!Emit
    BY <1>3, <2>8 DEF Emits, Promise!Emit
  <2> QED
    BY <2>9 DEF Promise!Next
<1> QED
  BY <1>1, <1>2, <1>3

\* Only an emitter emits, and it has no limit to end the run with.
LEMMA EmitStrEmits ==
  ASSUME NoLimits, IInv, Running, Kind = "Emitter", NEW row, NEW next, EmitStr(row, next)
  PROVE  Emits
<1>1. visitor \in DOMAIN input.visitors /\ input \in Inputs
  BY InHand DEF IInv
<1>2. This.limit = {}
  BY <1>1 DEF NoLimits, IsUnlimited, Kind, This
<1> QED
  BY <1>2 DEF EmitStr, Emits

LEMMA NextPromised ==
  ASSUME NoLimits, IInv, [Next]_vars
  PROVE  [Promise!Next]_(Promise!vars)
<1>1. CASE UNCHANGED <<rows, result>>
  BY <1>1 DEF Promise!vars
<1>2. CASE ~UNCHANGED <<rows, result>>
  <2>1. \/ RunReturns \/ ReadField \/ ReadPackedElement \/ ReadPrimitive \/ ReadContents \/ ScanMessage
    BY <1>2 DEF Next, vars, Run, EndOfMessage, BeginField, BeginMessage, ReadLengthDelimitedField,
       Skip, ReadPacked, DecrementDepth, EndField, ForwardReturns, Reset, PopVisitor, AllPopped, Returned
  <2>2. Running /\ result = "running"
    BY <2>1 DEF IInv, Control, Running, RunReturns, ReadField, ReadPackedElement, ReadPrimitive,
       ReadContents, ScanMessage
  <2>3. \A e \in {"BadProto", "RecursionDepthExceeded"} : Throw(e) => Ends
    BY DEF Throw, Ends
  <2> SUFFICES Ends \/ Emits
    BY <2>2, StepPromised
  <2>4. CASE RunReturns
    BY <2>4 DEF RunReturns, Ends
  <2>5. CASE ReadField \/ ReadPackedElement
    <3>1. ASSUME NEW number, NEW wt, NEW p, ReadFieldValueOrSize(number, wt, p)
          PROVE  Throw("BadProto")
      <4>1. CASE ValueLength(wt, p) = 0
        BY <3>1, <4>1 DEF ReadFieldValueOrSize
      <4>2. CASE ValueLength(wt, p) # 0
        BY <1>2, <3>1, <4>2 DEF ReadFieldValueOrSize
      <4> QED
        BY <4>1, <4>2
    <3>2. CASE ReadPackedElement
      <4>1. ReadFieldValueOrSize(Last(call).field.number, Last(call).field.wire_type, cursor.pos)
        BY <3>2 DEF ReadPackedElement
      <4> QED
        BY <2>3, <3>1, <4>1
    <3>3. CASE ReadField
      <4>1. PICK n, tag :
              Throw("BadProto") \/ ReadFieldValueOrSize(tag \div 8, tag % 8, cursor.pos + n)
        BY <3>3 DEF ReadField
      <4> QED
        BY <2>3, <3>1, <4>1
    <3> QED
      BY <2>5, <3>2, <3>3
  <2>6. CASE ReadPrimitive
    <3>1. CASE Kind = "Emitter" /\ This.ty \in {"string", "bytes"}
      BY <2>3, <2>6, <3>1 DEF ReadPrimitive
    <3>2. CASE ~(Kind = "Emitter" /\ This.ty \in {"string", "bytes"})
      <4>1. Kind = "Emitter" /\ EmitStr(field.value, AfterScanField)
        BY <1>2, <2>6, <3>2 DEF ReadPrimitive
      <4> QED
        BY <2>2, <4>1, EmitStrEmits
    <3> QED
      BY <3>1, <3>2
  <2>7. CASE ReadContents
    <3>1. CASE Throw("BadProto")
      BY <2>3, <3>1
    <3>2. CASE ~Throw("BadProto")
      <4>1. PICK row, next : Kind = "Emitter" /\ EmitStr(row, next)
        BY <1>2, <2>7, <3>2 DEF ReadContents
      <4> QED
        BY <2>2, <4>1, EmitStrEmits
    <3> QED
      BY <3>1, <3>2
  <2>8. CASE ScanMessage
    BY <1>2, <2>3, <2>8 DEF ScanMessage
  <2> QED
    BY <2>1, <2>4, <2>5, <2>6, <2>7, <2>8
<1> QED
  BY <1>1, <1>2

\* Whatever a column holds: the rows are emitted one by one and none is taken
\* back, by no way of ending the run either, and a run that has ended has ended.
THEOREM RunsKeepTheirRows ==
  ASSUME NoLimits
  PROVE  Spec => Promise!Spec
<1>1. Init => Promise!Init
  BY DEF Init, Promise!Init
<1>2. IInv /\ [Next]_vars => [Promise!Next]_(Promise!vars)
  BY NextPromised
<1> QED
  BY <1>1, <1>2, Invariance, PTL DEF Spec, Promise!Spec

-----------------------------------------------------------------------------
(* The recursion is bounded, whatever the column holds.                    *)
(*                                                                         *)
(* Every call takes something away that its callers have not got back yet: *)
(* ScanMessage one of the recursion budget of its stream, ReadPacked the   *)
(* chance of any call but that of ForwardBufferedValue, and the latter the *)
(* visitors of the chain up to its MapFilter.  Nested says so of all calls *)
(* and PackedAtStep of the elements of a packed field.                     *)

\* What is left of the recursion budget in a call.
Budget(caller) ==
  IF caller.op \in Loops THEN caller.cursor.budget - (IF caller.op = "Message" THEN 1 ELSE 0)
  ELSE RecursionLimit

\* The visitor at the bottom of the stack of a call's traverser.
FirstVisitor(caller) ==
  IF caller.op = "Run" THEN 1
  ELSE IF caller.op = "Forward" THEN Forwarder(caller) + 1
  ELSE caller.trav.visitor_stack[1].visitor

IsCall(c) ==
  /\ Budget(c) \in 0 .. RecursionLimit
  /\ FirstVisitor(c) \in Nat
  /\ c.op = "Forward" => Forwarder(c) \in Nat
  /\ c.op = "Packed" => c.field.wire_type # 2

OneIfPacked(c) == IF c.op = "Packed" THEN 1 ELSE 0

\* How call j of calls stands to call i.
Within(calls, i, j) ==
  /\ (\A k \in i + 1 .. j : calls[k].op # "Forward") =>
       (j - i) + Budget(calls[j]) <= Budget(calls[i]) + OneIfPacked(calls[j])
  /\ FirstVisitor(calls[i]) <= FirstVisitor(calls[j])
  /\ calls[i].op = "Forward" /\ calls[j].op = "Forward" => Forwarder(calls[i]) < Forwarder(calls[j])

Nested(calls) ==
  /\ \A i \in 1 .. Len(calls) : IsCall(calls[i])
  /\ \A i, j \in 1 .. Len(calls) : i < j => Within(calls, i, j)
  /\ \A i \in 1 .. Len(calls) - 1 : calls[i].op = "Packed" => calls[i + 1].op = "Forward"

\* An element of a packed field is read by ReadPrimitive, without a treatment.
PackedAtStep ==
  Last(call).op = "Packed" =>
    /\ treatment = "None"
    /\ pc \notin Treatments
    /\ pc \in {"BeginField", "ScanField"} => field.wire_type # 2

RInv == IInv /\ (Running => PackedAtStep /\ Nested(call))

-----------------------------------------------------------------------------
(* The nesting of calls *)

LEMMA NestedFront ==
  ASSUME NEW calls \in Seq(Frames), Len(calls) > 1, Nested(calls)
  PROVE  Nested(Front(calls))
<1>1. calls # <<>> /\ Len(calls) \in Nat \ {0}
  BY LenProperties
<1>2. Len(Front(calls)) = Len(calls) - 1 /\ \A i \in 1 .. Len(calls) - 1 : Front(calls)[i] = calls[i]
  BY <1>1, FrontLast
<1>3. PICK s : s = Front(calls)
  OBVIOUS
<1>4. PICK n \in Nat : Len(s) = n /\ Len(calls) = n + 1
  <2>1. PICK m \in Nat : m = Len(calls) /\ m > 1
    BY <1>1
  <2>2. m - 1 \in Nat /\ m = (m - 1) + 1 /\ Len(s) = m - 1
    BY <1>2, <1>3, <2>1
  <2> QED
    BY <2>1, <2>2
<1>5. \A i \in 1 .. n : i \in 1 .. Len(calls) /\ s[i] = calls[i]
  BY <1>2, <1>3, <1>4
<1>6. \A i \in 1 .. n : IsCall(s[i])
  BY <1>5 DEF Nested
<1>7. ASSUME NEW i \in 1 .. n, NEW j \in 1 .. n, i < j
      PROVE  Within(s, i, j)
  <2>1. Within(calls, i, j) /\ s[i] = calls[i] /\ s[j] = calls[j]
    BY <1>5, <1>7 DEF Nested
  <2>2. \A k \in i + 1 .. j : s[k] = calls[k]
    BY <1>5
  <2> QED
    BY <2>1, <2>2 DEF Within
<1>8. \A i \in 1 .. n - 1 : s[i].op = "Packed" => s[i + 1].op = "Forward"
  <2> TAKE i \in 1 .. n - 1
  <2>1. i \in 1 .. Len(calls) - 1 /\ i \in 1 .. n /\ i + 1 \in 1 .. n
    BY <1>4
  <2> QED
    BY <1>5, <2>1 DEF Nested
<1> QED
  BY <1>3, <1>4, <1>6, <1>7, <1>8 DEF Nested

\* How a call that is made stands to the one that makes it.
Takes(caller, called) ==
  /\ caller.op = "Packed" => called.op = "Forward"
  /\ called.op # "Forward" =>
       Budget(called) = Budget(caller) - (IF called.op = "Message" THEN 1 ELSE 0)
  /\ FirstVisitor(caller) <= FirstVisitor(called)
  /\ called.op = "Forward" => FirstVisitor(caller) <= Forwarder(called)

LEMMA NestedAppend ==
  ASSUME NEW calls \in Seq(Frames), calls # <<>>, Nested(calls),
         NEW f \in Frames, f.op # "Run", IsCall(f), Takes(Last(calls), f)
  PROVE  Nested(Append(calls, f))
<1>1. PICK s : s = Append(calls, f)
  OBVIOUS
<1>2. PICK n \in Nat \ {0} : Len(calls) = n
  BY FrontLast
<1>3. Len(s) = n + 1 /\ s[n + 1] = f /\ \A i \in 1 .. n : s[i] = calls[i]
  BY <1>1, <1>2, AppendProperties
<1>4. Last(calls) = calls[n] /\ s[n] = calls[n]
  BY <1>2, <1>3 DEF Last
<1>5. PICK g : g = calls[n]
  OBVIOUS
<1>6. Takes(g, f) /\ IsCall(g)
  BY <1>2, <1>4, <1>5 DEF Nested
<1>7. \A i \in 1 .. n + 1 : IsCall(s[i])
  <2> TAKE i \in 1 .. n + 1
  <2>1. i \in 1 .. n \/ i = n + 1
    OBVIOUS
  <2> QED
    BY <1>2, <1>3, <2>1 DEF Nested
<1>8. ASSUME NEW i \in 1 .. n
      PROVE  Within(s, i, n + 1)
  <2>1. s[i] = calls[i] /\ IsCall(s[i])
    BY <1>2, <1>3, <1>8 DEF Nested
  <2>2. PICK e : e = s[i]
    OBVIOUS
  <2>3. IsCall(e) /\ IsCall(f)
    BY <2>1, <2>2
  <2>4. /\ Budget(e) \in Int /\ Budget(f) \in Int /\ Budget(g) \in Int
        /\ FirstVisitor(e) \in Nat /\ FirstVisitor(f) \in Nat /\ FirstVisitor(g) \in Nat
    BY <1>6, <2>3, RecursionLimitAssumption DEF IsCall
  <2>5. i = n => e = g
    BY <1>5, <2>1, <2>2
  <2>6. i # n => Within(calls, i, n) /\ calls[i] = e
    BY <1>2, <2>1, <2>2 DEF Nested
  <2>7. FirstVisitor(e) <= FirstVisitor(g)
    BY <1>5, <2>4, <2>5, <2>6 DEF Within
  <2>8. FirstVisitor(e) <= FirstVisitor(f)
    BY <1>6, <2>4, <2>7 DEF Takes
  <2>9. e.op = "Forward" /\ f.op = "Forward" => Forwarder(e) < Forwarder(f)
    <3> SUFFICES ASSUME e.op = "Forward", f.op = "Forward" PROVE Forwarder(e) < Forwarder(f)
      OBVIOUS
    <3>1. Forwarder(e) \in Nat /\ Forwarder(f) \in Nat /\ FirstVisitor(e) = Forwarder(e) + 1
      BY <2>3 DEF IsCall, FirstVisitor
    <3>2. FirstVisitor(g) <= Forwarder(f)
      BY <1>6 DEF Takes
    <3> QED
      BY <2>4, <2>7, <3>1, <3>2
  <2>10. (\A k \in i + 1 .. n + 1 : s[k].op # "Forward") =>
           ((n + 1) - i) + Budget(f) <= Budget(e) + OneIfPacked(f)
    <3> SUFFICES ASSUME \A k \in i + 1 .. n + 1 : s[k].op # "Forward"
                 PROVE  ((n + 1) - i) + Budget(f) <= Budget(e) + OneIfPacked(f)
      OBVIOUS
    <3>1. f.op # "Forward"
      BY <1>3
    <3>2. f.op \in {"Message", "Packed"} /\ g.op # "Packed"
      BY <1>6, <3>1 DEF Frames, Loops, Takes
    <3>3. Budget(f) + 1 = Budget(g) + OneIfPacked(f)
      BY <1>6, <2>4, <3>1, <3>2 DEF Takes, OneIfPacked
    <3>4. (n - i) + Budget(g) <= Budget(e)
      <4>1. CASE i = n
        BY <2>4, <2>5, <4>1
      <4>2. CASE i # n
        <5>1. \A k \in i + 1 .. n : calls[k].op # "Forward"
          BY <1>3
        <5>2. (n - i) + Budget(g) <= Budget(e) + OneIfPacked(g)
          BY <1>5, <2>6, <4>2, <5>1 DEF Within
        <5> QED
          BY <2>4, <3>2, <5>2 DEF OneIfPacked
      <4> QED
        BY <4>1, <4>2
    <3>5. OneIfPacked(f) \in Int
      BY DEF OneIfPacked
    <3> HIDE DEF OneIfPacked, Budget
    <3> QED
      BY <2>4, <3>3, <3>4, <3>5
  <2> QED
    BY <1>3, <2>2, <2>8, <2>9, <2>10 DEF Within
<1>9. ASSUME NEW i \in 1 .. n + 1, NEW j \in 1 .. n + 1, i < j
      PROVE  Within(s, i, j)
  <2>1. CASE j = n + 1
    BY <1>8, <1>9, <2>1
  <2>2. CASE j # n + 1
    <3>1. i \in 1 .. n /\ j \in 1 .. n /\ s[i] = calls[i] /\ s[j] = calls[j]
      BY <1>3, <1>9, <2>2
    <3>2. Within(calls, i, j)
      BY <1>2, <1>9, <3>1 DEF Nested
    <3>3. \A k \in i + 1 .. j : s[k] = calls[k]
      BY <1>3, <3>1
    <3> QED
      BY <3>1, <3>2, <3>3 DEF Within
  <2> QED
    BY <2>1, <2>2
<1>10. \A i \in 1 .. n : s[i].op = "Packed" => s[i + 1].op = "Forward"
  <2> TAKE i \in 1 .. n
  <2>1. CASE i = n
    BY <1>3, <1>4, <1>5, <1>6, <2>1 DEF Takes
  <2>2. CASE i # n
    <3>1. i \in 1 .. n - 1 /\ i + 1 \in 1 .. n
      BY <2>2
    <3> QED
      BY <1>2, <1>3, <3>1 DEF Nested
  <2> QED
    BY <2>1, <2>2
<1>11. (n + 1) - 1 = n
  OBVIOUS
<1> QED
  BY <1>1, <1>3, <1>7, <1>9, <1>10, <1>11 DEF Nested

-----------------------------------------------------------------------------
(* What is in hand *)

LEMMA BudgetInHand ==
  ASSUME IInv, Running
  PROVE  cursor.budget = Budget(Last(call)) /\ cursor.budget \in Nat
<1>1. StreamFollows(Last(call), cursor) /\ cursor \in Cursors
  BY AtStep
<1> QED
  BY <1>1 DEF StreamFollows, Budget, Cursors

LEMMA VisitorInHand ==
  ASSUME IInv, Running
  PROVE  /\ trav.visitor_stack[1].visitor = FirstVisitor(Last(call))
         /\ trav.visitor_stack[1].visitor \in Nat /\ visitor \in Nat
         /\ FirstVisitor(Last(call)) <= visitor
<1>1. /\ trav.visitor_stack \in Seq(Element) /\ Len(trav.visitor_stack) \in Nat \ {0}
      /\ visitor \in DOMAIN input.visitors /\ StackFollows(Last(call), trav)
      /\ Last(call) \in Frames /\ input \in Inputs
  BY InHand DEF IInv
<1>2. PICK n \in Nat \ {0} : n = Len(trav.visitor_stack)
  BY <1>1
<1>3. DOMAIN trav.visitor_stack = 1 .. n
  BY <1>1, <1>2, LenProperties
<1>4. PICK v : ChainFrom(trav, v) /\ v = FirstVisitor(Last(call))
  BY <1>1 DEF StackFollows, FirstVisitor, Forwarder, Frames, Loops
<1>5. trav.visitor_stack[1] \in Element /\ trav.visitor_stack[1].visitor = v
  BY <1>1, <1>2, <1>4, ElementOfSeq DEF ChainFrom
<1>6. v \in Nat /\ visitor \in Nat
  BY <1>1, <1>5, InputsAssumption DEF Element, IsChain
<1>7. visitor = v + n - 1
  BY <1>2, <1>3, <1>4 DEF visitor, Last, ChainFrom
<1>8. v <= v + n - 1
  BY <1>2, <1>6
<1> QED
  BY <1>4, <1>5, <1>6, <1>7, <1>8

-----------------------------------------------------------------------------
(* The steps *)

\* What is to be shown of a step, besides IInv'.
Rest == Running => PackedAtStep /\ Nested(call)

LEMMA NestedPrimed ==
  (Nested(call))' <=> Nested(call')
BY DEF Nested, Within, IsCall, Budget, FirstVisitor, Forwarder, OneIfPacked, Loops

\* The field goes on, or has ended.
LEMMA FieldGoesOn ==
  ASSUME RInv, Running, call' = call, treatment' \in {treatment, "None"},
         pc' \notin {"BeginField", "ScanField"} \cup Treatments
  PROVE  Rest'
<1>1. PackedAtStep'
  BY DEF RInv, PackedAtStep
<1>2. Nested(call')
  BY DEF RInv
<1> QED
  BY <1>1, <1>2, NestedPrimed DEF Rest

LEMMA NothingInHand ==
  ASSUME ~Running'
  PROVE  Rest'
BY DEF Rest

\* A field of a message is begun or scanned, or an element of a packed field.
LEMMA FieldInHand ==
  ASSUME RInv, Running, call' = call,
         Last(call).op = "Packed" =>
           treatment' = "None" /\ pc' \notin Treatments /\ field'.wire_type # 2
  PROVE  Rest'
<1>1. PackedAtStep'
  BY DEF PackedAtStep
<1>2. Nested(call')
  BY DEF RInv
<1> QED
  BY <1>1, <1>2, NestedPrimed DEF Rest

LEMMA CallBegins ==
  ASSUME RInv, Running, NEW f \in Frames, f.op # "Run", call' = Append(call, f),
         IsCall(f), Takes(Last(call), f), PackedAtStep'
  PROVE  Rest'
<1>1. call \in Seq(Frames) /\ call # <<>> /\ Nested(call)
  BY InHand DEF RInv
<1>2. Nested(Append(call, f))
  BY <1>1, NestedAppend
<1>3. Nested(call')
  BY <1>2
<1> QED
  BY <1>3, NestedPrimed DEF Rest

LEMMA CallEnds ==
  ASSUME RInv, Running, Last(call).op # "Run", call' = Front(call), PackedAtStep'
  PROVE  Rest'
<1>1. call \in Seq(Frames) /\ Nested(call)
  BY InHand DEF RInv
<1>2. Len(call) > 1
  BY ActivationsOf, InHand DEF Activations, RInv
<1>3. Nested(Front(call))
  BY <1>1, <1>2, NestedFront
<1>4. Nested(call')
  BY <1>3
<1> QED
  BY <1>4, NestedPrimed DEF Rest

LEMMA RunNests ==
  ASSUME IInv, Run
  PROVE  Rest'
<1>1. PICK f : f = Frame("Run", field)
  OBVIOUS
<1>2. call' = <<f>> /\ f.op = "Run" /\ pc' = "ScanField"
  BY <1>1 DEF Run, Frame
<1>3. Len(<<f>>) = 1 /\ <<f>>[1] = f /\ <<f>> \in Seq({f})
  OBVIOUS
<1>4. Last(<<f>>) = f
  BY <1>3 DEF Last
<1>5. IsCall(f)
  BY <1>2, RecursionLimitAssumption DEF IsCall, Budget, FirstVisitor, Loops
<1>6. Nested(<<f>>)
  BY <1>2, <1>3, <1>5 DEF Nested
<1>7. PackedAtStep'
  BY <1>2, <1>4 DEF PackedAtStep
<1> QED
  BY <1>2, <1>6, <1>7, NestedPrimed DEF Rest

LEMMA ReadFieldNests ==
  ASSUME RInv, ReadField
  PROVE  Rest'
<1>1. Running /\ Last(call).op # "Packed"
  BY DEF ReadField, RInv, IInv, Control, Running
<1>2. CASE result' # "running"
  BY <1>2, NothingInHand DEF Running
<1>3. CASE result' = "running"
  <2>1. call' = call
    BY <1>3 DEF ReadField, ReadFieldValueOrSize, Throw
  <2> QED
    BY <1>1, <2>1, FieldInHand
<1> QED
  BY <1>2, <1>3

LEMMA ReadPackedElementNests ==
  ASSUME RInv, ReadPackedElement
  PROVE  Rest'
<1>1. Running /\ Last(call).op = "Packed" /\ treatment = "None"
  BY DEF ReadPackedElement, RInv, IInv, Control, Running, PackedAtStep
<1>2. Last(call).field.wire_type # 2
  <2>1. Len(call) \in Nat \ {0} /\ Last(call) = call[Len(call)] /\ Nested(call)
    BY <1>1, InHand DEF RInv
  <2>2. IsCall(Last(call))
    BY <2>1 DEF Nested
  <2> QED
    BY <1>1, <2>2 DEF IsCall
<1>3. CASE result' # "running"
  BY <1>3, NothingInHand DEF Running
<1>4. CASE result' = "running"
  <2>1. ReadFieldValueOrSize(Last(call).field.number, Last(call).field.wire_type, cursor.pos)
    BY DEF ReadPackedElement
  <2>2. result = "running" /\ "BadProto" # "running"
    BY <1>1 DEF Running
  <2>3. /\ field'.wire_type = Last(call).field.wire_type
        /\ pc' = "BeginField" /\ call' = call /\ treatment' = treatment
    BY <1>4, <2>1 DEF ReadFieldValueOrSize, Throw
  <2> QED
    BY <1>1, <1>2, <2>3, FieldInHand DEF Treatments
<1> QED
  BY <1>3, <1>4

LEMMA EndOfMessageNests ==
  ASSUME RInv, EndOfMessage
  PROVE  Rest'
<1>1. Running /\ IInv
  BY DEF EndOfMessage, RInv, IInv, Control, Running
<1>2. Last(call).op \in Loops
  BY <1>1, AtStep DEF EndOfMessage, ControlAtStep
<1>3. call' = Front(call) /\ call \in Seq(Frames) /\ Nested(call)
  BY <1>1, InHand DEF EndOfMessage, RInv
<1>4. Last(call').op # "Packed"
  <2>1. PICK n \in Nat : Len(call) = n + 1 /\ n > 0
    <3>1. PICK m \in Nat : m = Len(call) /\ m > 1
      <4>1. Len(call) > 1
        BY <1>1, <1>2, ActivationsOf, InHand DEF Activations, Loops
      <4> QED
        BY <1>1, <4>1, InHand
    <3>2. m - 1 \in Nat /\ m = (m - 1) + 1 /\ m - 1 > 0
      BY <3>1
    <3> QED
      BY <3>1, <3>2
  <2>2. Len(Front(call)) = n /\ Front(call)[n] = call[n] /\ Last(call) = call[n + 1]
    BY <1>1, <1>3, <2>1, InHand, FrontLast
  <2>3. Last(Front(call)) = call[n]
    BY <2>2 DEF Last
  <2>4. call[n].op = "Packed" => call[n + 1].op = "Forward"
    BY <1>3, <2>1 DEF Nested
  <2> QED
    BY <1>2, <1>3, <2>2, <2>3, <2>4 DEF Loops
<1>5. PackedAtStep'
  BY <1>4 DEF PackedAtStep
<1> QED
  BY <1>1, <1>2, <1>3, <1>5, CallEnds DEF Loops

LEMMA ForwardReturnsNests ==
  ASSUME RInv, ForwardReturns
  PROVE  Rest'
<1>1. Running /\ IInv /\ pc = "Return" /\ Last(call).op = "Forward"
  BY DEF ForwardReturns, RInv, IInv, Control, Running
<1>2. treatment = "None"
  BY <1>1, AtStep DEF ControlAtStep, Treatments
<1>3. call' = Front(call) /\ pc' = "Reset" /\ treatment' = treatment
  BY DEF ForwardReturns
<1>4. PackedAtStep'
  BY <1>2, <1>3 DEF PackedAtStep, Treatments
<1> QED
  BY <1>1, <1>3, <1>4, CallEnds

LEMMA BeginFieldNests ==
  ASSUME RInv, BeginField
  PROVE  Rest'
<1>1. Running /\ pc = "BeginField" /\ PackedAtStep
  BY DEF BeginField, RInv, IInv, Control, Running
<1>2. /\ pc' \in {pc, AfterBeginField}
      /\ UNCHANGED <<field, treatment, call>>
  BY DEF BeginField, FieldSelectorBeginField, MapFilterBeginField, AllMapEntriesBeginField,
     OtherBeginField, ReturnThis, ReturnNext
<1>3. Last(call).op = "Packed" => treatment = "None" /\ field.wire_type # 2
  BY <1>1 DEF PackedAtStep
<1>4. treatment = "None" => pc' \in {"BeginField", "ScanField"}
  BY <1>1, <1>2 DEF AfterBeginField
<1> QED
  BY <1>1, <1>2, <1>3, <1>4, FieldInHand DEF Treatments

LEMMA ReadLengthDelimitedFieldNests ==
  ASSUME RInv, ReadLengthDelimitedField
  PROVE  Rest'
<1>1. Running /\ Last(call).op # "Packed"
  BY DEF ReadLengthDelimitedField, RInv, IInv, Control, Running, PackedAtStep
<1>2. call' = call
  BY DEF ReadLengthDelimitedField
<1> QED
  BY <1>1, <1>2, FieldInHand

LEMMA ScanMessageNests ==
  ASSUME RInv, ScanMessage
  PROVE  Rest'
<1>1. Running /\ IInv /\ pc = "AsSubmessage" /\ Nested(call)
  BY DEF ScanMessage, RInv, IInv, Control, Running
<1>2. CASE cursor.budget = 0
  BY <1>2, NothingInHand DEF ScanMessage, Throw, Running
<1>3. CASE cursor.budget # 0
  <2>1. PICK f : f = Frame("Message", field)
    OBVIOUS
  <2>2. f \in Frames /\ f.op = "Message" /\ f.cursor = cursor /\ f.trav = trav
    BY <1>1, <2>1, AtStep, FrameType DEF Frame, TypeOK, Loops
  <2>3. call' = Append(call, f)
    BY <1>3, <2>1 DEF ScanMessage
  <2>4. Last(call).op # "Packed"
    BY <1>1 DEF RInv, PackedAtStep, Treatments
  <2>5. cursor.budget = Budget(Last(call)) /\ cursor.budget \in Nat
    BY <1>1, BudgetInHand
  <2>6. Budget(f) = cursor.budget - 1 /\ FirstVisitor(f) = trav.visitor_stack[1].visitor
    BY <2>2 DEF Budget, FirstVisitor, Loops
  <2>7. cursor.budget <= RecursionLimit
    <3>1. IsCall(Last(call))
      BY <1>1, InHand DEF Nested
    <3> QED
      BY <2>5, <3>1, RecursionLimitAssumption DEF IsCall
  <2>8. /\ FirstVisitor(f) = FirstVisitor(Last(call)) /\ FirstVisitor(f) \in Nat
    BY <1>1, <2>6, VisitorInHand
  <2>9. IsCall(f)
    <3>1. Budget(f) \in 0 .. RecursionLimit
      BY <1>3, <2>5, <2>6, <2>7, RecursionLimitAssumption
    <3> QED
      BY <2>2, <2>8, <3>1 DEF IsCall
  <2>10. Takes(Last(call), f)
    <3>1. FirstVisitor(Last(call)) <= FirstVisitor(f)
      BY <2>8
    <3>2. Budget(f) = Budget(Last(call)) - 1
      BY <2>5, <2>6
    <3> QED
      BY <2>2, <2>4, <3>1, <3>2 DEF Takes
  <2>11. Last(call') = f
    BY <1>1, <2>2, <2>3, InHand, LastAppend
  <2>12. PackedAtStep'
    BY <2>2, <2>11 DEF PackedAtStep
  <2> QED
    BY <1>1, <2>2, <2>3, <2>9, <2>10, <2>12, CallBegins
<1> QED
  BY <1>2, <1>3

LEMMA ReadPackedNests ==
  ASSUME RInv, ReadPacked
  PROVE  Rest'
<1>1. Running /\ IInv /\ pc \in Treatments /\ Nested(call)
  BY DEF ReadPacked, RInv, IInv, Control, Running, Treatments
<1>2. PICK h \in FieldInfo : h = [field EXCEPT !.wire_type = PackedWireType(pc)] /\ h.wire_type # 2
  <2>1. field \in FieldInfo /\ PackedWireType(pc) \in 0 .. 7 /\ PackedWireType(pc) # 2
    BY <1>1, AtStep DEF TypeOK, PackedWireType
  <2> DEFINE g == [field EXCEPT !.wire_type = PackedWireType(pc)]
  <2>2. g \in FieldInfo /\ g.wire_type # 2
    BY <2>1 DEF FieldInfo
  <2> QED
    BY <2>2
<1>3. PICK f : f = Frame("Packed", h)
  OBVIOUS
<1>4. f \in Frames /\ f.op = "Packed" /\ f.cursor = cursor /\ f.trav = trav /\ f.field = h
  BY <1>1, <1>3, AtStep, FrameType DEF Frame, Loops
<1>5. call' = Append(call, f) /\ pc' = "NextField" /\ treatment' = "None"
  BY <1>2, <1>3 DEF ReadPacked
<1>6. Last(call).op # "Packed"
  BY <1>1 DEF RInv, PackedAtStep
<1>7. cursor.budget = Budget(Last(call)) /\ cursor.budget \in Nat
  BY <1>1, BudgetInHand
<1>8. Budget(f) = cursor.budget /\ FirstVisitor(f) = trav.visitor_stack[1].visitor
  BY <1>4, <1>7 DEF Budget, FirstVisitor, Loops
<1>9. IsCall(Last(call))
  BY <1>1, InHand DEF Nested
<1>10. FirstVisitor(f) = FirstVisitor(Last(call)) /\ FirstVisitor(f) \in Nat
  BY <1>1, <1>8, VisitorInHand
<1>11. IsCall(f)
  BY <1>2, <1>4, <1>7, <1>8, <1>9, <1>10 DEF IsCall
<1>12. Takes(Last(call), f)
  <2>1. FirstVisitor(Last(call)) <= FirstVisitor(f)
    BY <1>10
  <2>2. Budget(f) = Budget(Last(call)) - 0
    BY <1>7, <1>8
  <2> QED
    BY <1>4, <1>6, <2>1, <2>2 DEF Takes
<1>13. Last(call') = f
  BY <1>1, <1>4, <1>5, InHand, LastAppend
<1>14. PackedAtStep'
  BY <1>5, <1>13 DEF PackedAtStep, Treatments
<1> QED
  BY <1>1, <1>4, <1>5, <1>11, <1>12, <1>14, CallBegins

LEMMA EndFieldNests ==
  ASSUME RInv, EndField
  PROVE  Rest'
<1>1. Running /\ IInv /\ Nested(call)
  BY DEF EndField, RInv, IInv, Control, Running
<1>2. CASE MapFilterEndEntry /\ KeyMatches
  <2>1. PICK f : f = Frame("Forward", field)
    OBVIOUS
  <2>2. f \in Frames /\ f.op = "Forward" /\ f.trav = trav
    BY <1>1, <2>1, AtStep, FrameType DEF Frame, TypeOK
  <2>3. call' = Append(call, f)
    BY <1>2, <2>1 DEF MapFilterEndEntry
  <2>4. Forwarder(f) = visitor /\ FirstVisitor(f) = visitor + 1
    BY <2>2 DEF Forwarder, FirstVisitor, visitor
  <2>5. visitor \in Nat /\ FirstVisitor(Last(call)) <= visitor /\ FirstVisitor(Last(call)) \in Nat
    BY <1>1, VisitorInHand
  <2>6. IsCall(f)
    BY <2>2, <2>4, <2>5, RecursionLimitAssumption DEF IsCall, Budget, Loops
  <2>7. Takes(Last(call), f)
    BY <2>2, <2>4, <2>5 DEF Takes
  <2>8. Last(call') = f
    BY <1>1, <2>2, <2>3, InHand, LastAppend
  <2>9. PackedAtStep'
    BY <2>2, <2>8 DEF PackedAtStep
  <2> QED
    BY <1>1, <2>2, <2>3, <2>6, <2>7, <2>9, CallBegins
<1>3. CASE ~(MapFilterEndEntry /\ KeyMatches)
  <2>1. pc' \in {"PopVisitors", "Reset"} /\ UNCHANGED <<treatment, call>>
    BY <1>3 DEF EndField, FieldSelectorEndField, MapFilterEndField, MapFilterEndEntry,
       AllMapEntriesEndField, OtherEndField
  <2> QED
    BY <1>1, <2>1, FieldGoesOn DEF Treatments
<1> QED
  BY <1>2, <1>3

\* Actions that leave the calls alone and end a step of the field.
LEMMA OtherNests ==
  ASSUME RInv,
         \/ RunReturns \/ BeginMessage \/ ReadPrimitive \/ Skip \/ ReadContents
         \/ DecrementDepth \/ Reset \/ PopVisitor \/ AllPopped
  PROVE  Rest'
<1>1. Running
  BY DEF RInv, IInv, Control, Running, RunReturns, BeginMessage, ReadPrimitive, Skip, ReadContents,
     DecrementDepth, Reset, PopVisitor, AllPopped
<1>2. call' = call /\ treatment' \in {treatment, "None"}
  BY DEF RunReturns, BeginMessage, ReadPrimitive, Skip, ReadContents,
     DecrementDepth, Reset, PopVisitor, AllPopped, Throw, EmitStr
<1>3. AfterScanField \in {"Decrement", "Return"} /\ AfterTreatment \in {"Decrement", "Return"}
  BY DEF AfterScanField, AfterTreatment
<1>4. pc' \notin {"BeginField", "ScanField"} \cup Treatments
  <2>1. CASE RunReturns \/ DecrementDepth \/ Reset \/ PopVisitor
    BY <2>1 DEF RunReturns, DecrementDepth, Reset, PopVisitor, Treatments
  <2>2. CASE BeginMessage
    BY <2>2 DEF BeginMessage, ReturnThis, ReturnNext, Treatments
  <2>3. CASE ReadPrimitive \/ Skip \/ ReadContents
    <3>1. pc' \in {AfterScanField, AfterTreatment, "Done"}
      BY <2>3 DEF ReadPrimitive, Skip, ReadContents, Throw, EmitStr
    <3> QED
      BY <1>3, <3>1 DEF Treatments
  <2>4. CASE AllPopped
    <3>1. pc' \in {AfterScanField, "NextField"}
      BY <2>4 DEF AllPopped
    <3> QED
      BY <1>3, <3>1 DEF Treatments
  <2> QED
    BY <2>1, <2>2, <2>3, <2>4
<1> QED
  BY <1>1, <1>2, <1>4, FieldGoesOn

-----------------------------------------------------------------------------
(* The theorem *)

LEMMA RecursionInductive ==
  ASSUME RInv, [Next]_vars
  PROVE  RInv'
<1>1. IInv'
  BY Inductive DEF RInv
<1>2. Rest'
  <2>1. CASE Returned
    BY <2>1, NothingInHand DEF Returned, RInv, IInv, Control, Running, vars
  <2>2. CASE UNCHANGED vars
    <3>1. CASE Running
      <4>1. PackedAtStep'
        BY <2>2, <3>1 DEF vars, RInv, PackedAtStep
      <4>2. Nested(call')
        BY <2>2, <3>1 DEF vars, RInv
      <4> QED
        BY <4>1, <4>2, NestedPrimed DEF Rest
    <3>2. CASE ~Running
      BY <2>2, <3>2, NothingInHand DEF Running, vars
    <3> QED
      BY <3>1, <3>2
  <2>3. CASE Next /\ ~Returned
    BY <2>3, RunNests, ReadFieldNests, ReadPackedElementNests, EndOfMessageNests, BeginFieldNests,
       ReadLengthDelimitedFieldNests, ScanMessageNests, ReadPackedNests, EndFieldNests,
       ForwardReturnsNests, OtherNests DEF Next, RInv
  <2> QED
    BY <2>1, <2>2, <2>3
<1> QED
  BY <1>1, <1>2 DEF RInv, Rest

\* The calls in hand stay within the bound.
LEMMA NestedIsBounded ==
  ASSUME RInv
  PROVE  RecursionIsBounded
<1> SUFFICES ASSUME Running, NEW i \in DOMAIN call, NEW j \in DOMAIN call, i < j
             PROVE  /\ (\A k \in i + 1 .. j : call[k].op # "Forward") =>
                         j - i <= RecursionLimit + (IF call[j].op = "Packed" THEN 1 ELSE 0)
                    /\ call[i].op = "Forward" /\ call[j].op = "Forward" =>
                         Forwarder(call[i]) < Forwarder(call[j])
  BY DEF RecursionIsBounded
<1>1. Nested(call) /\ DOMAIN call = 1 .. Len(call) /\ Len(call) \in Nat
  BY InHand, LenProperties DEF RInv
<1>2. IsCall(call[i]) /\ IsCall(call[j]) /\ Within(call, i, j)
  BY <1>1 DEF Nested
<1>3. PICK b \in 0 .. RecursionLimit, c \in 0 .. RecursionLimit, p \in {0, 1} :
        b = Budget(call[i]) /\ c = Budget(call[j]) /\ p = (IF call[j].op = "Packed" THEN 1 ELSE 0)
  BY <1>2 DEF IsCall
<1>4. (\A k \in i + 1 .. j : call[k].op # "Forward") => (j - i) + c <= b + p
  BY <1>2, <1>3 DEF Within, OneIfPacked
<1>5. (j - i) + c <= b + p => j - i <= RecursionLimit + p
  BY <1>1, <1>3, RecursionLimitAssumption
<1> QED
  BY <1>2, <1>3, <1>4, <1>5 DEF Within

\* However messages, packed fields and map values are nested in a column: the
\* calls that scan them nest no deeper than the recursion budget of each stream
\* and the visitors of the query allow.
THEOREM RecursionEnds == Spec => []RecursionIsBounded
<1>1. Init => RInv
  BY Initial DEF RInv, Init, Running
<1>2. RInv /\ [Next]_vars => RInv'
  BY RecursionInductive
<1>3. RInv => RecursionIsBounded
  BY NestedIsBounded
<1> QED
  BY <1>1, <1>2, <1>3, PTL DEF Spec

-----------------------------------------------------------------------------
(* The measure of StepsMoveOn: tuples of five numbers *)

Tuples == [1 .. 5 -> Nat]

LEMMA TupleIsFunction ==
  ASSUME NEW x1 \in Nat, NEW x2 \in Nat, NEW x3 \in Nat, NEW x4 \in Nat, NEW x5 \in Nat
  PROVE  <<x1, x2, x3, x4, x5>> \in Tuples
<1> DEFINE t == <<x1, x2, x3, x4, x5>>
<1>1. t \in Seq(Nat) /\ Len(t) = 5
  OBVIOUS
<1>2. t = [i \in 1 .. 5 |-> t[i]] /\ \A i \in 1 .. 5 : t[i] \in Nat
  BY <1>1
<1> QED
  BY <1>2 DEF Tuples

\* Later is lower than earlier.
LEMMA LowerTuple ==
  ASSUME NEW x1 \in Nat, NEW x2 \in Nat, NEW x3 \in Nat, NEW x4 \in Nat, NEW x5 \in Nat,
         NEW y1 \in Nat, NEW y2 \in Nat, NEW y3 \in Nat, NEW y4 \in Nat, NEW y5 \in Nat,
         \/ x1 < y1
         \/ x1 = y1 /\ x2 < y2
         \/ x1 = y1 /\ x2 = y2 /\ x3 < y3
         \/ x1 = y1 /\ x2 = y2 /\ x3 = y3 /\ x4 < y4
         \/ x1 = y1 /\ x2 = y2 /\ x3 = y3 /\ x4 = y4 /\ x5 < y5
  PROVE  Lower(<<x1, x2, x3, x4, x5>>, <<y1, y2, y3, y4, y5>>)
<1> DEFINE x == <<x1, x2, x3, x4, x5>>
           y == <<y1, y2, y3, y4, y5>>
<1>1. /\ x[1] = x1 /\ x[2] = x2 /\ x[3] = x3 /\ x[4] = x4 /\ x[5] = x5
      /\ y[1] = y1 /\ y[2] = y2 /\ y[3] = y3 /\ y[4] = y4 /\ y[5] = y5
  OBVIOUS
<1>2. PICK k \in 1 .. 5 : x[k] < y[k] /\ \A j \in 1 .. k - 1 : x[j] = y[j]
  <2> HIDE DEF x, y
  <2>1. CASE x1 < y1
    <3>1. x[1] < y[1] /\ \A j \in 1 .. 1 - 1 : x[j] = y[j]
      BY <1>1, <2>1
    <3> QED
      BY <3>1
  <2>2. CASE x1 = y1 /\ x2 < y2
    <3>1. x[2] < y[2] /\ \A j \in 1 .. 2 - 1 : x[j] = y[j]
      BY <1>1, <2>2
    <3> QED
      BY <3>1
  <2>3. CASE x1 = y1 /\ x2 = y2 /\ x3 < y3
    <3>1. x[3] < y[3] /\ \A j \in 1 .. 3 - 1 : x[j] = y[j]
      BY <1>1, <2>3
    <3> QED
      BY <3>1
  <2>4. CASE x1 = y1 /\ x2 = y2 /\ x3 = y3 /\ x4 < y4
    <3>1. x[4] < y[4] /\ \A j \in 1 .. 4 - 1 : x[j] = y[j]
      BY <1>1, <2>4
    <3> QED
      BY <3>1
  <2>5. CASE x1 = y1 /\ x2 = y2 /\ x3 = y3 /\ x4 = y4 /\ x5 < y5
    <3>1. x[5] < y[5] /\ \A j \in 1 .. 5 - 1 : x[j] = y[j]
      BY <1>1, <2>5
    <3> QED
      BY <3>1
  <2> QED
    BY <2>1, <2>2, <2>3, <2>4, <2>5
<1> HIDE DEF x, y
<1>3. Lower(x, y)
  BY <1>2 DEF Lower
<1> QED
  BY <1>3 DEF x, y

-----------------------------------------------------------------------------
(* The order is well-founded *)

LessThan == {pair \in Nat \X Nat : pair[1] < pair[2]}

LEMMA NatIsWellFounded == IsWellFoundedOn(LessThan, Nat)
<1>1. PICK R : R = OpToRel(<, Nat)
  BY Zenon
<1>2. IsWellFoundedOn(R, Nat)
  BY <1>1, NatLessThanWellFounded, Zenon
<1>3. ASSUME NEW x \in Nat, NEW y \in Nat, x < y
      PROVE  <<x, y>> \in R
  <2>1. <<x, y>> \in OpToRel(<, Nat)
    BY <1>3, Zenon DEF OpToRel
  <2> QED
    BY <1>1, <2>1, Zenon
<1>4. LessThan \subseteq R
  BY <1>3 DEF LessThan
<1> QED
  BY <1>2, <1>4, IsWellFoundedOnSubrelation

LowerTuples == {pair \in Tuples \X Tuples : Lower(pair[1], pair[2])}

LEMMA TuplesAreWellFounded == IsWellFoundedOn(LowerTuples, Tuples)
<1>1. IsWellFoundedOn(LexProductOrdering(LessThan, Nat, 5), [1 .. 5 -> Nat])
  BY NatIsWellFounded, WFLexProductOrdering
<1>2. LowerTuples \subseteq LexProductOrdering(LessThan, Nat, 5)
  <2> SUFFICES ASSUME NEW x \in Tuples, NEW y \in Tuples, Lower(x, y)
               PROVE  <<x, y>> \in LexProductOrdering(LessThan, Nat, 5)
    BY DEF LowerTuples
  <2>1. PICK k \in 1 .. 5 : x[k] < y[k] /\ \A j \in 1 .. k - 1 : x[j] = y[j]
    BY DEF Lower
  <2>2. <<x[k], y[k]>> \in LessThan
    BY <2>1 DEF LessThan, Tuples
  <2> QED
    BY <2>1, <2>2 DEF LexProductOrdering, Tuples
<1> QED
  BY <1>1, <1>2, IsWellFoundedOnSubrelation DEF Tuples

Measures(n) == [1 .. n -> Tuples]

LowerMeasures(n) == {pair \in Measures(n) \X Measures(n) : LowerFirst(pair[1], pair[2])}

\* A query has so many visitors, and for each the traverser it is first in has so
\* much to do.  Whatever their number, there is no endless sequence of such
\* measures each lower than the last: LowerFirst is well-founded.
THEOREM MeasuresAreWellFounded ==
  ASSUME NEW n \in Nat
  PROVE  IsWellFoundedOn(LowerMeasures(n), Measures(n))
<1>1. IsWellFoundedOn(LexProductOrdering(LowerTuples, Tuples, n), [1 .. n -> Tuples])
  BY TuplesAreWellFounded, WFLexProductOrdering
<1>2. LowerMeasures(n) \subseteq LexProductOrdering(LowerTuples, Tuples, n)
  <2> SUFFICES ASSUME NEW l \in Measures(n), NEW m \in Measures(n), LowerFirst(l, m)
               PROVE  <<l, m>> \in LexProductOrdering(LowerTuples, Tuples, n)
    BY DEF LowerMeasures
  <2>1. PICK v \in 1 .. n : Lower(l[v], m[v]) /\ \A u \in 1 .. v - 1 : l[u] = m[u]
    BY DEF LowerFirst, Measures
  <2>2. <<l[v], m[v]>> \in LowerTuples
    BY <2>1 DEF LowerTuples, Measures
  <2> QED
    BY <2>1, <2>2 DEF LexProductOrdering, Measures
<1> QED
  BY <1>1, <1>2, IsWellFoundedOnSubrelation DEF Measures

-----------------------------------------------------------------------------
(* What is ahead *)

LEMMA PlaceInHand ==
  ASSUME IInv, Running
  PROVE  /\ cursor.pos \in Nat /\ Len(Stream) \in Nat /\ cursor.pos <= Len(Stream)
         /\ visitor \in Nat /\ Len(input.visitors) \in Nat /\ visitor <= Len(input.visitors)
         /\ Len(call) \in Nat /\ Len(trav.visitor_stack) \in Nat
<1>1. cursor \in Cursors /\ input \in Inputs
  BY AtStep
<1>2. Len(Stream) \in Nat
  BY <1>1, InputsAssumption, LenProperties DEF Stream
<1>3. cursor.pos \in Nat /\ cursor.limit \in Nat /\ cursor.pos <= cursor.limit /\ cursor.limit <= Len(Stream)
  BY <1>1 DEF Cursors
<1>4. /\ visitor \in DOMAIN input.visitors /\ Len(call) \in Nat /\ Len(trav.visitor_stack) \in Nat
  BY InHand
<1>5. Len(input.visitors) \in Nat /\ DOMAIN input.visitors = 1 .. Len(input.visitors)
  BY <1>1, InputsAssumption DEF IsChain
<1> QED
  BY <1>2, <1>3, <1>4, <1>5

LEMMA StepsAreNat ==
  /\ StepsDown \in 0 .. 3 /\ StepsUp \in 0 .. 4
  /\ \A b : Extra(b) \in 0 .. 1
  /\ FieldsUp \in Nat
<1>1. \A b : Extra(b) \in 0 .. 1
  BY DEF Extra
<1>2. PICK e \in 0 .. 1 : e = Extra(gotNew)
  BY <1>1
<1>3. FieldsUp \in Nat
  BY <1>2 DEF FieldsUp
<1> QED
  BY <1>1, <1>3 DEF StepsDown, StepsUp

\* Ahead, part by part.
IsDown ==
  \E p \in Nat, w \in Nat, s \in Nat :
    /\ Ahead = <<p, 1, w, s, 0>>
    /\ p = Len(Stream) - cursor.pos /\ w = Len(input.visitors) - visitor /\ s = StepsDown

IsUp ==
  \E p \in Nat, c \in Nat, f \in Nat, s \in Nat :
    /\ Ahead = <<p, 0, c, f, s>>
    /\ p = Len(Stream) - cursor.pos /\ c = Len(call) /\ f = FieldsUp
    /\ s = 5 * Len(trav.visitor_stack) + StepsUp

IsTuple ==
  \E p \in Nat, x2 \in Nat, x3 \in Nat, x4 \in Nat, x5 \in Nat :
    Ahead = <<p, x2, x3, x4, x5>> /\ p = Len(Stream) - cursor.pos

LEMMA AheadParts ==
  ASSUME IInv, Running
  PROVE  /\ pc \in Descending => IsDown
         /\ pc \notin Descending => IsUp
         /\ IsTuple
<1>1. /\ Len(Stream) - cursor.pos \in Nat /\ Len(input.visitors) - visitor \in Nat
      /\ StepsDown \in Nat
  BY PlaceInHand, StepsAreNat
<1>2. /\ Len(call) \in Nat /\ FieldsUp \in Nat
      /\ 5 * Len(trav.visitor_stack) + StepsUp \in Nat
  BY PlaceInHand, StepsAreNat
<1>3. pc \in Descending => IsDown
  BY <1>1 DEF Ahead, Down, IsDown
<1>4. pc \notin Descending => IsUp
  BY <1>1, <1>2 DEF Ahead, Up, IsUp
<1>5. IsDown => IsTuple
  BY DEF IsDown, IsTuple
<1>6. IsUp => IsTuple
  BY DEF IsUp, IsTuple
<1> QED
  BY <1>3, <1>4, <1>5, <1>6

\* The same, and where the traverser is, before and after a step.
LEMMA BothAhead ==
  ASSUME IInv, Running, IInv', Running', input' = input
  PROVE  /\ pc \in Descending => IsDown
         /\ pc \notin Descending => IsUp
         /\ IsTuple
         /\ pc' \in Descending => IsDown'
         /\ pc' \notin Descending => IsUp'
         /\ IsTuple'
         /\ Stream' = Stream /\ Len(Stream) \in Nat
         /\ cursor.pos \in Nat /\ cursor'.pos \in Nat
         /\ Len(input.visitors) \in Nat /\ visitor \in Nat /\ visitor' \in Nat
<1>1. /\ (pc \in Descending => IsDown)'
      /\ (pc \notin Descending => IsUp)'
      /\ IsTuple'
  BY AheadParts, PTL
<1>2. (cursor.pos \in Nat)' /\ (visitor \in Nat)'
  BY PlaceInHand, PTL
<1>3. (pc \in Descending)' <=> pc' \in Descending
  BY DEF Descending, Treatments
<1>4. pc' \in Descending => IsDown'
  BY <1>1, <1>3
<1>5. pc' \notin Descending => IsUp'
  BY <1>1, <1>3
<1> QED
  BY <1>1, <1>2, <1>4, <1>5, AheadParts, PlaceInHand DEF Stream

\* Bytes have been read.
LEMMA BytesRead ==
  ASSUME IInv, Running, IInv', Running', input' = input, cursor'.pos > cursor.pos
  PROVE  Lower(Ahead', Ahead)
<1>1. PICK p \in Nat, x2 \in Nat, x3 \in Nat, x4 \in Nat, x5 \in Nat :
        Ahead = <<p, x2, x3, x4, x5>> /\ p = Len(Stream) - cursor.pos
  BY BothAhead DEF IsTuple
<1>2. PICK q \in Nat, y2 \in Nat, y3 \in Nat, y4 \in Nat, y5 \in Nat :
        Ahead' = <<q, y2, y3, y4, y5>> /\ q = Len(Stream') - cursor'.pos
  BY BothAhead DEF IsTuple
<1>3. q < p
  <2>1. PICK a \in Nat, b \in Nat, l \in Nat : a = cursor.pos /\ b = cursor'.pos /\ l = Len(Stream)
    BY BothAhead
  <2>2. p = l - a /\ q = l - b /\ b > a
    BY <1>1, <1>2, <2>1, BothAhead
  <2> QED
    BY <2>1, <2>2
<1> QED
  BY <1>1, <1>2, <1>3, LowerTuple

\* The field or message has been offered to the last visitor that takes it.
LEMMA WayUpBegins ==
  ASSUME IInv, Running, IInv', Running', input' = input, cursor'.pos >= cursor.pos,
         pc \in Descending, pc' \notin Descending
  PROVE  Lower(Ahead', Ahead)
<1>1. PICK p \in Nat, w \in Nat, s \in Nat :
        Ahead = <<p, 1, w, s, 0>> /\ p = Len(Stream) - cursor.pos
  BY BothAhead DEF IsDown
<1>2. PICK q \in Nat, c \in Nat, f \in Nat, t \in Nat :
        Ahead' = <<q, 0, c, f, t>> /\ q = Len(Stream') - cursor'.pos
  BY BothAhead DEF IsUp
<1>3. q <= p
  <2>1. PICK a \in Nat, b \in Nat, l \in Nat : a = cursor.pos /\ b = cursor'.pos /\ l = Len(Stream)
    BY BothAhead
  <2>2. p = l - a /\ q = l - b /\ b >= a
    BY <1>1, <1>2, <2>1, BothAhead
  <2> QED
    BY <2>1, <2>2
<1>4. q < p \/ (q = p /\ 0 < 1)
  BY <1>3
<1> QED
  BY <1>1, <1>2, <1>4, LowerTuple

\* It is offered to another visitor, or taken by this one.
LEMMA WayDownGoesOn ==
  ASSUME IInv, Running, IInv', Running', input' = input, cursor'.pos = cursor.pos,
         pc \in Descending, pc' \in Descending,
         \/ visitor' > visitor
         \/ visitor' = visitor /\ StepsDown' < StepsDown
  PROVE  Lower(Ahead', Ahead)
<1>1. PICK p \in Nat, w \in Nat, s \in Nat :
        /\ Ahead = <<p, 1, w, s, 0>>
        /\ p = Len(Stream) - cursor.pos /\ w = Len(input.visitors) - visitor /\ s = StepsDown
  BY BothAhead DEF IsDown
<1>2. PICK q \in Nat, v \in Nat, t \in Nat :
        /\ Ahead' = <<q, 1, v, t, 0>>
        /\ q = Len(Stream') - cursor'.pos /\ v = Len(input'.visitors) - visitor' /\ t = StepsDown'
  BY BothAhead DEF IsDown
<1>3. q = p
  BY <1>1, <1>2, BothAhead
<1>4. v < w \/ (v = w /\ t < s)
  <2>1. PICK n \in Nat, a \in Nat, b \in Nat : n = Len(input.visitors) /\ a = visitor /\ b = visitor'
    BY BothAhead
  <2>2. b > a \/ (b = a /\ t < s)
    BY <1>1, <1>2, <2>1
  <2>3. w = n - a /\ v = n - b
    BY <1>1, <1>2, <2>1
  <2> QED
    BY <2>2, <2>3
<1>5. Lower(<<q, 1, v, t, 0>>, <<p, 1, w, s, 0>>)
  BY <1>3, <1>4, LowerTuple
<1> QED
  BY <1>1, <1>2, <1>5

\* A call, a field, or a step with a visitor ends.
LEMMA WayUpGoesOn ==
  ASSUME IInv, Running, IInv', Running', input' = input, cursor'.pos = cursor.pos,
         pc \notin Descending, pc' \notin Descending,
         \/ Len(call') < Len(call)
         \/ Len(call') = Len(call) /\ FieldsUp' < FieldsUp
         \/ /\ Len(call') = Len(call) /\ FieldsUp' = FieldsUp
            /\ 5 * Len(trav'.visitor_stack) + StepsUp' < 5 * Len(trav.visitor_stack) + StepsUp
  PROVE  Lower(Ahead', Ahead)
<1>1. PICK p \in Nat, c \in Nat, f \in Nat, s \in Nat :
        /\ Ahead = <<p, 0, c, f, s>>
        /\ p = Len(Stream) - cursor.pos /\ c = Len(call) /\ f = FieldsUp
        /\ s = 5 * Len(trav.visitor_stack) + StepsUp
  BY BothAhead DEF IsUp
<1>2. PICK q \in Nat, d \in Nat, g \in Nat, t \in Nat :
        /\ Ahead' = <<q, 0, d, g, t>>
        /\ q = Len(Stream') - cursor'.pos /\ d = Len(call') /\ g = FieldsUp'
        /\ t = 5 * Len(trav'.visitor_stack) + StepsUp'
  BY BothAhead DEF IsUp
<1>3. q = p
  BY <1>1, <1>2, BothAhead
<1>4. d < c \/ (d = c /\ g < f) \/ (d = c /\ g = f /\ t < s)
  BY <1>1, <1>2
<1>5. Lower(<<q, 0, d, g, t>>, <<p, 0, c, f, s>>)
  BY <1>3, <1>4, LowerTuple
<1> QED
  BY <1>1, <1>2, <1>5

-----------------------------------------------------------------------------
(* The traversers that wait *)

\* The visitors of a traverser begin with the first one of the call it is used for.
LEMMA FirstOfChain ==
  ASSUME input \in Inputs, NEW caller \in Frames, NEW t \in Traversers, StackFollows(caller, t)
  PROVE  /\ FirstOf(t) = FirstVisitor(caller)
         /\ FirstOf(t) \in DOMAIN input.visitors /\ FirstOf(t) \in Nat
         /\ Last(t.visitor_stack).visitor \in Nat
         /\ FirstOf(t) <= Last(t.visitor_stack).visitor
<1>1. t.visitor_stack \in Seq(Element)
  BY DEF Traversers, Element
<1>2. PICK v : ChainFrom(t, v) /\ v = FirstVisitor(caller)
  BY DEF StackFollows, FirstVisitor, Forwarder, Frames, Loops
<1>3. PICK n \in Nat \ {0} : n = Len(t.visitor_stack)
  BY <1>1, <1>2, FrontLast DEF ChainFrom
<1>4. DOMAIN t.visitor_stack = 1 .. n
  BY <1>1, <1>3, LenProperties
<1>5. t.visitor_stack[1] \in Element /\ t.visitor_stack[1].visitor = v
  BY <1>1, <1>2, <1>3, ElementOfSeq DEF ChainFrom
<1>6. v \in DOMAIN input.visitors /\ v \in Nat
  BY <1>5, InputsAssumption DEF Element, IsChain
<1>7. Last(t.visitor_stack).visitor = v + n - 1
  BY <1>2, <1>3, <1>4 DEF Last, ChainFrom
<1>8. v + n - 1 \in Nat /\ v <= v + n - 1
  BY <1>3, <1>6
<1> QED
  BY <1>2, <1>5, <1>6, <1>7, <1>8 DEF FirstOf

LEMMA FirstVisitors ==
  ASSUME IInv, Running
  PROVE  /\ FirstOf(trav) = FirstVisitor(Last(call))
         /\ FirstOf(trav) \in DOMAIN input.visitors /\ FirstOf(trav) \in Nat
         /\ FirstOf(trav) <= visitor
         /\ \A i \in 2 .. Len(call) :
              /\ FirstOf(call[i].trav) = FirstVisitor(call[i - 1])
              /\ FirstOf(call[i].trav) \in DOMAIN input.visitors /\ FirstOf(call[i].trav) \in Nat
              /\ Forwarder(call[i]) \in Nat /\ FirstOf(call[i].trav) <= Forwarder(call[i])
<1>1. input \in Inputs /\ Last(call) \in Frames /\ trav \in Traversers /\ StackFollows(Last(call), trav)
  BY AtStep
<1>2. PICK n \in Nat \ {0} : n = Len(call) /\ DOMAIN call = 1 .. n /\ call \in Seq(Frames)
  BY InHand, LenProperties
<1>3. ASSUME NEW i \in 2 .. n
      PROVE  /\ FirstOf(call[i].trav) = FirstVisitor(call[i - 1])
             /\ FirstOf(call[i].trav) \in DOMAIN input.visitors /\ FirstOf(call[i].trav) \in Nat
             /\ Forwarder(call[i]) \in Nat /\ FirstOf(call[i].trav) <= Forwarder(call[i])
  <2>1. PICK j \in 1 .. n : j = i - 1 /\ j + 1 = i /\ j < n
    BY <1>2
  <2>2. call[i] \in Frames /\ call[j] \in Frames /\ call[i].trav \in Traversers
    <3>1. \A k \in 1 .. n : call[k] \in Frames
      BY <1>2, ElementOfSeq
    <3> QED
      BY <2>1, <3>1 DEF Frames
  <2>3. StackFollows(call[j], call[i].trav)
    BY <1>2, <2>1 DEF IInv, StacksDisjoint, TravOf
  <2> QED
    BY <1>1, <2>1, <2>2, <2>3, FirstOfChain DEF Forwarder
<1>4. visitor = Last(trav.visitor_stack).visitor
  BY DEF visitor
<1> QED
  BY <1>1, <1>2, <1>3, <1>4, FirstOfChain

\* A traverser that waits has visitors in front of those of all that came later.
LEMMA WaitingInFront ==
  ASSUME RInv, Running, NEW i \in DOMAIN call, call[i].op = "Forward"
  PROVE  /\ FirstOf(call[i].trav) \in DOMAIN input.visitors /\ FirstOf(call[i].trav) \in Nat
         /\ FirstOf(call[i].trav) < FirstOf(trav)
         /\ \A j \in DOMAIN call : i < j => FirstOf(call[i].trav) < FirstOf(call[j].trav)
<1>1. PICK n \in Nat \ {0} : n = Len(call) /\ DOMAIN call = 1 .. n /\ call \in Seq(Frames)
  BY InHand, LenProperties DEF RInv
<1>2. i \in 2 .. n
  <2>1. i # 1
    BY <1>1 DEF RInv, IInv, StacksDisjoint
  <2> QED
    BY <1>1, <2>1
<1>3. Nested(call)
  BY DEF RInv
<1>4. /\ FirstOf(call[i].trav) \in DOMAIN input.visitors /\ FirstOf(call[i].trav) \in Nat
      /\ Forwarder(call[i]) \in Nat /\ FirstOf(call[i].trav) <= Forwarder(call[i])
  BY <1>1, <1>2, FirstVisitors DEF RInv
<1>5. FirstVisitor(call[i]) = Forwarder(call[i]) + 1
  BY DEF FirstVisitor
<1>6. ASSUME NEW k \in i .. n
      PROVE  FirstOf(call[i].trav) < FirstVisitor(call[k])
  <2>1. FirstVisitor(call[k]) \in Nat
    BY <1>1, <1>3, <1>6 DEF Nested, IsCall
  <2>2. FirstVisitor(call[i]) <= FirstVisitor(call[k])
    <3>1. CASE k = i
      BY <1>4, <1>5, <3>1
    <3>2. CASE k # i
      <4>1. i < k /\ k \in 1 .. n
        BY <1>1, <1>6, <3>2
      <4>2. Within(call, i, k)
        BY <1>1, <1>3, <4>1 DEF Nested
      <4> QED
        BY <4>2 DEF Within
    <3> QED
      BY <3>1, <3>2
  <2>3. PICK f \in Nat, g \in Nat, h \in Nat :
          f = FirstOf(call[i].trav) /\ g = Forwarder(call[i]) /\ h = FirstVisitor(call[k])
    BY <1>4, <2>1
  <2>4. f <= g /\ g + 1 <= h
    BY <1>4, <1>5, <2>2, <2>3
  <2>5. f < h
    BY <2>3, <2>4
  <2> QED
    BY <2>3, <2>5
<1>7. FirstOf(call[i].trav) < FirstOf(trav)
  <2>1. Last(call) = call[n] /\ n \in i .. n
    BY <1>1, <1>2, InHand DEF RInv
  <2> QED
    BY <1>6, <2>1, FirstVisitors DEF RInv
<1>8. ASSUME NEW j \in DOMAIN call, i < j
      PROVE  FirstOf(call[i].trav) < FirstOf(call[j].trav)
  <2>1. j \in 2 .. n /\ j - 1 \in i .. n
    BY <1>1, <1>2, <1>8
  <2>2. FirstOf(call[j].trav) = FirstVisitor(call[j - 1])
    BY <1>1, <2>1, FirstVisitors DEF RInv
  <2> QED
    BY <1>6, <2>1, <2>2
<1> QED
  BY <1>4, <1>7, <1>8

\* What a traverser that is not in hand has still to do.
WhenWaiting(calls, v) ==
  IF Waiting(calls, v) = {} THEN <<0, 0, 0, 0, 0>>
  ELSE AheadOf(calls[OneOf(Waiting(calls, v))], OneOf(Waiting(calls, v)))

LEMMA MeasureParts ==
  ASSUME NEW v \in DOMAIN input.visitors
  PROVE  Measure[v] = IF FirstOf(trav) = v THEN Ahead ELSE WhenWaiting(call, v)
  BY DEF Measure, Remaining, WhenWaiting

LEMMA MeasurePartsPrimed ==
  ASSUME input' = input, NEW v \in DOMAIN input.visitors
  PROVE  Measure'[v] = IF FirstOf(trav') = v THEN Ahead' ELSE WhenWaiting(call', v)
  BY DEF Measure, Remaining, WhenWaiting, AheadOf, Up, Extra, Stream, FirstOf, Waiting

LEMMA OneOfIsIn == ASSUME NEW S, S # {} PROVE OneOf(S) \in S
  BY DEF OneOf

\* The traversers that wait in calls wait in others.
KeepsWaiting(calls, others, v) ==
  Waiting(others, v) = Waiting(calls, v) /\ \A i \in Waiting(calls, v) : others[i] = calls[i]

LEMMA KeptWaiting ==
  ASSUME NEW calls, NEW others, NEW v, KeepsWaiting(calls, others, v)
  PROVE  WhenWaiting(others, v) = WhenWaiting(calls, v)
<1>1. CASE Waiting(calls, v) = {}
  BY <1>1 DEF KeepsWaiting, WhenWaiting
<1>2. CASE Waiting(calls, v) # {}
  <2>1. PICK i \in Waiting(calls, v) : i = OneOf(Waiting(calls, v)) /\ i = OneOf(Waiting(others, v))
    BY <1>2, OneOfIsIn DEF KeepsWaiting
  <2> QED
    BY <1>2, <2>1 DEF KeepsWaiting, WhenWaiting
<1> QED
  BY <1>1, <1>2

MovesOn == Running /\ Running' => LowerFirst(Measure', Measure)

\* What is to be shown of a step: that the traverser of a visitor has less to do,
\* and those of the visitors in front of it are as they were.
LEMMA MovesOnAt ==
  ASSUME input \in Inputs, input' = input, NEW v \in DOMAIN input.visitors,
         Lower(Measure'[v], Measure[v]),
         \A u \in DOMAIN input.visitors : u < v => Measure'[u] = Measure[u]
  PROVE  MovesOn
<1>1. DOMAIN Measure = DOMAIN input.visitors
  BY DEF Measure
<1>2. PICK n \in Nat : DOMAIN input.visitors = 1 .. n
  BY InputsAssumption DEF IsChain
<1>3. \A u \in 1 .. v - 1 : u \in 1 .. n /\ u < v
  BY <1>2
<1> QED
  BY <1>1, <1>2, <1>3 DEF MovesOn, LowerFirst

LEMMA SameTraverser ==
  ASSUME IInv, Running, input' = input, FirstOf(trav') = FirstOf(trav),
         \A v : KeepsWaiting(call, call', v), Lower(Ahead', Ahead)
  PROVE  MovesOn
<1>1. input \in Inputs
  BY DEF IInv
<1>2. PICK v \in DOMAIN input.visitors : v = FirstOf(trav) /\ v = FirstOf(trav')
  BY FirstVisitors
<1>3. Measure[v] = Ahead /\ Measure'[v] = Ahead'
  BY <1>2, MeasureParts, MeasurePartsPrimed
<1>4. ASSUME NEW u \in DOMAIN input.visitors, u # v
      PROVE  Measure'[u] = Measure[u]
  <2>1. WhenWaiting(call', u) = WhenWaiting(call, u)
    BY KeptWaiting
  <2> QED
    BY <1>2, <1>4, <2>1, MeasureParts, MeasurePartsPrimed
<1>5. \A u \in DOMAIN input.visitors : u < v => u # v
  BY <1>1, InputsAssumption DEF IsChain
<1> QED
  BY <1>1, <1>3, <1>4, <1>5, MovesOnAt

LEMMA WaitingAfterAppend ==
  ASSUME NEW calls \in Seq(Frames), NEW f \in Frames, NEW v
  PROVE  /\ ~(f.op = "Forward" /\ FirstOf(f.trav) = v) => KeepsWaiting(calls, Append(calls, f), v)
         /\ f.op = "Forward" /\ FirstOf(f.trav) = v =>
              Waiting(Append(calls, f), v) = Waiting(calls, v) \cup {Len(calls) + 1}
<1>0. PICK n \in Nat : n = Len(calls) /\ DOMAIN calls = 1 .. n
  BY LenProperties
<1>1. PICK s : /\ s = Append(calls, f) /\ DOMAIN s = 1 .. n + 1
               /\ s[n + 1] = f /\ \A i \in 1 .. n : s[i] = calls[i]
  <2>1. /\ Append(calls, f) \in Seq(Frames) /\ Len(Append(calls, f)) = n + 1
        /\ Append(calls, f)[n + 1] = f /\ \A i \in 1 .. n : Append(calls, f)[i] = calls[i]
    BY <1>0, AppendProperties
  <2> QED
    BY <2>1, LenProperties
<1>2. \A i : i \in 1 .. n + 1 <=> i \in 1 .. n \/ i = n + 1
  OBVIOUS
<1>3. n + 1 \notin 1 .. n
  OBVIOUS
<1>4. \A i \in Waiting(calls, v) : i \in 1 .. n
  BY <1>0 DEF Waiting
<1>5. ~(f.op = "Forward" /\ FirstOf(f.trav) = v) => Waiting(s, v) = Waiting(calls, v)
  BY <1>0, <1>1, <1>2, <1>3 DEF Waiting
<1>6. f.op = "Forward" /\ FirstOf(f.trav) = v => Waiting(s, v) = Waiting(calls, v) \cup {n + 1}
  BY <1>0, <1>1, <1>2, <1>3 DEF Waiting
<1> QED
  BY <1>0, <1>1, <1>4, <1>5, <1>6 DEF KeepsWaiting

LEMMA WaitingAfterFront ==
  ASSUME NEW calls \in Seq(Frames), calls # <<>>, NEW v,
         ~(Last(calls).op = "Forward" /\ FirstOf(Last(calls).trav) = v)
  PROVE  KeepsWaiting(calls, Front(calls), v)
<1>1. PICK n \in Nat : n = Len(calls) - 1 /\ Len(calls) = n + 1 /\ Front(calls) \in Seq(Frames)
  BY FrontLast
<1>2. PICK s : s = Front(calls) /\ DOMAIN s = 1 .. n /\ \A i \in 1 .. n : s[i] = calls[i]
  BY <1>1, FrontLast, LenProperties
<1>3. DOMAIN calls = 1 .. n + 1 /\ Last(calls) = calls[n + 1]
  BY <1>1, LenProperties DEF Last
<1>4. \A i : i \in 1 .. n + 1 <=> i \in 1 .. n \/ i = n + 1
  OBVIOUS
<1>5. Waiting(s, v) = Waiting(calls, v)
  BY <1>2, <1>3, <1>4 DEF Waiting
<1>6. \A i \in Waiting(s, v) : i \in 1 .. n
  BY <1>2 DEF Waiting
<1> QED
  BY <1>2, <1>5, <1>6 DEF KeepsWaiting

-----------------------------------------------------------------------------
(* The steps move on *)

\* What is to be shown of a step within a traverser.
Stepping == RInv /\ Running /\ IInv' /\ Running' /\ input' = input

LEMMA SameCallMoves ==
  ASSUME Stepping, call' = call, Lower(Ahead', Ahead)
  PROVE  MovesOn
<1>1. (FirstOf(trav) = FirstVisitor(Last(call)))'
  BY FirstVisitors, PTL DEF Stepping
<1>2. FirstOf(trav') = FirstVisitor(Last(call'))
  BY <1>1 DEF FirstOf, FirstVisitor, Forwarder
<1>3. FirstOf(trav') = FirstOf(trav)
  BY <1>2, FirstVisitors DEF Stepping, RInv
<1>4. \A v : KeepsWaiting(call, call', v)
  BY DEF KeepsWaiting
<1> QED
  BY <1>3, <1>4, SameTraverser DEF Stepping, RInv

LEMMA NewCallMoves ==
  ASSUME Stepping, NEW f \in Frames, f.op # "Forward", call' = Append(call, f), trav' = trav,
         Lower(Ahead', Ahead)
  PROVE  MovesOn
<1>1. call \in Seq(Frames)
  BY InHand DEF Stepping, RInv
<1>2. \A v : KeepsWaiting(call, call', v)
  BY <1>1, WaitingAfterAppend
<1> QED
  BY <1>2, SameTraverser DEF Stepping, RInv

\* No step of a run is one that starts or ends it.
LEMMA StepsWithin ==
  ASSUME RInv, Running, Next, Running', IInv'
  PROVE  /\ Stepping /\ ~Run /\ ~RunReturns /\ ~Returned
         /\ result = "running" /\ result' = "running"
<1>1. input' = input
  BY DEF Next, Run, RunReturns, ReadField, ReadPackedElement, EndOfMessage, BeginField, BeginMessage,
     ReadPrimitive, ReadLengthDelimitedField, Skip, ReadContents, ScanMessage, ReadPacked,
     DecrementDepth, EndField, ForwardReturns, Reset, PopVisitor, AllPopped, Returned, vars,
     ReadFieldValueOrSize, Throw
<1> QED
  BY <1>1 DEF Stepping, Running, Run, RunReturns, Returned, RInv, IInv, Control

\* The number of a field, its size or its value takes at least a byte.
LEMMA ReadFieldValueOrSizeMoves ==
  ASSUME Stepping, NEW number, NEW wt \in 0 .. 7, NEW p \in Nat, p >= cursor.pos,
         ReadFieldValueOrSize(number, wt, p)
  PROVE  MovesOn
<1>1. TypeOK /\ input \in Inputs /\ cursor \in Cursors /\ cursor.pos \in Nat
  BY AtStep, PlaceInHand DEF Stepping, RInv
<1>2. result = "running" /\ result' = "running"
  BY DEF Stepping, Running
<1>3. ValueLength(wt, p) # 0 /\ call' = call
  BY <1>2 DEF ReadFieldValueOrSize, Throw
<1>4. PICK n \in Nat \ {0} : n = ValueLength(wt, p)
  BY <1>1, <1>3, ValueBounds
<1>5. cursor' = [cursor EXCEPT !.pos = p + n]
  BY <1>3, <1>4 DEF ReadFieldValueOrSize
<1>6. cursor'.pos = p + n
  BY <1>1, <1>5 DEF Cursors
<1>7. p + n > cursor.pos
  BY <1>1
<1> QED
  BY <1>3, <1>6, <1>7, BytesRead, SameCallMoves DEF Stepping, RInv

LEMMA ReadFieldMoves ==
  ASSUME Stepping, ReadField
  PROVE  MovesOn
<1> DEFINE n == VarintLength(Stream, cursor.pos, cursor.limit)
           tag == VarintValue(Stream, cursor.pos)
<1>1. TypeOK /\ input \in Inputs /\ cursor.pos \in Nat
  BY AtStep, PlaceInHand DEF Stepping, RInv
<1>2. result = "running" /\ result' = "running"
  BY DEF Stepping, Running
<1>3. ~(n = 0 \/ tag = 0)
  BY <1>2 DEF ReadField, Throw
<1>4. n \in Nat /\ tag \in Nat /\ cursor.pos + n \in Nat /\ cursor.pos + n >= cursor.pos
  BY <1>1, <1>3, StreamType, VarintBounds
<1>5. tag % 8 \in 0 .. 7
  BY <1>4
<1>6. ReadFieldValueOrSize(tag \div 8, tag % 8, cursor.pos + n)
  BY <1>3 DEF ReadField
<1> HIDE DEF n, tag
<1> QED
  BY <1>4, <1>5, <1>6, ReadFieldValueOrSizeMoves

LEMMA ReadPackedElementMoves ==
  ASSUME Stepping, ReadPackedElement
  PROVE  MovesOn
<1>1. Last(call).field.wire_type \in 0 .. 7
  BY InHand DEF Frames, FieldInfo, Stepping, RInv
<1>2. cursor.pos \in Nat /\ cursor.pos >= cursor.pos
  BY PlaceInHand DEF Stepping, RInv
<1> QED
  BY <1>1, <1>2, ReadFieldValueOrSizeMoves DEF ReadPackedElement

LEMMA EndOfMessageMoves ==
  ASSUME Stepping, EndOfMessage
  PROVE  MovesOn
<1>1. IInv /\ Running /\ call \in Seq(Frames) /\ call # <<>> /\ cursor \in Cursors
  BY AtStep, InHand DEF Stepping, RInv
<1>2. Last(call).op \in Loops
  BY <1>1, AtStep DEF EndOfMessage, ControlAtStep
<1>3. /\ pc = "NextField" /\ pc' \in {"Decrement", "Return"} /\ call' = Front(call) /\ trav' = trav
      /\ cursor'.pos = cursor.pos
  BY <1>1 DEF EndOfMessage, Cursors
<1>4. \A v : KeepsWaiting(call, call', v)
  <2>1. Last(call).op # "Forward"
    BY <1>2 DEF Loops
  <2> QED
    BY <1>1, <1>3, <2>1, WaitingAfterFront
<1>5. Len(call') < Len(call)
  BY <1>1, <1>3, FrontLast
<1>6. Lower(Ahead', Ahead)
  BY <1>1, <1>3, <1>5, WayUpGoesOn DEF Stepping, Descending, Treatments
<1> QED
  BY <1>1, <1>3, <1>4, <1>6, SameTraverser DEF Stepping

\* The visitor that has been pushed is the next one.
LEMMA PushedIsNext ==
  ASSUME IInv, Running, Kind # "Emitter"
  PROVE  /\ Last(PushVisitor(trav, visitor + 1).visitor_stack).visitor = visitor + 1
         /\ visitor \in Nat
<1>1. visitor + 1 \in DOMAIN input.visitors /\ visitor \in Nat
  BY InHand, NextVisitor, PlaceInHand DEF IInv, Kind, This
<1>2. trav.visitor_stack \in Seq(Element) /\ trav.depth \in Nat
  BY InHand
<1>3. PICK e \in Element : e = [visitor |-> visitor + 1, depth_added |-> trav.depth]
  BY <1>1, <1>2 DEF Element
<1>4. PushVisitor(trav, visitor + 1).visitor_stack = Append(trav.visitor_stack, e)
  BY <1>3, ReturnNextType
<1>5. Last(PushVisitor(trav, visitor + 1).visitor_stack) = e
  <2>1. PICK s \in Seq(Element) : s = trav.visitor_stack
    BY <1>2
  <2>2. Last(Append(s, e)) = e
    BY LastAppend
  <2> QED
    BY <1>4, <2>1, <2>2
<1> QED
  BY <1>1, <1>3, <1>5

LEMMA StepsDownOf ==
  /\ pc = "BeginField" => StepsDown = 3
  /\ pc = "ScanField" => StepsDown = 2
  /\ pc \in Treatments => StepsDown = 1
  /\ pc = "BeginMessage" => StepsDown = 0
BY DEF StepsDown, Treatments

LEMMA StepsUpOf ==
  /\ pc = "EndField" => StepsUp = 4
  /\ pc = "Reset" => StepsUp = 2
  /\ pc = "PopVisitors" => StepsUp = 1
  /\ pc \in {"NextField", "Decrement", "Return"} => StepsUp = 0
BY DEF StepsUp

LEMMA StepsAfter ==
  /\ pc' = "BeginField" => StepsDown' = 3
  /\ pc' = "ScanField" => StepsDown' = 2
  /\ pc' \in Treatments => StepsDown' = 1
  /\ pc' = "BeginMessage" => StepsDown' = 0
  /\ pc' = "EndField" => StepsUp' = 4
  /\ pc' = "Reset" => StepsUp' = 2
  /\ pc' = "PopVisitors" => StepsUp' = 1
  /\ pc' \in {"NextField", "Decrement", "Return"} => StepsUp' = 0
BY DEF StepsDown, StepsUp, Treatments

\* The field or message is offered to the next visitor, or taken.
LEMMA OfferMoves ==
  ASSUME Stepping, call' = call, cursor' = cursor, pc \in Descending, pc' \in Descending,
         \/ Kind # "Emitter" /\ trav'.visitor_stack = PushVisitor(trav, visitor + 1).visitor_stack
         \/ trav' = trav /\ StepsDown' < StepsDown
  PROVE  MovesOn
<1>1. visitor' > visitor \/ (visitor' = visitor /\ StepsDown' < StepsDown)
  <2>1. CASE Kind # "Emitter" /\ trav'.visitor_stack = PushVisitor(trav, visitor + 1).visitor_stack
    <3>1. visitor' = visitor + 1 /\ visitor \in Nat
      BY <2>1, PushedIsNext DEF Stepping, RInv, visitor
    <3> QED
      BY <3>1
  <2>2. CASE trav' = trav /\ StepsDown' < StepsDown
    BY <2>2 DEF visitor
  <2> QED
    BY <2>1, <2>2
<1> QED
  BY <1>1, WayDownGoesOn, SameCallMoves DEF Stepping, RInv

LEMMA BeginFieldMoves ==
  ASSUME Stepping, BeginField
  PROVE  MovesOn
<1>1. pc = "BeginField" /\ call' = call /\ cursor' = cursor /\ TypeOK
  BY AtStep DEF BeginField, Stepping, RInv
<1>2. \/ Kind # "Emitter" /\ ReturnNext
      \/ ReturnThis(AfterBeginField)
  BY DEF BeginField, FieldSelectorBeginField, MapFilterBeginField, AllMapEntriesBeginField, OtherBeginField
<1>3. CASE Kind # "Emitter" /\ ReturnNext
  BY <1>1, <1>3, OfferMoves DEF ReturnNext, Descending
<1>4. CASE ReturnThis(AfterBeginField)
  <2>1. pc' \in {"ScanField"} \cup Treatments /\ trav' = trav
    BY <1>1, <1>4, NextPC DEF ReturnThis
  <2>2. StepsDown = 3 /\ StepsDown' \in {1, 2}
    BY <1>1, <2>1, StepsDownOf, StepsAfter
  <2> QED
    BY <1>1, <2>1, <2>2, OfferMoves DEF Descending
<1> QED
  BY <1>2, <1>3, <1>4

LEMMA BeginMessageMoves ==
  ASSUME Stepping, BeginMessage
  PROVE  MovesOn
<1>1. pc = "BeginMessage" /\ call' = call /\ cursor' = cursor
  BY DEF BeginMessage
<1>2. CASE Kind = "DescendIntoSubmessage"
  BY <1>1, <1>2, OfferMoves DEF BeginMessage, ReturnNext, Descending
<1>3. CASE Kind # "DescendIntoSubmessage"
  <2>1. pc' = "NextField" /\ cursor'.pos >= cursor.pos
    BY <1>1, <1>3, PlaceInHand DEF BeginMessage, ReturnThis, Stepping, RInv
  <2>2. Lower(Ahead', Ahead)
    BY <1>1, <2>1, WayUpBegins DEF Stepping, RInv, Descending, Treatments
  <2> QED
    BY <1>1, <2>2, SameCallMoves
<1> QED
  BY <1>2, <1>3

LEMMA ReadLengthDelimitedFieldMoves ==
  ASSUME Stepping, ReadLengthDelimitedField
  PROVE  MovesOn
<1>1. pc = "ScanField" /\ call' = call /\ cursor' = cursor /\ TypeOK /\ trav \in Traversers
  BY AtStep DEF ReadLengthDelimitedField, Stepping, RInv
<1>2. \A ty : /\ CompositeFieldTreatmentForType(ty) \in Treatments
              /\ PackedCompositeFieldTreatmentForType(ty) \in Treatments
  BY <1>1, NextPC
<1>3. {"Skip", "Buffer", "AsSubmessage"} \subseteq Treatments
  BY DEF Treatments
<1>4. \/ \E t \in Treatments : Treat(t)
      \/ Kind # "Emitter" /\ \E t : HandOver(t)
  <2>1. CASE FieldSelectorTreats
    BY <1>2, <1>3, <2>1 DEF FieldSelectorTreats
  <2>2. CASE MapFilterTreats
    BY <1>3, <2>2 DEF MapFilterTreats
  <2>3. CASE AllMapEntriesTreats
    BY <1>2, <1>3, <2>3 DEF AllMapEntriesTreats
  <2>4. CASE OtherTreats
    BY <1>2, <1>3, <2>4 DEF OtherTreats
  <2> QED
    BY <2>1, <2>2, <2>3, <2>4 DEF ReadLengthDelimitedField
<1>5. ASSUME NEW t \in Treatments, Treat(t)
      PROVE  MovesOn
  <2>1. pc' \in Treatments /\ trav' = trav
    BY <1>5 DEF Treat
  <2>2. StepsDown = 2 /\ StepsDown' = 1
    BY <1>1, <2>1, StepsDownOf, StepsAfter
  <2> QED
    BY <1>1, <2>1, <2>2, OfferMoves DEF Descending
<1>6. ASSUME NEW t, HandOver(t), Kind # "Emitter"
      PROVE  MovesOn
  <2>1. PICK p \in Traversers : p = PushVisitor(trav, visitor + 1)
    BY <1>6, ReturnNextType DEF Stepping, RInv
  <2>2. trav' = [p EXCEPT !.depth = @ + 1] /\ pc' = "BeginField"
    BY <1>6, <2>1 DEF HandOver
  <2>3. trav'.visitor_stack = PushVisitor(trav, visitor + 1).visitor_stack
    BY <2>1, <2>2 DEF Traversers
  <2> QED
    BY <1>1, <1>6, <2>2, <2>3, OfferMoves DEF Descending
<1> QED
  BY <1>4, <1>5, <1>6

\* A value has been read or skipped.
LEMMA ValueEndMoves ==
  ASSUME Stepping, call' = call, pc \in Descending, pc' \in {"Decrement", "Return"},
         cursor'.pos >= cursor.pos
  PROVE  MovesOn
<1>1. pc' \notin Descending
  BY DEF Descending, Treatments
<1> QED
  BY <1>1, WayUpBegins, SameCallMoves DEF Stepping, RInv

LEMMA ValueMoves ==
  ASSUME Stepping, ReadPrimitive \/ Skip \/ ReadContents
  PROVE  MovesOn
<1>1. /\ TypeOK /\ cursor \in Cursors /\ cursor.pos \in Nat /\ cursor.limit \in Nat
      /\ cursor.pos <= cursor.limit
  BY AtStep DEF Stepping, RInv, Cursors
<1>2. field.size \in Nat
  BY <1>1 DEF TypeOK, FieldInfo
<1>3. result = "running" /\ result' = "running"
  BY DEF Stepping, Running
<1>4. call' = call /\ pc \in Descending
  BY DEF ReadPrimitive, Skip, ReadContents, Throw, Descending, Treatments
<1>5. AfterScanField \in {"Decrement", "Return"} /\ AfterTreatment \in {"Decrement", "Return"}
  BY <1>1, NextPC
<1>6. pc' \in {"Decrement", "Return"}
  BY <1>3, <1>5 DEF ReadPrimitive, Skip, ReadContents, Throw, EmitStr
<1>7. cursor'.pos >= cursor.pos
  <2>1. CASE ReadPrimitive
    BY <1>1, <1>3, <2>1 DEF ReadPrimitive, Throw
  <2>2. CASE Skip
    <3>1. cursor'.pos = Minimum(cursor.pos + field.size, cursor.limit)
      BY <1>1, <2>2 DEF Skip, Cursors
    <3> QED
      BY <1>1, <1>2, <3>1 DEF Minimum
  <2>3. CASE ReadContents
    <3>1. cursor' = [cursor EXCEPT !.pos = cursor.pos + field.size]
      BY <1>3, <2>3 DEF ReadContents, Throw
    <3>2. cursor'.pos = cursor.pos + field.size
      BY <1>1, <3>1 DEF Cursors
    <3> QED
      BY <1>1, <1>2, <3>2
  <2> QED
    BY <2>1, <2>2, <2>3
<1> QED
  BY <1>4, <1>6, <1>7, ValueEndMoves

LEMMA ScanMessageMoves ==
  ASSUME Stepping, ScanMessage
  PROVE  MovesOn
<1>1. TypeOK /\ cursor \in Cursors /\ pc = "AsSubmessage" /\ IInv /\ Running
  BY AtStep DEF Stepping, RInv, ScanMessage
<1>2. cursor.budget # 0
  BY DEF Stepping, Running, ScanMessage, Throw
<1>3. PICK f : f = Frame("Message", field)
  OBVIOUS
<1>4. f \in Frames /\ f.op = "Message"
  BY <1>1, <1>3, FrameType DEF Frame, TypeOK, Loops
<1>5. call' = Append(call, f) /\ trav' = trav /\ pc' = "BeginMessage"
  BY <1>2, <1>3 DEF ScanMessage
<1>6. cursor'.pos = cursor.pos
  BY <1>1, <1>2 DEF ScanMessage, Narrowed, Cursors
<1>7. StepsDown = 1 /\ StepsDown' = 0
  BY <1>1, <1>5, StepsDownOf, StepsAfter DEF Treatments
<1>8. visitor' = visitor
  BY <1>5 DEF visitor
<1>9. Lower(Ahead', Ahead)
  BY <1>1, <1>5, <1>6, <1>7, <1>8, WayDownGoesOn DEF Stepping, Descending, Treatments
<1> QED
  BY <1>4, <1>5, <1>9, NewCallMoves

LEMMA ReadPackedMoves ==
  ASSUME Stepping, ReadPacked
  PROVE  MovesOn
<1>1. TypeOK /\ cursor \in Cursors /\ pc \in Treatments /\ IInv /\ Running
  BY AtStep DEF Stepping, RInv, ReadPacked, Treatments
<1>2. [field EXCEPT !.wire_type = PackedWireType(pc)] \in FieldInfo
  <2>1. field \in FieldInfo /\ PackedWireType(pc) \in 0 .. 7
    BY <1>1 DEF TypeOK, PackedWireType
  <2> QED
    BY <2>1 DEF FieldInfo
<1>3. PICK f : f = Frame("Packed", [field EXCEPT !.wire_type = PackedWireType(pc)])
  OBVIOUS
<1>4. f \in Frames /\ f.op = "Packed"
  BY <1>1, <1>2, <1>3, FrameType DEF Frame, Loops
<1>5. call' = Append(call, f) /\ trav' = trav /\ pc' = "NextField"
  BY <1>3 DEF ReadPacked
<1>6. cursor'.pos = cursor.pos /\ cursor.pos \in Nat
  BY <1>1 DEF ReadPacked, Narrowed, Cursors
<1>7. Lower(Ahead', Ahead)
  BY <1>1, <1>5, <1>6, WayUpBegins DEF Stepping, Descending, Treatments
<1> QED
  BY <1>4, <1>5, <1>7, NewCallMoves

\* The field has ended, and goes on to a step with a visitor, or the next field.
LEMMA FieldEndMoves ==
  ASSUME Stepping, call' = call, cursor' = cursor, pc \notin Descending, pc' \notin Descending,
         \/ FieldsUp' < FieldsUp
         \/ /\ FieldsUp' = FieldsUp
            /\ 5 * Len(trav'.visitor_stack) + StepsUp' < 5 * Len(trav.visitor_stack) + StepsUp
  PROVE  MovesOn
<1>1. Lower(Ahead', Ahead)
  BY WayUpGoesOn DEF Stepping, RInv
<1> QED
  BY <1>1, SameCallMoves

LEMMA DecrementDepthMoves ==
  ASSUME Stepping, DecrementDepth
  PROVE  MovesOn
<1>1. pc = "Decrement" /\ pc' = "EndField" /\ gotNew' = gotNew /\ call' = call /\ cursor' = cursor
  BY DEF DecrementDepth
<1>2. PICK e \in 0 .. 1 : e = Extra(gotNew) /\ e = Extra(gotNew')
  BY <1>1, StepsAreNat
<1>3. FieldsUp = 2 * e + 1
  BY <1>1, <1>2 DEF FieldsUp
<1>4. FieldsUp' = 2 * e
  BY <1>1, <1>2 DEF FieldsUp, Extra
<1>5. FieldsUp' < FieldsUp
  BY <1>2, <1>3, <1>4
<1> QED
  BY <1>1, <1>5, FieldEndMoves DEF Descending, Treatments

\* One more step with the visitor in hand.
LEMMA SameVisitorMoves ==
  ASSUME Stepping, UNCHANGED <<gotNew, call, cursor, trav>>,
         \/ pc = "EndField" /\ pc' \in {"Reset", "PopVisitors"}
         \/ pc = "Reset" /\ pc' = "PopVisitors"
  PROVE  MovesOn
<1>1. PICK s, t : s = StepsUp /\ t = StepsUp' /\ s \in Nat /\ t \in Nat /\ t < s
  BY StepsUpOf, StepsAfter
<1>2. PICK l \in Nat : l = Len(trav.visitor_stack) /\ l = Len(trav'.visitor_stack)
  BY PlaceInHand DEF Stepping, RInv
<1>3. 5 * Len(trav'.visitor_stack) + StepsUp' < 5 * Len(trav.visitor_stack) + StepsUp
  BY <1>1, <1>2
<1>4. FieldsUp' = FieldsUp
  BY DEF FieldsUp, Extra
<1> QED
  BY <1>3, <1>4, FieldEndMoves DEF Descending, Treatments

LEMMA PopVisitorMoves ==
  ASSUME Stepping, PopVisitor
  PROVE  MovesOn
<1>1. /\ pc = "PopVisitors" /\ pc' = "EndField"
      /\ UNCHANGED <<gotNew, call, cursor>>
      /\ trav' = [trav EXCEPT !.visitor_stack = Front(@)]
  BY DEF PopVisitor
<1>2. trav \in Traversers /\ trav.visitor_stack \in Seq(Element) /\ trav.visitor_stack # <<>>
  BY InHand, AtStep DEF Stepping, RInv
<1>3. trav'.visitor_stack = Front(trav.visitor_stack)
  BY <1>1, <1>2 DEF Traversers
<1>4. PICK l \in Nat \ {0} : l = Len(trav.visitor_stack) /\ l - 1 = Len(trav'.visitor_stack)
  BY <1>2, <1>3, FrontLast
<1>5. StepsUp = 1 /\ StepsUp' = 4
  BY <1>1, StepsUpOf, StepsAfter
<1>6. 5 * (l - 1) + 4 < 5 * l + 1
  OBVIOUS
<1>7. FieldsUp' = FieldsUp
  BY <1>1 DEF FieldsUp, Extra
<1> QED
  BY <1>1, <1>4, <1>5, <1>6, <1>7, FieldEndMoves DEF Descending, Treatments

LEMMA AllPoppedMoves ==
  ASSUME Stepping, AllPopped
  PROVE  MovesOn
<1>1. /\ pc = "PopVisitors" /\ gotNew' = FALSE /\ UNCHANGED <<call, cursor, trav>>
      /\ gotNew \in BOOLEAN /\ TypeOK
  BY AtStep DEF AllPopped, Stepping, RInv, TypeOK
<1>2. CASE gotNew
  <2>1. pc' \in {"Decrement", "Return"}
    BY <1>1, <1>2, NextPC DEF AllPopped
  <2>2. FieldsUp = 2 /\ FieldsUp' \in {0, 1}
    BY <1>1, <1>2, <2>1 DEF FieldsUp, Extra
  <2>3. FieldsUp' < FieldsUp
    BY <2>2
  <2> QED
    BY <1>1, <2>1, <2>3, FieldEndMoves DEF Descending, Treatments
<1>3. CASE ~gotNew
  <2>1. pc' = "NextField"
    BY <1>3 DEF AllPopped
  <2>2. FieldsUp' = FieldsUp
    BY <1>1, <1>3, <2>1 DEF FieldsUp, Extra
  <2>3. StepsUp = 1 /\ StepsUp' = 0
    BY <1>1, <2>1, StepsUpOf, StepsAfter
  <2>4. PICK l \in Nat : l = Len(trav.visitor_stack) /\ l = Len(trav'.visitor_stack)
    BY <1>1, PlaceInHand DEF Stepping, RInv
  <2>5. 5 * l + 0 < 5 * l + 1
    OBVIOUS
  <2> QED
    BY <1>1, <2>1, <2>2, <2>3, <2>4, <2>5, FieldEndMoves DEF Descending, Treatments
<1> QED
  BY <1>1, <1>2, <1>3

LEMMA OneOfOne == \A i : OneOf({i}) = i
  BY OneOfIsIn

\* A value is forwarded: the traverser in hand waits, and is one step further on.
LEMMA ForwardMoves ==
  ASSUME Stepping, EndField, MapFilterEndEntry, KeyMatches
  PROVE  MovesOn
<1>1. /\ IInv /\ Running /\ pc = "EndField" /\ input \in Inputs /\ call \in Seq(Frames)
      /\ trav.visitor_stack \in Seq(Element) /\ visitor \in Nat
  BY AtStep, InHand, PlaceInHand DEF Stepping, RInv, EndField
<1>2. PICK f \in Frames : /\ f.op = "Forward" /\ f.trav = trav /\ f.cursor = cursor /\ f.gotNew = gotNew
                          /\ f = Frame("Forward", field)
  <2>1. Frame("Forward", field) \in Frames
    BY <1>1, AtStep, FrameType DEF TypeOK
  <2> QED
    BY <2>1 DEF Frame
<1>3. Kind = "MapFilter" /\ call' = Append(call, f) /\ trav' = NewTraverser(visitor + 1)
  BY <1>2 DEF MapFilterEndEntry
<1>4. FirstOf(trav') = visitor + 1
  <2>1. visitor + 1 \in DOMAIN input.visitors
    BY <1>1, <1>3, InHand, NextVisitor DEF Kind, This
  <2>2. PICK w \in DOMAIN input.visitors : w = visitor + 1
    BY <2>1
  <2>3. ChainFrom(NewTraverser(w), w)
    BY <1>1, NewTraverserType
  <2>4. trav' = NewTraverser(w)
    BY <1>3, <2>2
  <2>5. ChainFrom(trav', w)
    BY <2>3, <2>4
  <2>6. trav'.visitor_stack[1] = [visitor |-> w, depth_added |-> 0]
    BY <2>5 DEF ChainFrom
  <2> QED
    BY <2>2, <2>6 DEF FirstOf
<1>5. PICK v \in DOMAIN input.visitors : v = FirstOf(trav) /\ v \in Nat /\ v <= visitor
  BY <1>1, FirstVisitors
<1>6. FirstOf(trav') # v /\ \A u \in DOMAIN input.visitors : u < v => u # v /\ u # visitor + 1
  BY <1>1, <1>4, <1>5, InputsAssumption DEF IsChain
<1>7. PICK n \in Nat : n = Len(call)
  BY <1>1, InHand
<1>8. Waiting(call, v) = {}
  <2> SUFFICES ASSUME NEW i \in Waiting(call, v) PROVE FALSE
    OBVIOUS
  <2>1. i \in DOMAIN call /\ call[i].op = "Forward" /\ FirstOf(call[i].trav) = v
    BY DEF Waiting
  <2>2. v < FirstOf(trav)
    BY <2>1, WaitingInFront DEF Stepping
  <2> QED
    BY <1>5, <2>2
<1>9. Waiting(call', v) = {n + 1}
  <2>1. FirstOf(f.trav) = v
    BY <1>2, <1>5
  <2>2. Waiting(Append(call, f), v) = Waiting(call, v) \cup {Len(call) + 1}
    BY <1>1, <1>2, <2>1, WaitingAfterAppend
  <2> QED
    BY <1>3, <1>7, <1>8, <2>2
<1>10. call'[n + 1] = f
  BY <1>1, <1>3, <1>7, AppendProperties
<1>11. Measure'[v] = AheadOf(f, n + 1)
  <2>1. WhenWaiting(call', v) = AheadOf(f, n + 1)
    BY <1>9, <1>10, OneOfOne DEF WhenWaiting
  <2> QED
    BY <1>6, <2>1, MeasurePartsPrimed DEF Stepping
<1>12. PICK p \in Nat, c \in Nat, g \in Nat, s \in Nat :
         /\ Measure[v] = <<p, 0, c, g, s>>
         /\ p = Len(Stream) - cursor.pos /\ c = n /\ g = FieldsUp
         /\ s = 5 * Len(trav.visitor_stack) + StepsUp
  <2>1. IsUp
    BY <1>1, AheadParts DEF Descending, Treatments
  <2>2. Measure[v] = Ahead
    BY <1>5, MeasureParts
  <2> QED
    BY <1>7, <2>1, <2>2 DEF IsUp
<1>13. PICK t \in Nat : t = 5 * Len(trav.visitor_stack) + 3 /\ t < s
  <2>1. PICK l \in Nat : l = Len(trav.visitor_stack)
    BY <1>1, LenProperties
  <2>2. StepsUp = 4
    BY <1>1, StepsUpOf
  <2>3. 5 * l + 3 \in Nat /\ 5 * l + 3 < 5 * l + 4
    BY <2>1
  <2> QED
    BY <1>12, <2>1, <2>2, <2>3
<1>14. 2 * Extra(gotNew) = g
  <2>1. PICK e \in 0 .. 1 : e = Extra(gotNew)
    BY StepsAreNat
  <2> QED
    BY <1>1, <1>12, <2>1 DEF FieldsUp
<1>15. (n + 1) - 1 = n
  OBVIOUS
<1>16. AheadOf(f, n + 1) = <<p, 0, c, g, t>>
  BY <1>2, <1>12, <1>13, <1>14, <1>15 DEF AheadOf, Up
<1>17. Lower(Measure'[v], Measure[v])
  <2>1. Lower(<<p, 0, c, g, t>>, <<p, 0, c, g, s>>)
    BY <1>13, LowerTuple
  <2> QED
    BY <1>11, <1>12, <1>16, <2>1
<1>18. ASSUME NEW u \in DOMAIN input.visitors, u < v
       PROVE  Measure'[u] = Measure[u]
  <2>1. u # v /\ u # FirstOf(trav') /\ u # FirstOf(trav) /\ FirstOf(f.trav) # u
    BY <1>2, <1>4, <1>5, <1>6, <1>18
  <2>2. WhenWaiting(call', u) = WhenWaiting(call, u)
    BY <1>1, <1>3, <2>1, WaitingAfterAppend, KeptWaiting
  <2> QED
    BY <2>1, <2>2, MeasureParts, MeasurePartsPrimed DEF Stepping
<1> QED
  BY <1>1, <1>17, <1>18, MovesOnAt DEF Stepping

LEMMA EndFieldMoves ==
  ASSUME Stepping, EndField
  PROVE  MovesOn
<1>1. CASE MapFilterEndEntry /\ KeyMatches
  BY <1>1, ForwardMoves
<1>2. CASE ~(MapFilterEndEntry /\ KeyMatches)
  <2>1. pc = "EndField" /\ pc' \in {"PopVisitors", "Reset"} /\ UNCHANGED <<gotNew, call, cursor, trav>>
    BY <1>2 DEF EndField, FieldSelectorEndField, MapFilterEndField, MapFilterEndEntry,
       AllMapEntriesEndField, OtherEndField
  <2> QED
    BY <2>1, SameVisitorMoves
<1> QED
  BY <1>1, <1>2

\* The forwarded value has been scanned: the traverser that waited for it goes on.
LEMMA ForwardReturnsMoves ==
  ASSUME Stepping, ForwardReturns
  PROVE  MovesOn
<1>1. /\ IInv /\ Running /\ input \in Inputs /\ call \in Seq(Frames) /\ call # <<>>
  BY AtStep, InHand DEF Stepping, RInv
<1>2. PICK n \in Nat : Len(call) = n + 1 /\ n = Len(call) - 1
  BY <1>1, FrontLast
<1>3. PICK f \in Frames : f = Last(call) /\ f = call[n + 1]
  BY <1>1, <1>2, InHand
<1>4. /\ f.op = "Forward" /\ trav' = f.trav /\ cursor' = f.cursor /\ gotNew' = f.gotNew
      /\ call' = Front(call) /\ pc' = "Reset"
  BY <1>3 DEF ForwardReturns
<1>5. n + 1 \in DOMAIN call /\ \A i \in DOMAIN call : i # n + 1 => i < n + 1
  BY <1>1, <1>2, LenProperties
<1>6. PICK v \in DOMAIN input.visitors :
        /\ v = FirstOf(f.trav) /\ v = FirstOf(trav') /\ v \in Nat
        /\ v < FirstOf(trav)
  BY <1>3, <1>4, <1>5, WaitingInFront DEF Stepping
<1>7. FirstOf(trav) \in Nat /\ \A u \in DOMAIN input.visitors : u < v => u # v /\ u # FirstOf(trav)
  BY <1>1, <1>6, FirstVisitors, InputsAssumption DEF IsChain
<1>8. Waiting(call, v) = {n + 1}
  <2>1. n + 1 \in Waiting(call, v)
    BY <1>3, <1>4, <1>5, <1>6 DEF Waiting
  <2>2. ASSUME NEW i \in Waiting(call, v), i # n + 1
        PROVE  FALSE
    <3>1. i \in DOMAIN call /\ call[i].op = "Forward" /\ FirstOf(call[i].trav) = v
      BY DEF Waiting
    <3>2. v < FirstOf(call[n + 1].trav)
      BY <1>5, <2>2, <3>1, WaitingInFront DEF Stepping
    <3> QED
      BY <1>3, <1>6, <3>2
  <2> QED
    BY <2>1, <2>2
<1>9. Measure[v] = AheadOf(f, n + 1)
  <2>1. WhenWaiting(call, v) = AheadOf(f, n + 1)
    BY <1>3, <1>8, OneOfOne DEF WhenWaiting
  <2>2. FirstOf(trav) # v
    BY <1>6, <1>7
  <2> QED
    BY <2>1, <2>2, MeasureParts
<1>10. PICK p \in Nat, c \in Nat, g \in Nat, t \in Nat :
         /\ Measure'[v] = <<p, 0, c, g, t>>
         /\ p = Len(Stream) - cursor'.pos /\ c = n /\ g = FieldsUp'
         /\ t = 5 * Len(trav'.visitor_stack) + StepsUp'
  <2>1. IsUp' /\ Stream' = Stream
    BY <1>4, BothAhead DEF Descending, Treatments, Stepping, RInv
  <2>2. Measure'[v] = Ahead'
    BY <1>6, MeasurePartsPrimed DEF Stepping
  <2>3. Len(call') = n
    BY <1>1, <1>2, <1>4, FrontLast
  <2> QED
    BY <2>1, <2>2, <2>3 DEF IsUp
<1>11. PICK s \in Nat : s = 5 * Len(f.trav.visitor_stack) + 3 /\ t < s
  <2>1. f.trav.visitor_stack \in Seq(Element)
    BY DEF Frames, Traversers, Element
  <2>2. PICK l \in Nat : l = Len(f.trav.visitor_stack)
    BY <2>1, LenProperties
  <2>3. StepsUp' = 2
    BY <1>4, StepsAfter
  <2>4. 5 * l + 3 \in Nat /\ 5 * l + 2 < 5 * l + 3
    BY <2>2
  <2> QED
    BY <1>4, <1>10, <2>2, <2>3, <2>4
<1>12. 2 * Extra(f.gotNew) = g
  <2>1. PICK e \in 0 .. 1 : e = Extra(f.gotNew)
    BY StepsAreNat
  <2>2. FieldsUp' = 2 * e
    BY <1>4, <2>1 DEF FieldsUp, Extra
  <2> QED
    BY <1>10, <2>1, <2>2
<1>13. (n + 1) - 1 = n
  OBVIOUS
<1>14. AheadOf(f, n + 1) = <<p, 0, c, g, s>>
  BY <1>4, <1>10, <1>11, <1>12, <1>13 DEF AheadOf, Up
<1>15. Lower(Measure'[v], Measure[v])
  <2>1. Lower(<<p, 0, c, g, t>>, <<p, 0, c, g, s>>)
    BY <1>11, LowerTuple
  <2> QED
    BY <1>9, <1>10, <1>14, <2>1
<1>16. ASSUME NEW u \in DOMAIN input.visitors, u < v
       PROVE  Measure'[u] = Measure[u]
  <2>1. u # v /\ u # FirstOf(trav') /\ u # FirstOf(trav) /\ FirstOf(f.trav) # u
    BY <1>6, <1>7, <1>16
  <2>2. WhenWaiting(call', u) = WhenWaiting(call, u)
    BY <1>1, <1>3, <1>4, <2>1, WaitingAfterFront, KeptWaiting
  <2> QED
    BY <2>1, <2>2, MeasureParts, MeasurePartsPrimed DEF Stepping
<1> QED
  BY <1>1, <1>15, <1>16, MovesOnAt DEF Stepping

-----------------------------------------------------------------------------
(* The theorem *)

LEMMA NextMoves ==
  ASSUME RInv, [Next]_vars, vars' # vars
  PROVE  MovesOn
<1> SUFFICES ASSUME Running, Running' PROVE MovesOn
  BY DEF MovesOn
<1>1. IInv' /\ Next
  BY Inductive DEF RInv
<1>2. Stepping /\ ~Run /\ ~RunReturns /\ ~Returned
  BY <1>1, StepsWithin
<1>3. CASE ReadField \/ ReadPackedElement \/ EndOfMessage \/ BeginField \/ BeginMessage
  BY <1>2, <1>3, ReadFieldMoves, ReadPackedElementMoves, EndOfMessageMoves, BeginFieldMoves,
     BeginMessageMoves
<1>4. CASE ReadPrimitive \/ ReadLengthDelimitedField \/ Skip \/ ReadContents \/ ScanMessage \/ ReadPacked
  BY <1>2, <1>4, ValueMoves, ReadLengthDelimitedFieldMoves, ScanMessageMoves, ReadPackedMoves
<1>5. CASE DecrementDepth \/ EndField \/ ForwardReturns \/ PopVisitor \/ AllPopped
  BY <1>2, <1>5, DecrementDepthMoves, EndFieldMoves, ForwardReturnsMoves, PopVisitorMoves, AllPoppedMoves
<1>6. CASE Reset
  BY <1>2, <1>6, SameVisitorMoves DEF Reset
<1> QED
  BY <1>1, <1>2, <1>3, <1>4, <1>5, <1>6 DEF Next

LEMMA AheadOfIsTuple ==
  ASSUME input \in Inputs, NEW f \in Frames, NEW i \in Nat \ {0}
  PROVE  AheadOf(f, i) \in Tuples
<1>1. PICK p \in Nat : p = Len(Stream) - f.cursor.pos
  <2>1. Len(Stream) \in Nat
    BY InputsAssumption, LenProperties DEF Stream
  <2>2. f.cursor.pos \in Nat /\ f.cursor.limit \in Nat /\ f.cursor.pos <= f.cursor.limit
        /\ f.cursor.limit <= Len(Stream)
    BY DEF Frames, Cursors
  <2> QED
    BY <2>1, <2>2
<1>2. PICK e \in 0 .. 1 : e = Extra(f.gotNew)
  BY StepsAreNat
<1>3. PICK l \in Nat : l = Len(f.trav.visitor_stack)
  <2>1. f.trav.visitor_stack \in Seq(Element)
    BY DEF Frames, Traversers, Element
  <2> QED
    BY <2>1, LenProperties
<1>4. i - 1 \in Nat /\ 2 * e \in Nat /\ 5 * l + 3 \in Nat
  BY <1>2, <1>3
<1>5. AheadOf(f, i) = <<p, 0, i - 1, 2 * e, 5 * l + 3>>
  BY <1>1, <1>2, <1>3 DEF AheadOf, Up
<1> QED
  BY <1>4, <1>5, TupleIsFunction

LEMMA MeasureIsMeasure ==
  ASSUME IInv, Running
  PROVE  Measure \in Measures(Len(input.visitors))
<1>1. input \in Inputs /\ DOMAIN input.visitors = 1 .. Len(input.visitors)
  BY AtStep, InputsAssumption DEF IsChain
<1>2. PICK n \in Nat \ {0} : n = Len(call) /\ DOMAIN call = 1 .. n /\ call \in Seq(Frames)
  BY InHand, LenProperties
<1>3. ASSUME NEW v \in DOMAIN input.visitors
      PROVE  Measure[v] \in Tuples
  <2>1. Ahead \in Tuples
    BY AheadParts, TupleIsFunction DEF IsTuple
  <2>2. <<0, 0, 0, 0, 0>> \in Tuples
    BY TupleIsFunction
  <2>3. CASE Waiting(call, v) # {}
    <3>1. PICK i \in Waiting(call, v) : i = OneOf(Waiting(call, v))
      BY <2>3, OneOfIsIn
    <3>2. i \in 1 .. n
      BY <1>2 DEF Waiting
    <3>3. call[i] \in Frames /\ i \in Nat \ {0}
      BY <1>2, <3>2, ElementOfSeq
    <3>4. WhenWaiting(call, v) \in Tuples
      BY <1>1, <2>3, <3>1, <3>3, AheadOfIsTuple DEF WhenWaiting
    <3> QED
      BY <2>1, <3>4, MeasureParts
  <2>4. CASE Waiting(call, v) = {}
    BY <2>1, <2>2, <2>4, MeasureParts DEF WhenWaiting
  <2> QED
    BY <2>3, <2>4
<1>4. Measure = [v \in DOMAIN input.visitors |-> Measure[v]]
  BY DEF Measure
<1> QED
  BY <1>1, <1>3, <1>4 DEF Measures

\* Every step of a run, whatever the column holds and the visitors select, leaves
\* a lower measure behind: bytes are read, the next visitor is offered the value,
\* calls return, visitors are popped.  With MeasuresAreWellFounded, no run takes
\* steps for ever.
THEOREM RunsMoveOn ==
  Spec => StepsMoveOn /\ [](Running => Measure \in Measures(Len(input.visitors)))
<1>1. Init => RInv
  BY Initial DEF RInv, Init, Running
<1>2. RInv /\ [Next]_vars => RInv'
  BY RecursionInductive
<1>3. RInv /\ [Next]_vars => [Running /\ Running' => LowerFirst(Measure', Measure)]_vars
  BY NextMoves DEF MovesOn
<1>4. RInv => (Running => Measure \in Measures(Len(input.visitors)))
  BY MeasureIsMeasure DEF RInv
<1> QED
  BY <1>1, <1>2, <1>3, <1>4, PTL DEF Spec, StepsMoveOn

=============================================================================
