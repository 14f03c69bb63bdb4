---------------------------- MODULE VisitorProofs ----------------------------
(***************************************************************************)
(* A visitor of Traversal that is not in use is as good as new.            *)
(*                                                                         *)
(* FieldSelector and MapFilter forget what they know in Popped().          *)
(* AllMapEntries does not: it relies on BeginField and EndField being      *)
(* called in turns until it is popped.  VInv says how far its scope_ can be*)
(* from Outermost, given the fields that are open and the depth at which it*)
(* was pushed; and that visitors that are dropped together with a nested   *)
(* traverser, without a call of Popped(), have no state.                   *)
(***************************************************************************)
EXTENDS TraversalProofs

KindOf(v) == input.visitors[v].kind

CleanEntries == {ResetEntry, EmptyEntry(input.garbage.key, input.garbage.value)}

Clean(v) ==
  /\ sel[v] = FreshSelector
  /\ scope[v] = "Outermost"
  /\ entry[v] \in CleanEntries

\* The state that visitors of other kinds have is not v's.
OwnState(v) ==
  /\ KindOf(v) # "FieldSelector" => sel[v] = FreshSelector
  /\ KindOf(v) \notin {"MapFilter", "AllMapEntries"} => scope[v] = "Outermost"
  /\ KindOf(v) = "AllMapEntries" => scope[v] \notin {"InKey", "InValue"}
  /\ KindOf(v) # "MapFilter" => entry[v] \in CleanEntries

Level(v) == IF scope[v] = "Outermost" THEN 0 ELSE IF scope[v] = "InEntry" THEN 1 ELSE 2

\* The fields that the AllMapEntries of the element e is in are open ones, begun
\* since it was pushed; or with it, unless that was at the bottom of a stack.
Seen(e, open) ==
  KindOf(e.visitor) = "AllMapEntries" =>
    Level(e.visitor) + e.depth_added <= open + (IF e.depth_added = 0 THEN 0 ELSE 1)

\* f has been pushed when e was on the stack.
PushedOn(e, f) ==
  /\ e.depth_added <= f.depth_added
  /\ f.depth_added = 0 => KindOf(e.visitor) = "DescendIntoSubmessage"
  /\ Seen(e, f.depth_added)

Ordered(stack) ==
  \A k \in 1 .. Len(stack) - 1 : \A l \in k + 1 .. Len(stack) : PushedOn(stack[k], stack[l])

Ending == {"EndField", "PopVisitors", "Reset"}

\* How many fields visitors have been told of, and how deep one may have been
\* pushed, when the traverser is at p and has counted d open fields.
Open(p, d) == IF p = "BeginField" THEN d - 1 ELSE IF p = "EndField" THEN d + 1 ELSE d
Deepest(p, d) == IF p \in Ending THEN d + 1 ELSE d

TopInHand ==
  LET top == Last(trav.visitor_stack) IN
  /\ top.depth_added <= Deepest(pc, trav.depth)
  /\ pc # "Reset" => Seen(top, Open(pc, trav.depth))
  /\ pc = "ScanField" /\ trav.depth = 0 => Clean(visitor)

Before(stack, later) == \A k \in DOMAIN stack : stack[k].visitor < later[1].visitor

\* What a traverser that waits for the one it forwards a value to gets back.
PutAside(i) ==
  LET stack == call[i].trav.visitor_stack IN
  call[i].op = "Forward" =>
    /\ Ordered(stack)
    /\ Last(stack).depth_added <= call[i].trav.depth + 1
    /\ Before(stack, trav.visitor_stack)
    /\ \A j \in DOMAIN call :
         j > i /\ call[j].op = "Forward" => Before(stack, call[j].trav.visitor_stack)

InUse == \A v \in DOMAIN input.visitors : v <= visitor => Active(v)
CleanAhead == \A v \in DOMAIN input.visitors : v > visitor => Clean(v)

InProgress == InUse /\ CleanAhead /\ Ordered(trav.visitor_stack) /\ TopInHand /\ \A i \in DOMAIN call : PutAside(i)

OwnStates == \A v \in DOMAIN input.visitors : OwnState(v)

VInv ==
  /\ OwnStates
  /\ pc = "Run" => \A v \in DOMAIN input.visitors : Clean(v)
  /\ Running => InProgress
  /\ IdleVisitorsAreClean

-----------------------------------------------------------------------------
(* Stacks *)

\* The visitors of the traverser in hand are those from the first of them to
\* the one on top.
LEMMA StackInHand ==
  ASSUME IInv, Running
  PROVE  /\ input \in Inputs
         /\ DOMAIN input.visitors \subseteq Nat
         /\ trav.visitor_stack \in Seq(Element) /\ trav.visitor_stack # <<>>
         /\ Len(trav.visitor_stack) \in Nat \ {0}
         /\ DOMAIN trav.visitor_stack = 1 .. Len(trav.visitor_stack)
         /\ visitor \in DOMAIN input.visitors
         /\ Last(trav.visitor_stack) = trav.visitor_stack[Len(trav.visitor_stack)]
         /\ Last(trav.visitor_stack) \in Element
         /\ Last(trav.visitor_stack).visitor = visitor
         /\ trav.visitor_stack[1].visitor \in DOMAIN input.visitors
         /\ \A k \in 1 .. Len(trav.visitor_stack) :
              trav.visitor_stack[k].visitor = trav.visitor_stack[1].visitor + k - 1
<1>1. /\ input \in Inputs
      /\ trav.visitor_stack \in Seq(Element) /\ trav.visitor_stack # <<>>
      /\ Len(trav.visitor_stack) \in Nat \ {0}
      /\ visitor \in DOMAIN input.visitors
      /\ Last(trav.visitor_stack) \in Element
      /\ StackFollows(Last(call), trav)
      /\ Last(call) \in Frames
  BY InHand DEF IInv
<1>2. DOMAIN input.visitors \subseteq Nat
  BY <1>1, InputsAssumption DEF IsChain
<1>3. DOMAIN trav.visitor_stack = 1 .. Len(trav.visitor_stack)
  BY <1>1, LenProperties
<1>4. PICK v : ChainFrom(trav, v)
  BY <1>1 DEF StackFollows, Frames
<1>5. trav.visitor_stack[1] \in Element
  BY <1>1, ElementOfSeq
<1>6. /\ trav.visitor_stack[1].visitor \in DOMAIN input.visitors
      /\ v = trav.visitor_stack[1].visitor
  BY <1>4, <1>5 DEF ChainFrom, Element
<1>7. \A k \in 1 .. Len(trav.visitor_stack) :
        trav.visitor_stack[k].visitor = trav.visitor_stack[1].visitor + k - 1
  BY <1>3, <1>4, <1>6 DEF ChainFrom
<1>8. /\ Last(trav.visitor_stack) = trav.visitor_stack[Len(trav.visitor_stack)]
      /\ Last(trav.visitor_stack).visitor = visitor
  BY DEF Last, visitor
<1> QED
  BY <1>1, <1>2, <1>3, <1>6, <1>7, <1>8

\* They are in use, and no others of the visitors from the first of them on.
LEMMA OnStackInHand ==
  ASSUME IInv, Running, NEW v \in DOMAIN input.visitors
  PROVE  OnStack(trav, v) <=> trav.visitor_stack[1].visitor <= v /\ v <= visitor
<1> DEFINE n == Len(trav.visitor_stack)
           first == trav.visitor_stack[1].visitor
<1>1. /\ v \in Nat /\ first \in Nat /\ n \in Nat \ {0} /\ visitor = first + n - 1
      /\ \A k \in 1 .. n : trav.visitor_stack[k].visitor = first + k - 1
      /\ DOMAIN trav.visitor_stack = 1 .. n
  <2>1. v \in Nat /\ first \in Nat /\ n \in Nat \ {0}
    BY StackInHand
  <2>2. /\ \A k \in 1 .. n : trav.visitor_stack[k].visitor = first + k - 1
        /\ DOMAIN trav.visitor_stack = 1 .. n
    BY StackInHand
  <2>3. trav.visitor_stack[n].visitor = visitor
    BY StackInHand
  <2> HIDE DEF n, first
  <2>4. n \in 1 .. n
    BY <2>1
  <2>5. visitor = first + n - 1
    BY <2>2, <2>3, <2>4
  <2> QED
    BY <2>1, <2>2, <2>5
<1> HIDE DEF n, first
<1>2. ASSUME first <= v, v <= visitor
      PROVE  OnStack(trav, v)
  <2>1. v - first + 1 \in 1 .. n /\ first + (v - first + 1) - 1 = v
    BY <1>1, <1>2
  <2> QED
    BY <1>1, <2>1 DEF OnStack
<1>3. ASSUME OnStack(trav, v)
      PROVE  first <= v /\ v <= visitor
  <2>1. PICK k \in 1 .. n : trav.visitor_stack[k].visitor = v
    BY <1>1, <1>3 DEF OnStack
  <2> QED
    BY <1>1, <2>1
<1> QED
  BY <1>2, <1>3 DEF first

-----------------------------------------------------------------------------
(* What a step leaves alone *)

SameState(v) == sel'[v] = sel[v] /\ scope'[v] = scope[v] /\ entry'[v] = entry[v]

LEMMA SameClean ==
  ASSUME input' = input, NEW v, SameState(v)
  PROVE  /\ Clean(v)' <=> Clean(v)
         /\ OwnState(v)' <=> OwnState(v)
<1>1. CleanEntries' = CleanEntries
  BY DEF CleanEntries
<1> QED
  BY <1>1 DEF SameState, Clean, OwnState, KindOf

LEMMA SameOrdered ==
  ASSUME input' = input, NEW stack, Ordered(stack),
         \A k \in 1 .. Len(stack) - 1 : SameState(stack[k].visitor)
  PROVE  Ordered(stack)'
  BY DEF Ordered, PushedOn, Seen, KindOf, Level, SameState

\* The visitors of traversers that are put aside come before those in hand.
LEMMA SameAside ==
  ASSUME IInv, Running, InProgress, input' = input,
         \A v \in DOMAIN input.visitors : v < trav.visitor_stack[1].visitor => SameState(v),
         NEW i \in DOMAIN call, call[i].op = "Forward"
  PROVE  /\ call[i] \in Frames
         /\ \A stack : stack = call[i].trav.visitor_stack => Ordered(stack)'
<1>1. call \in Seq(Frames) /\ DOMAIN call = 1 .. Len(call)
  BY InHand, LenProperties
<1>2. call[i] \in Frames
  BY <1>1, ElementOfSeq
<1>3. PICK f \in Frames : f = call[i]
  BY <1>2
<1>4. PICK stack \in Seq(Element) : stack = f.trav.visitor_stack
  BY DEF Frames, Traversers, Element
<1>5. Ordered(stack) /\ Before(stack, trav.visitor_stack)
  BY <1>3, <1>4 DEF InProgress, PutAside
<1>6. ASSUME NEW k \in 1 .. Len(stack) - 1
      PROVE  SameState(stack[k].visitor)
  <2>1. Len(stack) \in Nat /\ DOMAIN stack = 1 .. Len(stack)
    BY LenProperties
  <2>2. k \in 1 .. Len(stack)
    BY <2>1
  <2>3. stack[k] \in Element
    BY <2>2, ElementOfSeq
  <2> QED
    BY <1>5, <2>1, <2>2, <2>3 DEF Before, Element
<1>7. Ordered(stack)'
  BY <1>5, <1>6, SameOrdered
<1> QED
  BY <1>2, <1>3, <1>4, <1>7

-----------------------------------------------------------------------------
(* VInv after a step *)

LEMMA IdleOfProgress ==
  IInv /\ Running /\ InProgress => IdleVisitorsAreClean
<1> SUFFICES ASSUME IInv, Running, InProgress, NEW v \in DOMAIN input.visitors, ~Active(v)
             PROVE  Clean(v)
  BY DEF IdleVisitorsAreClean, Clean, CleanEntries
<1>1. v \in Nat /\ visitor \in Nat
  BY StackInHand
<1>2. v > visitor
  BY <1>1 DEF InProgress, InUse
<1> QED
  BY <1>2 DEF InProgress, CleanAhead

LEMMA GoesOnInv ==
  ASSUME IInv', OwnStates', GoesOn, InProgress'
  PROVE  VInv'
<1>1. Running'
  BY DEF GoesOn, Running
<1>2. IdleVisitorsAreClean'
  BY <1>1, IdleOfProgress, PTL
<1> QED
  BY <1>2 DEF VInv, GoesOn

\* An exception ends the run.
LEMMA ThrownInv ==
  ASSUME IInv, VInv, NEW e \in {"BadProto", "RecursionDepthExceeded"}, Throw(e)
  PROVE  VInv'
<1>1. \A v \in DOMAIN input.visitors : SameState(v)
  BY DEF Throw, SameState, visitorState
<1>2. input' = input /\ result' # "running" /\ result' # "ok" /\ pc' = "Done"
  BY DEF Throw
<1>3. OwnStates'
  BY <1>1, <1>2, SameClean DEF OwnStates, VInv
<1> QED
  BY <1>2, <1>3 DEF VInv, Running, IdleVisitorsAreClean

\* The traverser in hand keeps its visitors, and only the one on top is called.
Stays ==
  /\ input' = input /\ call' = call
  /\ trav'.visitor_stack = trav.visitor_stack
  /\ \A v \in DOMAIN input.visitors : v # visitor => SameState(v)

LEMMA StaysVisitor ==
  ASSUME Stays
  PROVE  visitor' = visitor /\ (\A v : Active(v)' <=> Active(v))
  BY DEF Stays, visitor, Active, OnStack

LEMMA StaysOwn ==
  ASSUME OwnStates, Stays, OwnState(visitor)'
  PROVE  OwnStates'
<1>1. \A v \in DOMAIN input.visitors : v # visitor => OwnState(v)'
  BY SameClean DEF OwnStates, Stays
<1>2. visitor' = visitor /\ input' = input
  BY StaysVisitor DEF Stays
<1>3. PICK u : u = visitor
  OBVIOUS
<1>4. OwnState(u)'
  BY <1>2, <1>3 DEF OwnState, KindOf, CleanEntries
<1> QED
  BY <1>1, <1>2, <1>3, <1>4 DEF OwnStates

\* Activations that are put aside stay as they are.
LEMMA AsideStays ==
  ASSUME IInv, Running, InProgress, input' = input, call' = call,
         trav'.visitor_stack[1] = trav.visitor_stack[1],
         \A v \in DOMAIN input.visitors : v < trav.visitor_stack[1].visitor => SameState(v)
  PROVE  \A i \in DOMAIN call' : PutAside(i)'
<1> SUFFICES ASSUME NEW i \in DOMAIN call, call[i].op = "Forward"
             PROVE  PutAside(i)'
  BY DEF PutAside
<1>1. PICK f : f = call[i]
  OBVIOUS
<1>2. Ordered(f.trav.visitor_stack)'
  BY <1>1, SameAside
<1>3. PutAside(i)
  BY DEF InProgress
<1> QED
  BY <1>1, <1>2, <1>3 DEF PutAside, Before

\* Below the one on top are other visitors of the chain.
LEMMA BelowTop ==
  ASSUME IInv, Running
  PROVE  /\ DOMAIN input.visitors \subseteq Nat /\ visitor \in DOMAIN input.visitors
         /\ trav.visitor_stack[1].visitor \in DOMAIN input.visitors
         /\ trav.visitor_stack[1].visitor <= visitor
         /\ \A k \in 1 .. Len(trav.visitor_stack) - 1 :
              trav.visitor_stack[k].visitor \in DOMAIN input.visitors /\ trav.visitor_stack[k].visitor # visitor
<1>1. PICK n \in Nat \ {0}, first \in Nat : n = Len(trav.visitor_stack) /\ first = trav.visitor_stack[1].visitor
  BY StackInHand
<1>2. /\ DOMAIN input.visitors \subseteq Nat /\ visitor \in DOMAIN input.visitors
      /\ first \in DOMAIN input.visitors
      /\ trav.visitor_stack[n].visitor = visitor
      /\ \A k \in 1 .. n : trav.visitor_stack[k].visitor = first + k - 1
  BY <1>1, StackInHand
<1>3. visitor = first + n - 1
  BY <1>1, <1>2
<1>4. \A k \in 1 .. n : trav.visitor_stack[k] \in Element
  BY <1>1, StackInHand, ElementOfSeq
<1>5. ASSUME NEW k \in 1 .. n - 1
      PROVE  trav.visitor_stack[k].visitor \in DOMAIN input.visitors /\ trav.visitor_stack[k].visitor # visitor
  <2>1. k \in 1 .. n
    BY <1>1
  <2> QED
    BY <1>1, <1>2, <1>3, <1>4, <2>1 DEF Element
<1> QED
  BY <1>1, <1>2, <1>3, <1>5

LEMMA StaysInProgress ==
  ASSUME IInv, Running, InProgress, Stays, TopInHand'
  PROVE  InProgress'
<1>1. visitor' = visitor /\ (\A v : Active(v)' <=> Active(v)) /\ input' = input
  BY StaysVisitor DEF Stays
<1>2. /\ DOMAIN input.visitors \subseteq Nat /\ visitor \in DOMAIN input.visitors
      /\ trav.visitor_stack[1].visitor \in DOMAIN input.visitors
      /\ trav.visitor_stack[1].visitor <= visitor
      /\ \A k \in 1 .. Len(trav.visitor_stack) - 1 :
           trav.visitor_stack[k].visitor \in DOMAIN input.visitors /\ trav.visitor_stack[k].visitor # visitor
  BY BelowTop
<1>3. InUse'
  BY <1>1 DEF InProgress, InUse
<1>4. CleanAhead'
  <2>1. \A v \in DOMAIN input.visitors : v > visitor => v # visitor
    BY <1>2
  <2> QED
    BY <1>1, <2>1, SameClean DEF InProgress, CleanAhead, Stays
<1>5. Ordered(trav.visitor_stack)'
  <2>1. PICK stack : stack = trav.visitor_stack
    OBVIOUS
  <2>2. Ordered(stack)'
    BY <1>1, <1>2, <2>1, SameOrdered DEF InProgress, Stays
  <2> QED
    BY <2>1, <2>2 DEF Stays
<1>6. \A i \in DOMAIN call' : PutAside(i)'
  <2>1. \A v \in DOMAIN input.visitors : v < trav.visitor_stack[1].visitor => v # visitor
    BY <1>2
  <2> QED
    BY <2>1, AsideStays DEF Stays
<1> QED
  BY <1>3, <1>4, <1>5, <1>6 DEF InProgress

\* next_ is pushed.
Pushes(d) ==
  /\ input' = input /\ call' = call
  /\ trav'.visitor_stack = Append(trav.visitor_stack, [visitor |-> visitor + 1, depth_added |-> d])
  /\ \A v \in DOMAIN input.visitors : v # visitor => SameState(v)

LEMMA PushesStack ==
  ASSUME IInv, Running, Kind # "Emitter", NEW d \in Nat, Pushes(d)
  PROVE  /\ visitor + 1 \in DOMAIN input.visitors
         /\ visitor' = visitor + 1
         /\ Last(trav.visitor_stack)' = [visitor |-> visitor + 1, depth_added |-> d]
         /\ Len(trav'.visitor_stack) = Len(trav.visitor_stack) + 1
         /\ trav'.visitor_stack[Len(trav.visitor_stack) + 1] = [visitor |-> visitor + 1, depth_added |-> d]
         /\ \A k \in 1 .. Len(trav.visitor_stack) : trav'.visitor_stack[k] = trav.visitor_stack[k]
         /\ DOMAIN trav'.visitor_stack = 1 .. Len(trav.visitor_stack) + 1
<1>1. PICK e : e = [visitor |-> visitor + 1, depth_added |-> d]
  OBVIOUS
<1>2. trav.visitor_stack \in Seq(Element) /\ visitor + 1 \in DOMAIN input.visitors
  BY StackInHand, NextVisitor DEF Kind, This
<1>3. e \in Element
  BY <1>1, <1>2 DEF Element
<1>4. PICK stack \in Seq(Element) : stack = trav.visitor_stack
  BY <1>2
<1>5. /\ trav'.visitor_stack = Append(stack, e)
      /\ Append(stack, e) \in Seq(Element)
      /\ Len(Append(stack, e)) = Len(stack) + 1
      /\ Append(stack, e)[Len(stack) + 1] = e
      /\ \A k \in 1 .. Len(stack) : Append(stack, e)[k] = stack[k]
  BY <1>1, <1>3, <1>4, AppendProperties DEF Pushes
<1>6. DOMAIN trav'.visitor_stack = 1 .. Len(stack) + 1
  BY <1>5, LenProperties
<1>7. Last(trav.visitor_stack)' = e
  BY <1>5 DEF Last
<1>8. visitor' = visitor + 1
  BY <1>1, <1>7 DEF visitor
<1> QED
  BY <1>1, <1>2, <1>4, <1>5, <1>6, <1>7, <1>8

\* Nothing is lost with a visitor in between.
LEMMA PushedOnStep ==
  ASSUME NEW e, NEW f, NEW g, e.depth_added \in Nat, f.depth_added \in Nat, g.depth_added \in Nat,
         PushedOn(e, f)', PushedOn(f, g)'
  PROVE  PushedOn(e, g)'
<1>1. Level(e.visitor)' \in Nat
  BY DEF Level
<1> QED
  BY <1>1 DEF PushedOn, Seen, KindOf

LEMMA PushesOwn ==
  ASSUME IInv, Running, OwnStates, NEW d \in Nat, Pushes(d), NEW u, u = visitor, OwnState(u)'
  PROVE  OwnStates'
<1>1. \A v \in DOMAIN input.visitors : v # visitor => OwnState(v)'
  BY SameClean DEF OwnStates, Pushes
<1> QED
  BY <1>1 DEF OwnStates, Pushes

LEMMA PushesInProgress ==
  ASSUME IInv, Running, InProgress, Kind # "Emitter", NEW d \in Nat, Pushes(d), TopInHand',
         NEW top, top = Last(trav.visitor_stack),
         NEW e, e = [visitor |-> visitor + 1, depth_added |-> d], PushedOn(top, e)'
  PROVE  InProgress'
<1>1. PICK n \in Nat \ {0} : n = Len(trav.visitor_stack)
  BY StackInHand
<1>2. /\ DOMAIN input.visitors \subseteq Nat /\ visitor \in DOMAIN input.visitors
      /\ trav.visitor_stack[1].visitor <= visitor
      /\ trav.visitor_stack[n] = top
      /\ DOMAIN trav.visitor_stack = 1 .. n
      /\ \A k \in 1 .. n - 1 :
           trav.visitor_stack[k].visitor \in DOMAIN input.visitors /\ trav.visitor_stack[k].visitor # visitor
  BY <1>1, BelowTop, StackInHand
<1>3. /\ visitor' = visitor + 1
      /\ Len(trav'.visitor_stack) = n + 1
      /\ trav'.visitor_stack[n + 1] = e
      /\ \A k \in 1 .. n : trav'.visitor_stack[k] = trav.visitor_stack[k]
      /\ DOMAIN trav'.visitor_stack = 1 .. n + 1
      /\ input' = input /\ call' = call
  BY <1>1, PushesStack DEF Pushes
<1>4. InUse'
  <2> SUFFICES ASSUME NEW v \in DOMAIN input.visitors, v <= visitor + 1
               PROVE  Active(v)'
    BY <1>3 DEF InUse
  <2>1. CASE v = visitor + 1
    <3>1. trav'.visitor_stack[n + 1].visitor = v /\ n + 1 \in 1 .. n + 1
      BY <1>3, <2>1
    <3> QED
      BY <1>3, <3>1 DEF Active, OnStack
  <2>2. CASE v # visitor + 1
    <3>1. Active(v)
      BY <1>2, <2>2 DEF InProgress, InUse
    <3>2. OnStack(trav, v) => OnStack(trav', v)
      <4>1. \A k \in 1 .. n : k \in 1 .. n + 1
        OBVIOUS
      <4> QED
        BY <1>2, <1>3, <4>1 DEF OnStack
    <3> QED
      BY <1>3, <3>1, <3>2 DEF Active, OnStack
  <2> QED
    BY <2>1, <2>2
<1>5. CleanAhead'
  <2>1. \A v \in DOMAIN input.visitors : v > visitor + 1 => v > visitor /\ v # visitor
    BY <1>2
  <2> QED
    BY <1>3, <2>1, SameClean DEF InProgress, CleanAhead, Pushes
<1>6. Ordered(trav.visitor_stack)'
  <2>1. PICK stack : stack = trav.visitor_stack
    OBVIOUS
  <2>2. Ordered(stack)'
    BY <1>1, <1>2, <2>1, SameOrdered DEF InProgress, Pushes
  <2>3. PICK longer : longer = trav'.visitor_stack
    OBVIOUS
  <2>4. ASSUME NEW k \in 1 .. n, NEW l \in k + 1 .. n + 1
        PROVE  PushedOn(longer[k], longer[l])'
    <3>1. longer[k] = stack[k] /\ (l \in 1 .. n => longer[l] = stack[l])
      BY <1>3, <2>1, <2>3
    <3>2. CASE l # n + 1
      <4>1. k \in 1 .. n - 1 /\ l \in k + 1 .. n /\ l \in 1 .. n
        BY <3>2
      <4>2. PushedOn(stack[k], stack[l])'
        BY <1>1, <2>1, <2>2, <4>1 DEF Ordered
      <4> QED
        BY <3>1, <4>1, <4>2
    <3>3. CASE l = n + 1 /\ k = n
      BY <1>2, <1>3, <2>3, <3>3
    <3>4. CASE l = n + 1 /\ k # n
      <4>1. k \in 1 .. n - 1 /\ n \in k + 1 .. n
        BY <3>4
      <4>2. PushedOn(stack[k], top)'
        BY <1>1, <1>2, <2>1, <2>2, <4>1 DEF Ordered
      <4>3. stack[k] \in Element /\ top \in Element
        BY <1>1, <2>1, StackInHand, ElementOfSeq
      <4>4. PushedOn(stack[k], e)'
        BY <1>3, <4>2, <4>3, PushedOnStep DEF Element
      <4> QED
        BY <1>3, <2>3, <3>1, <3>4, <4>4
    <3> QED
      BY <3>2, <3>3, <3>4
  <2>5. Len(longer) = n + 1 /\ (n + 1) - 1 = n
    BY <1>3, <2>3
  <2> QED
    BY <2>3, <2>4, <2>5 DEF Ordered
<1>7. \A i \in DOMAIN call' : PutAside(i)'
  <2>1. \A v \in DOMAIN input.visitors : v < trav.visitor_stack[1].visitor => v # visitor
    BY <1>2, StackInHand
  <2>2. trav'.visitor_stack[1] = trav.visitor_stack[1]
    BY <1>3
  <2> QED
    BY <2>1, <2>2, AsideStays DEF Pushes
<1> QED
  BY <1>4, <1>5, <1>6, <1>7 DEF InProgress

\* The visitor on top is popped, and is as good as new.
Pops ==
  /\ input' = input /\ call' = call
  /\ trav'.visitor_stack = Front(trav.visitor_stack)
  /\ \A v \in DOMAIN input.visitors : v # visitor => SameState(v)

LEMMA PopsStack ==
  ASSUME IInv, Running, Pops, Len(trav.visitor_stack) > 1
  PROVE  /\ visitor' = visitor - 1
         /\ Len(trav'.visitor_stack) = Len(trav.visitor_stack) - 1
         /\ Last(trav.visitor_stack)' = trav.visitor_stack[Len(trav.visitor_stack) - 1]
         /\ \A k \in 1 .. Len(trav.visitor_stack) - 1 : trav'.visitor_stack[k] = trav.visitor_stack[k]
         /\ DOMAIN trav'.visitor_stack = 1 .. Len(trav.visitor_stack) - 1
<1>1. PICK stack \in Seq(Element) : stack = trav.visitor_stack /\ stack # <<>>
  BY StackInHand
<1>2. PICK m \in Nat \ {0} : Len(stack) = m + 1
  <2>1. PICK n \in Nat : Len(stack) = n /\ n > 1
    BY <1>1, LenProperties
  <2>2. n - 1 \in Nat \ {0} /\ n = (n - 1) + 1
    BY <2>1
  <2> QED
    BY <2>1, <2>2
<1>3. /\ trav'.visitor_stack = Front(stack)
      /\ Front(stack) \in Seq(Element)
      /\ Len(Front(stack)) = m
      /\ \A k \in 1 .. m : Front(stack)[k] = stack[k]
  <2>1. m + 1 - 1 = m
    BY <1>2
  <2> QED
    BY <1>1, <1>2, <2>1, FrontLast DEF Pops
<1>4. DOMAIN trav'.visitor_stack = 1 .. m
  BY <1>3, LenProperties
<1>5. Last(trav.visitor_stack)' = stack[m]
  BY <1>2, <1>3 DEF Last
<1>6. visitor' = visitor - 1
  <2>1. PICK first \in Nat : first = stack[1].visitor
    BY <1>1, StackInHand
  <2>2. stack[m].visitor = first + m - 1 /\ stack[m + 1].visitor = first + (m + 1) - 1
    <3>1. m \in 1 .. m + 1 /\ m + 1 \in 1 .. m + 1
      BY <1>2
    <3>2. \A k \in 1 .. m + 1 : stack[k].visitor = first + k - 1
      BY <1>1, <1>2, <2>1, StackInHand
    <3> QED
      BY <3>1, <3>2
  <2>3. visitor = stack[m + 1].visitor
    BY <1>1, <1>2, StackInHand
  <2> QED
    BY <1>5, <2>2, <2>3 DEF visitor
<1> QED
  BY <1>1, <1>2, <1>3, <1>4, <1>5, <1>6

LEMMA PopsInProgress ==
  ASSUME IInv, Running, InProgress, Pops, Len(trav.visitor_stack) > 1, TopInHand',
         NEW u, u = visitor, Clean(u)'
  PROVE  InProgress'
<1>1. PICK n \in Nat \ {0} : n = Len(trav.visitor_stack) /\ n > 1
  BY StackInHand
<1>2. /\ DOMAIN input.visitors \subseteq Nat /\ visitor \in DOMAIN input.visitors
      /\ trav.visitor_stack[1].visitor <= visitor
      /\ trav.visitor_stack[n].visitor = visitor
      /\ DOMAIN trav.visitor_stack = 1 .. n
      /\ \A k \in 1 .. n - 1 :
           trav.visitor_stack[k].visitor \in DOMAIN input.visitors /\ trav.visitor_stack[k].visitor # visitor
  BY <1>1, BelowTop, StackInHand
<1>3. /\ visitor' = visitor - 1
      /\ Len(trav'.visitor_stack) = n - 1
      /\ \A k \in 1 .. n - 1 : trav'.visitor_stack[k] = trav.visitor_stack[k]
      /\ DOMAIN trav'.visitor_stack = 1 .. n - 1
      /\ input' = input /\ call' = call
  BY <1>1, PopsStack DEF Pops
<1>4. InUse'
  <2> SUFFICES ASSUME NEW v \in DOMAIN input.visitors, v <= visitor - 1
               PROVE  Active(v)'
    BY <1>3 DEF InUse
  <2>1. Active(v) /\ v # visitor
    BY <1>2 DEF InProgress, InUse
  <2>2. OnStack(trav, v) => OnStack(trav', v)
    <3> SUFFICES ASSUME NEW k \in 1 .. n, trav.visitor_stack[k].visitor = v
                 PROVE  OnStack(trav', v)
      BY <1>2 DEF OnStack
    <3>1. k \in 1 .. n - 1
      BY <1>1, <1>2, <2>1
    <3> QED
      BY <1>3, <3>1 DEF OnStack
  <2> QED
    BY <1>3, <2>1, <2>2 DEF Active, OnStack
<1>5. CleanAhead'
  <2>1. \A v \in DOMAIN input.visitors : v > visitor - 1 => v = u \/ (v > visitor /\ v # visitor)
    BY <1>2
  <2> QED
    BY <1>3, <2>1, SameClean DEF InProgress, CleanAhead, Pops
<1>6. Ordered(trav.visitor_stack)'
  <2>1. PICK stack : stack = trav.visitor_stack
    OBVIOUS
  <2>2. Ordered(stack)'
    BY <1>1, <1>2, <2>1, SameOrdered DEF InProgress, Pops
  <2>3. PICK shorter : shorter = trav'.visitor_stack
    OBVIOUS
  <2>4. ASSUME NEW k \in 1 .. (n - 1) - 1, NEW l \in k + 1 .. n - 1
        PROVE  PushedOn(shorter[k], shorter[l])'
    <3>1. k \in 1 .. n - 1 /\ l \in 1 .. n - 1 /\ l \in k + 1 .. n
      BY <1>1
    <3>2. PushedOn(stack[k], stack[l])'
      BY <1>1, <2>1, <2>2, <3>1 DEF Ordered
    <3>3. shorter[k] = stack[k] /\ shorter[l] = stack[l]
      BY <1>3, <2>1, <2>3, <3>1
    <3> QED
      BY <3>2, <3>3
  <2>5. Len(shorter) = n - 1
    BY <1>3, <2>3
  <2> QED
    BY <2>3, <2>4, <2>5 DEF Ordered
<1>7. \A i \in DOMAIN call' : PutAside(i)'
  <2>1. \A v \in DOMAIN input.visitors : v < trav.visitor_stack[1].visitor => v # visitor
    BY <1>2, StackInHand
  <2>2. trav'.visitor_stack[1] = trav.visitor_stack[1]
    BY <1>1, <1>3
  <2> QED
    BY <2>1, <2>2, AsideStays DEF Pops
<1> QED
  BY <1>4, <1>5, <1>6, <1>7 DEF InProgress

LEMMA PopsOwn ==
  ASSUME IInv, Running, OwnStates, Pops, NEW u, u = visitor, Clean(u)'
  PROVE  OwnStates'
<1>1. \A v \in DOMAIN input.visitors : v # visitor => OwnState(v)'
  BY SameClean DEF OwnStates, Pops
<1>2. OwnState(u)'
  BY DEF Clean, OwnState
<1> QED
  BY <1>1, <1>2 DEF OwnStates, Pops

-----------------------------------------------------------------------------
(* Calls *)

\* Nothing but the activations changes when a loop is entered or left.
AllSame == \A v \in DOMAIN input.visitors : SameState(v)

LEMMA LoopEntered ==
  ASSUME IInv, Running, InProgress, TopInHand', AllSame,
         input' = input, trav' = trav, NEW f \in Frames, f.op \in Loops, call' = Append(call, f)
  PROVE  InProgress'
<1>1. PICK n \in Nat \ {0} : n = Len(call)
  BY InHand
<1>2. /\ DOMAIN call = 1 .. n /\ DOMAIN call' = 1 .. n + 1
      /\ \A i \in 1 .. n : call'[i] = call[i]
      /\ call'[n + 1] = f
  BY <1>1, InHand, AppendProperties, LenProperties
<1>3. visitor' = visitor
  BY DEF visitor
<1>4. InUse'
  <2>1. \A k \in 1 .. n : k \in 1 .. n + 1
    OBVIOUS
  <2>2. \A v : Active(v) => Active(v)'
    BY <1>2, <2>1 DEF Active, OnStack
  <2> QED
    BY <1>3, <2>2 DEF InProgress, InUse
<1>5. CleanAhead'
  BY <1>3, SameClean DEF InProgress, CleanAhead, AllSame
<1>6. Ordered(trav.visitor_stack)'
  <2>1. PICK stack : stack = trav.visitor_stack
    OBVIOUS
  <2>2. Ordered(stack)'
    BY <2>1, BelowTop, SameOrdered DEF InProgress, AllSame
  <2> QED
    BY <2>1, <2>2
<1>7. \A i \in DOMAIN call' : PutAside(i)'
  <2> SUFFICES ASSUME NEW i \in 1 .. n + 1, call'[i].op = "Forward"
               PROVE  PutAside(i)'
    BY <1>2 DEF PutAside
  <2>1. \A j \in 1 .. n + 1 : call'[j].op = "Forward" => j \in 1 .. n /\ call'[j] = call[j]
    BY <1>2 DEF Loops
  <2>2. PICK d : d = call[i]
    OBVIOUS
  <2>3. Ordered(d.trav.visitor_stack)'
    BY <1>2, <2>1, <2>2, SameAside DEF AllSame
  <2>4. PutAside(i)
    BY <1>2, <2>1 DEF InProgress
  <2> QED
    BY <1>2, <2>1, <2>2, <2>3, <2>4 DEF PutAside, Before
<1> QED
  BY <1>4, <1>5, <1>6, <1>7 DEF InProgress

\* The caller of the last activation is what call' holds once that has returned.
LEMMA CallShrinks ==
  ASSUME IInv, Running, call' = Front(call)
  PROVE  \E n \in Nat : /\ Len(call) = n + 1
                        /\ DOMAIN call = 1 .. n + 1 /\ DOMAIN call' = 1 .. n
                        /\ \A i \in 1 .. n : call'[i] = call[i]
                        /\ call[n + 1] = Last(call)
<1>1. call \in Seq(Frames) /\ call # <<>> /\ Last(call) = call[Len(call)]
  BY InHand
<1>2. PICK n \in Nat : Len(call) = n + 1
  <2>1. PICK m \in Nat \ {0} : m = Len(call)
    BY InHand
  <2>2. m - 1 \in Nat /\ m = (m - 1) + 1
    BY <2>1
  <2> QED
    BY <2>1, <2>2
<1>3. /\ Front(call) \in Seq(Frames)
      /\ Len(Front(call)) = n
      /\ \A i \in 1 .. n : Front(call)[i] = call[i]
  <2>1. n + 1 - 1 = n
    BY <1>2
  <2> QED
    BY <1>1, <1>2, <2>1, FrontLast
<1>4. DOMAIN call = 1 .. n + 1 /\ DOMAIN call' = 1 .. n
  BY <1>1, <1>2, <1>3, LenProperties
<1> QED
  BY <1>1, <1>2, <1>3, <1>4

LEMMA LoopLeft ==
  ASSUME IInv, Running, InProgress, TopInHand', AllSame,
         input' = input, trav' = trav, Last(call).op \in Loops, call' = Front(call)
  PROVE  InProgress'
<1>1. PICK n \in Nat : /\ Len(call) = n + 1
                       /\ DOMAIN call = 1 .. n + 1 /\ DOMAIN call' = 1 .. n
                       /\ \A i \in 1 .. n : call'[i] = call[i]
                       /\ call[n + 1] = Last(call)
  BY CallShrinks
<1>2. \A k \in 1 .. n : k \in 1 .. n + 1
  OBVIOUS
<1>3. visitor' = visitor
  BY DEF visitor
<1>4. InUse'
  <2> SUFFICES ASSUME NEW v \in DOMAIN input.visitors, v <= visitor
               PROVE  Active(v)'
    BY <1>3 DEF InUse
  <2>1. Active(v)
    BY DEF InProgress, InUse
  <2>2. CASE OnStack(trav, v)
    BY <2>2 DEF Active, OnStack
  <2>3. CASE ~OnStack(trav, v)
    <3>1. PICK i \in 1 .. n + 1 : OnStack(call[i].trav, v)
      BY <1>1, <2>1, <2>3 DEF Active
    <3>2. CASE i = n + 1
      <4>1. OnStack(Last(call).trav, v)
        BY <1>1, <3>1, <3>2
      <4>2. Called(Last(Front(call)), Last(call)) /\ Last(Front(call)) \in Frames
        BY Caller DEF Loops
      <4>3. Last(call).trav \in Traversers
        BY InHand DEF Frames
      <4>4. trav.visitor_stack[1].visitor = Last(call).trav.visitor_stack[1].visitor
        BY InHand DEF StackFollows, ChainFrom
      <4>5. PICK first : ChainFrom(Last(call).trav, first)
        BY <4>2 DEF Called, StackFollows, Frames
      <4>6. PICK k \in DOMAIN Last(call).trav.visitor_stack : Last(call).trav.visitor_stack[k].visitor = v
        BY <4>1 DEF OnStack
      <4>7. k \in Nat \ {0}
        BY <4>3, <4>6, LenProperties DEF Traversers
      <4>8. first = trav.visitor_stack[1].visitor /\ first \in Nat /\ v = first + k - 1
        BY <4>4, <4>5, <4>6, StackInHand DEF ChainFrom
      <4>9. first <= v
        BY <4>7, <4>8
      <4> QED
        BY <2>3, <4>8, <4>9, OnStackInHand
    <3>3. CASE i # n + 1
      <4>1. i \in 1 .. n
        BY <3>3
      <4> QED
        BY <1>1, <3>1, <4>1 DEF Active, OnStack
    <3> QED
      BY <3>2, <3>3
  <2> QED
    BY <2>2, <2>3
<1>5. CleanAhead'
  BY <1>3, SameClean DEF InProgress, CleanAhead, AllSame
<1>6. Ordered(trav.visitor_stack)'
  <2>1. PICK stack : stack = trav.visitor_stack
    OBVIOUS
  <2>2. Ordered(stack)'
    BY <2>1, BelowTop, SameOrdered DEF InProgress, AllSame
  <2> QED
    BY <2>1, <2>2
<1>7. \A i \in DOMAIN call' : PutAside(i)'
  <2> SUFFICES ASSUME NEW i \in 1 .. n, call'[i].op = "Forward"
               PROVE  PutAside(i)'
    BY <1>1 DEF PutAside
  <2>1. PICK d : d = call[i]
    OBVIOUS
  <2>2. Ordered(d.trav.visitor_stack)'
    BY <1>1, <1>2, <2>1, SameAside DEF AllSame
  <2>3. PutAside(i)
    BY <1>1, <1>2 DEF InProgress
  <2> QED
    BY <1>1, <1>2, <2>1, <2>2, <2>3 DEF PutAside, Before
<1> QED
  BY <1>4, <1>5, <1>6, <1>7 DEF InProgress

\* A value is forwarded to the visitor behind a MapFilter.
LEMMA ForwardEntered ==
  ASSUME IInv, Running, InProgress, pc = "EndField", Kind = "MapFilter",
         input' = input, trav' = NewTraverser(visitor + 1), pc' = "ScanField",
         NEW f \in Frames, f.op = "Forward", f.trav = trav, call' = Append(call, f),
         \A v \in DOMAIN input.visitors : v # visitor => SameState(v)
  PROVE  InProgress'
<1>1. PICK n \in Nat \ {0} : n = Len(call)
  BY InHand
<1>2. /\ DOMAIN call = 1 .. n /\ DOMAIN call' = 1 .. n + 1
      /\ \A i \in 1 .. n : call'[i] = call[i]
      /\ call'[n + 1] = f
  BY <1>1, InHand, AppendProperties, LenProperties
<1>3. PICK next : next = visitor + 1
  OBVIOUS
<1>4. next \in DOMAIN input.visitors /\ input \in Inputs
  BY <1>3, StackInHand, NextVisitor DEF Kind, This
<1>5. /\ trav'.depth = 0
      /\ trav'.visitor_stack = <<[visitor |-> next, depth_added |-> 0]>>
  <2>1. trav'.depth = 0
    BY <1>3, <1>4, NewTraverserType
  <2>2. [visitor_stack |-> <<>>, depth |-> 0] \in Traversers
    BY EmptySeq DEF Traversers
  <2>3. trav'.visitor_stack = Append(<<>>, [visitor |-> next, depth_added |-> 0])
    BY <1>3, <1>4, <2>2, PushType DEF NewTraverser
  <2> QED
    BY <2>1, <2>3
<1>6. /\ visitor' = next
      /\ Last(trav.visitor_stack)' = [visitor |-> next, depth_added |-> 0]
      /\ trav'.visitor_stack[1].visitor = next
      /\ Len(trav'.visitor_stack) = 1 /\ DOMAIN trav'.visitor_stack = 1 .. 1
  <2>1. PICK e : e = [visitor |-> next, depth_added |-> 0]
    OBVIOUS
  <2>2. trav'.visitor_stack = <<e>>
    BY <1>5, <2>1
  <2>3. Len(trav'.visitor_stack) = 1 /\ DOMAIN trav'.visitor_stack = 1 .. 1 /\ trav'.visitor_stack[1] = e
    <3>1. Len(<<e>>) = 1 /\ <<e>>[1] = e /\ <<e>> \in Seq({e})
      OBVIOUS
    <3> QED
      BY <2>2, <3>1, LenProperties
  <2>4. Last(trav.visitor_stack)' = e
    BY <2>3 DEF Last
  <2>5. e.visitor = next
    BY <2>1
  <2>6. visitor' = next
    BY <2>4, <2>5 DEF visitor
  <2> QED
    BY <2>1, <2>3, <2>4, <2>5, <2>6
<1>7. /\ DOMAIN input.visitors \subseteq Nat /\ visitor \in DOMAIN input.visitors
      /\ trav.visitor_stack[1].visitor <= visitor
      /\ trav.visitor_stack[1].visitor \in DOMAIN input.visitors
  BY BelowTop
<1>8. \A v \in DOMAIN input.visitors : v < trav.visitor_stack[1].visitor => SameState(v)
  BY <1>7
<1>9. Clean(next)'
  <2>1. next > visitor /\ next # visitor
    BY <1>3, <1>7
  <2> QED
    BY <1>4, <2>1, SameClean DEF InProgress, CleanAhead
<1>10. InUse'
  <2> SUFFICES ASSUME NEW v \in DOMAIN input.visitors, v <= visitor + 1
               PROVE  Active(v)'
    BY <1>3, <1>6 DEF InUse
  <2>1. CASE v = next
    BY <1>6, <2>1 DEF Active, OnStack
  <2>2. CASE v # next
    <3>1. Active(v)
      BY <1>3, <1>7, <2>2 DEF InProgress, InUse
    <3>2. \A k \in 1 .. n : k \in 1 .. n + 1
      OBVIOUS
    <3> QED
      BY <1>2, <3>1, <3>2 DEF Active, OnStack
  <2> QED
    BY <2>1, <2>2
<1>11. CleanAhead'
  <2>1. \A v \in DOMAIN input.visitors : v > next => v > visitor /\ v # visitor
    BY <1>3, <1>7
  <2> QED
    BY <1>6, <2>1, SameClean DEF InProgress, CleanAhead
<1>12. Ordered(trav.visitor_stack)'
  BY <1>6 DEF Ordered
<1>13. TopInHand'
  <2>1. Seen([visitor |-> next, depth_added |-> 0], 0)'
    BY <1>9 DEF Seen, Level, Clean
  <2>2. Clean(visitor)'
    BY <1>6, <1>9 DEF Clean, CleanEntries
  <2> QED
    BY <1>5, <1>6, <2>1, <2>2 DEF TopInHand, Deepest, Open, Ending
<1>14. \A i \in DOMAIN call' : PutAside(i)'
  <2> SUFFICES ASSUME NEW i \in 1 .. n + 1, call'[i].op = "Forward"
               PROVE  PutAside(i)'
    BY <1>2 DEF PutAside
  <2>1. CASE i = n + 1
    <3>1. PICK stack : stack = trav.visitor_stack
      OBVIOUS
    <3>2. Ordered(stack)'
      BY <3>1, BelowTop, SameOrdered DEF InProgress
    <3>3. Last(stack).depth_added <= f.trav.depth + 1
      BY <3>1 DEF InProgress, TopInHand, Deepest, Open, Ending
    <3>4. Before(stack, trav'.visitor_stack)
      <4>1. ASSUME NEW k \in DOMAIN stack
            PROVE  stack[k].visitor \in Nat /\ stack[k].visitor <= visitor
        <5>1. stack[k] \in Element
          BY <3>1, StackInHand, ElementOfSeq
        <5>2. stack[k].visitor \in DOMAIN input.visitors
          BY <5>1 DEF Element
        <5>3. OnStack(trav, stack[k].visitor)
          BY <3>1 DEF OnStack
        <5> QED
          BY <1>7, <5>2, <5>3, OnStackInHand
      <4> QED
        BY <1>3, <1>6, <1>7, <4>1 DEF Before
    <3>5. \A j \in 1 .. n + 1 : ~(j > i)
      BY <2>1
    <3> QED
      BY <1>2, <2>1, <3>1, <3>2, <3>3, <3>4, <3>5 DEF PutAside, Before
  <2>2. CASE i # n + 1
    <3>1. i \in 1 .. n
      BY <2>2
    <3>2. PICK d : d = call[i]
      OBVIOUS
    <3>3. Ordered(d.trav.visitor_stack)'
      BY <1>2, <1>8, <3>1, <3>2, SameAside
    <3>4. PutAside(i)
      BY <1>2, <3>1 DEF InProgress
    <3>5. d \in Frames
      BY <1>2, <3>1, <3>2, InHand, ElementOfSeq
    <3>6. Before(d.trav.visitor_stack, trav'.visitor_stack)
      <4>1. Before(d.trav.visitor_stack, trav.visitor_stack)
        BY <1>2, <3>1, <3>2, <3>4 DEF PutAside
      <4>2. \A k \in DOMAIN d.trav.visitor_stack : d.trav.visitor_stack[k].visitor \in Nat
        <5>1. PICK waiting \in Seq(Element) : waiting = d.trav.visitor_stack
          BY <3>5 DEF Frames, Traversers, Element
        <5>2. \A k \in DOMAIN waiting : waiting[k] \in Element
          BY LenProperties, ElementOfSeq
        <5> QED
          BY <1>7, <5>1, <5>2 DEF Element
      <4> QED
        BY <1>3, <1>6, <1>7, <4>1, <4>2 DEF Before
    <3>7. ASSUME NEW j \in 1 .. n + 1, j > i, call'[j].op = "Forward"
          PROVE  Before(d.trav.visitor_stack, call'[j].trav.visitor_stack)
      <4>1. CASE j = n + 1
        BY <1>2, <3>1, <3>2, <3>4, <4>1 DEF PutAside
      <4>2. CASE j # n + 1
        <5>1. j \in 1 .. n
          BY <4>2
        <5> QED
          BY <1>2, <3>1, <3>2, <3>4, <3>7, <5>1 DEF PutAside
      <4> QED
        BY <4>1, <4>2
    <3> QED
      BY <1>2, <3>1, <3>2, <3>3, <3>4, <3>6, <3>7 DEF PutAside, Before
  <2> QED
    BY <2>1, <2>2
<1> QED
  BY <1>10, <1>11, <1>12, <1>13, <1>14 DEF InProgress

\* All visitors of a stack that is left at depth 0 have been pushed at depth 0.
LEMMA LeftAtBottom ==
  ASSUME IInv, Running, InProgress, OwnStates, pc = "Return",
         NEW v \in DOMAIN input.visitors, trav.visitor_stack[1].visitor <= v, v < visitor
  PROVE  Clean(v)
<1>1. PICK n \in Nat \ {0}, first \in Nat : n = Len(trav.visitor_stack) /\ first = trav.visitor_stack[1].visitor
  BY StackInHand
<1>2. PICK stack \in Seq(Element) : stack = trav.visitor_stack
  BY StackInHand
<1>3. /\ \A k \in 1 .. n : stack[k].visitor = first + k - 1
      /\ stack[n].visitor = visitor
      /\ Last(trav.visitor_stack) = stack[n]
      /\ v \in Nat
  BY <1>1, <1>2, StackInHand
<1>4. PICK k \in 1 .. n - 1 : stack[k].visitor = v
  <2>1. visitor = first + n - 1
    <3>1. n \in 1 .. n
      BY <1>1
    <3> QED
      BY <1>3, <3>1
  <2>2. PICK k \in Int : k = v - first + 1
    <3>1. v - first + 1 \in Int
      BY <1>1, <1>3
    <3> QED
      BY <3>1
  <2>3. k \in 1 .. n - 1 /\ k \in 1 .. n /\ first + k - 1 = v
    <3>1. PICK w \in Nat : w = v
      BY <1>3
    <3>2. first <= w /\ w < first + n - 1 /\ k = w - first + 1
      BY <1>1, <2>1, <2>2, <3>1
    <3> QED
      BY <3>1, <3>2
  <2>4. stack[k].visitor = v
    BY <1>3, <2>3
  <2> QED
    BY <2>3, <2>4
<1>5. stack[n].depth_added = 0
  <2>1. trav.depth = 0
    <3>1. DepthAtStep
      BY AtStep
    <3> QED
      BY <3>1, Zenon DEF DepthAtStep
  <2>2. stack[n].depth_added <= 0
    BY <1>3, <2>1 DEF InProgress, TopInHand, Deepest, Open, Ending
  <2>3. stack[n].depth_added \in Nat
    <3>1. stack[n] \in Element
      <4>1. n \in 1 .. Len(stack)
        BY <1>1, <1>2
      <4> QED
        BY <4>1, ElementOfSeq
    <3> QED
      BY <3>1 DEF Element
  <2> QED
    BY <2>2, <2>3
<1>6. PushedOn(stack[k], stack[n])
  <2>1. n \in k + 1 .. n
    BY <1>4
  <2> QED
    BY <1>1, <1>2, <2>1 DEF InProgress, Ordered
<1>7. KindOf(v) = "DescendIntoSubmessage"
  BY <1>4, <1>5, <1>6 DEF PushedOn
<1> QED
  BY <1>7 DEF OwnStates, OwnState, Clean

\* What Popped() leaves of the visitor on top is as good as new.
LEMMA PoppedClean ==
  ASSUME IInv, Running, OwnStates, Popped(visitor), input' = input,
         KindOf(visitor) = "AllMapEntries" => Level(visitor) = 0
  PROVE  /\ \A u : u = visitor => Clean(u)'
         /\ \A v \in DOMAIN input.visitors : v # visitor => SameState(v)
<1>1. PICK u \in DOMAIN input.visitors : u = visitor
  BY StackInHand
<1>2. /\ sel \in [DOMAIN input.visitors -> Selectors]
      /\ scope \in [DOMAIN input.visitors -> Scopes]
      /\ entry \in [DOMAIN input.visitors -> Entries]
  BY DEF IInv, TypeOK
<1>3. OwnState(u)
  BY DEF OwnStates
<1>4. CleanEntries' = CleanEntries /\ ResetEntry \in CleanEntries
  BY DEF CleanEntries
<1>5. sel'[u] = FreshSelector
  BY <1>1, <1>2, <1>3 DEF Popped, OwnState, KindOf
<1>6. scope'[u] = "Outermost"
  <2>1. KindOf(u) # "MapFilter" => scope[u] = "Outermost"
    BY <1>1, <1>3 DEF OwnState, Level
  <2> QED
    BY <1>1, <1>2, <2>1 DEF Popped, KindOf
<1>7. entry'[u] \in CleanEntries
  BY <1>1, <1>2, <1>3, <1>4 DEF Popped, OwnState, KindOf
<1>8. \A v \in DOMAIN input.visitors : v # visitor => SameState(v)
  BY <1>2 DEF Popped, SameState
<1> QED
  BY <1>1, <1>4, <1>5, <1>6, <1>7, <1>8 DEF Clean

\* The traverser that has forwarded a value goes on.
LEMMA ForwardLeft ==
  ASSUME IInv, Running, InProgress, OwnStates, pc = "Return", Last(call).op = "Forward",
         input' = input, trav' = Last(call).trav, call' = Front(call), pc' = "Reset",
         NEW u, u = visitor, Clean(u)',
         \A v \in DOMAIN input.visitors : v # visitor => SameState(v)
  PROVE  InProgress'
<1>1. PICK n \in Nat : /\ Len(call) = n + 1
                       /\ DOMAIN call = 1 .. n + 1 /\ DOMAIN call' = 1 .. n
                       /\ \A i \in 1 .. n : call'[i] = call[i]
                       /\ call[n + 1] = Last(call)
  BY CallShrinks
<1>2. \A i \in 1 .. n : i \in 1 .. n + 1 /\ n + 1 > i
  OBVIOUS
<1>3. PICK stack \in Seq(Element) : stack = trav'.visitor_stack
  BY InHand DEF Frames, Traversers, Element
<1>4. /\ visitor' \in DOMAIN input.visitors
      /\ visitor' + 1 = trav.visitor_stack[1].visitor
      /\ visitor' = Last(stack).visitor
  <2>1. ChainFrom(trav, visitor' + 1)
    BY InHand DEF StackFollows, visitor
  <2>2. visitor' \in DOMAIN input.visitors
    <3>1. stack # <<>>
      <4>1. Called(Last(Front(call)), Last(call)) /\ Last(Front(call)) \in Frames
        BY Caller
      <4> QED
        BY <1>3, <4>1 DEF Called, StackFollows, ChainFrom, Frames
    <3>2. Last(stack) \in Element
      BY <3>1, FrontLast
    <3> QED
      BY <1>3, <3>2 DEF visitor, Element
  <2> QED
    BY <1>3, <2>1, <2>2 DEF ChainFrom, visitor
<1>5. /\ DOMAIN input.visitors \subseteq Nat /\ visitor \in DOMAIN input.visitors
      /\ trav.visitor_stack[1].visitor <= visitor
  BY BelowTop
<1>6. PutAside(n + 1) /\ n + 1 \in DOMAIN call
  BY <1>1 DEF InProgress
<1>7. \A v \in DOMAIN input.visitors : v < trav.visitor_stack[1].visitor => SameState(v)
  BY <1>4, <1>5
<1>8. InUse'
  <2> SUFFICES ASSUME NEW v \in DOMAIN input.visitors, v <= visitor'
               PROVE  Active(v)'
    BY DEF InUse
  <2>1. Active(v) /\ ~OnStack(trav, v)
    BY <1>4, <1>5, OnStackInHand DEF InProgress, InUse
  <2>2. PICK i \in 1 .. n + 1 : OnStack(call[i].trav, v)
    BY <1>1, <2>1 DEF Active
  <2>3. CASE i = n + 1
    BY <1>1, <2>2, <2>3 DEF Active, OnStack
  <2>4. CASE i # n + 1
    <3>1. i \in 1 .. n
      BY <2>4
    <3> QED
      BY <1>1, <2>2, <3>1 DEF Active, OnStack
  <2> QED
    BY <2>3, <2>4
<1>9. CleanAhead'
  <2> SUFFICES ASSUME NEW v \in DOMAIN input.visitors, v > visitor'
               PROVE  Clean(v)'
    BY DEF CleanAhead
  <2>1. CASE v = visitor
    BY <2>1
  <2>2. CASE v > visitor
    <3>1. v # visitor
      BY <1>5, <2>2
    <3> QED
      BY <2>2, <3>1, SameClean DEF InProgress, CleanAhead
  <2>3. CASE v < visitor
    <3>1. v # visitor /\ trav.visitor_stack[1].visitor <= v
      BY <1>4, <1>5, <2>3
    <3> QED
      BY <2>3, <3>1, LeftAtBottom, SameClean
  <2> QED
    BY <1>5, <2>1, <2>2, <2>3
<1>10. Ordered(trav.visitor_stack)'
  <2>1. Ordered(stack)'
    BY <1>1, <1>3, <1>6, <1>7, SameAside
  <2> QED
    BY <1>3, <2>1
<1>11. TopInHand'
  BY <1>1, <1>6 DEF PutAside, TopInHand, Deepest, Open, Ending
<1>12. \A i \in DOMAIN call' : PutAside(i)'
  <2> SUFFICES ASSUME NEW i \in 1 .. n, call'[i].op = "Forward"
               PROVE  PutAside(i)'
    BY <1>1 DEF PutAside
  <2>1. PICK d : d = call[i]
    OBVIOUS
  <2>2. Ordered(d.trav.visitor_stack)'
    BY <1>1, <1>2, <1>7, <2>1, SameAside
  <2>3. PutAside(i)
    BY <1>1, <1>2 DEF InProgress
  <2>4. Before(d.trav.visitor_stack, trav'.visitor_stack)
    BY <1>1, <1>2, <2>1, <2>3 DEF PutAside
  <2> QED
    BY <1>1, <1>2, <2>1, <2>2, <2>3, <2>4 DEF PutAside, Before
<1> QED
  BY <1>8, <1>9, <1>10, <1>11, <1>12 DEF InProgress

-----------------------------------------------------------------------------
(* The actions *)

\* What every step of a run starts from.
LEMMA VisitorsAtStep ==
  ASSUME IInv, VInv, Running
  PROVE  /\ InProgress /\ OwnStates /\ TopInHand
         /\ \E top \in Element, d \in Nat :
              /\ top = Last(trav.visitor_stack) /\ d = trav.depth
              /\ top.visitor = visitor /\ top.depth_added \in Nat
              /\ top.depth_added <= Deepest(pc, d)
              /\ pc # "Reset" => Seen(top, Open(pc, d))
<1>1. InProgress /\ OwnStates /\ TopInHand
  BY DEF VInv, InProgress
<1>2. Last(trav.visitor_stack) \in Element /\ Last(trav.visitor_stack).visitor = visitor /\ trav.depth \in Nat
  BY StackInHand, AtStep
<1>3. PICK top \in Element, d \in Nat : top = Last(trav.visitor_stack) /\ d = trav.depth
  BY <1>2
<1>4. top.depth_added \in Nat
  BY DEF Element
<1> QED
  BY <1>1, <1>2, <1>3, <1>4 DEF TopInHand

\* A call of the visitor on top after which the run goes on, or has its last row.
LEMMA StaysInv ==
  ASSUME IInv, VInv, Running, IInv', Stays, NEW u, u = visitor, OwnState(u)',
         (GoesOn /\ TopInHand') \/ (pc' = "Done" /\ result' = "ok")
  PROVE  VInv'
<1>1. InProgress /\ OwnStates
  BY VisitorsAtStep
<1>2. visitor' = visitor /\ (\A v : Active(v)' <=> Active(v)) /\ input' = input
  BY StaysVisitor DEF Stays
<1>3. OwnStates'
  <2>1. OwnState(visitor)'
    BY <1>2 DEF OwnState, KindOf, CleanEntries
  <2> QED
    BY <1>1, <2>1, StaysOwn
<1>4. CASE GoesOn /\ TopInHand'
  BY <1>1, <1>3, <1>4, StaysInProgress, GoesOnInv
<1>5. CASE pc' = "Done" /\ result' = "ok"
  <2>1. IdleVisitorsAreClean'
    <3> SUFFICES ASSUME NEW v \in DOMAIN input.visitors, ~Active(v)'
                 PROVE  Clean(v)'
      BY <1>2 DEF IdleVisitorsAreClean, Clean, CleanEntries
    <3>1. v > visitor /\ v # visitor
      BY <1>1, <1>2, StackInHand DEF InProgress, InUse
    <3> QED
      BY <1>1, <1>2, <3>1, SameClean DEF InProgress, CleanAhead, Stays
  <2> QED
    BY <1>3, <1>5, <2>1 DEF VInv, Running
<1> QED
  BY <1>4, <1>5

LEMMA StaysTop ==
  ASSUME IInv, Running, Stays, NEW top, top = Last(trav.visitor_stack),
         NEW d, d = trav'.depth, top.depth_added <= Deepest(pc', d),
         NEW open, open = Open(pc', d), pc' # "Reset" => Seen(top, open)',
         pc' = "ScanField" => d # 0
  PROVE  TopInHand'
  BY DEF Stays, TopInHand

\* More open fields leave more room.
LEMMA SeenMore ==
  ASSUME NEW e, e.depth_added \in Nat, NEW open \in Int, NEW more \in Int, open <= more,
         input' = input, scope'[e.visitor] = scope[e.visitor], Seen(e, open)
  PROVE  Seen(e, more)'
<1>1. Level(e.visitor) \in Nat
  BY DEF Level
<1> QED
  BY <1>1 DEF Seen, KindOf, Level

\* The visitor's scope is left alone.
LEMMA ScopeKept ==
  ASSUME IInv, VInv, Running, IInv', GoesOn, Stays, NEW u, u = visitor, OwnState(u)',
         scope'[u] = scope[u], pc # "Reset", pc' # "Reset", pc' # "ScanField",
         NEW d \in Nat, d = trav'.depth, Open(pc', d) >= Open(pc, trav.depth),
         Last(trav.visitor_stack).depth_added <= Deepest(pc', d)
  PROVE  VInv'
<1>1. PICK top \in Element, b \in Nat :
        /\ top = Last(trav.visitor_stack) /\ b = trav.depth
        /\ top.visitor = visitor /\ top.depth_added \in Nat
        /\ Seen(top, Open(pc, b))
  BY VisitorsAtStep
<1>2. PICK open \in Int : open = Open(pc, b)
  BY DEF Open
<1>3. PICK more \in Int : more = Open(pc', d)
  BY DEF Open
<1>4. Seen(top, more)'
  BY <1>1, <1>2, <1>3, SeenMore DEF Stays
<1>5. TopInHand'
  BY <1>1, <1>3, <1>4, StaysTop
<1> QED
  BY <1>5, StaysInv

\* No field is open when a traverser returns.
LEMMA BottomLevel ==
  ASSUME IInv, VInv, Running, pc = "Return", KindOf(visitor) = "AllMapEntries"
  PROVE  Level(visitor) = 0
<1>1. PICK top \in Element, d \in Nat :
        /\ d = trav.depth
        /\ top.visitor = visitor /\ top.depth_added \in Nat
        /\ top.depth_added <= Deepest(pc, d)
        /\ Seen(top, Open(pc, d))
  BY VisitorsAtStep
<1>2. d = 0
  <2>1. DepthAtStep
    BY AtStep
  <2> QED
    BY <1>1, <2>1, Zenon DEF DepthAtStep
<1>3. top.depth_added = 0 /\ Seen(top, 0)
  BY <1>1, <1>2 DEF Deepest, Open, Ending
<1>4. Level(visitor) \in Nat
  BY DEF Level
<1> QED
  BY <1>1, <1>3, <1>4 DEF Seen

LEMMA RunVisitors ==
  ASSUME IInv, VInv, Run, IInv'
  PROVE  VInv'
<1>1. input \in Inputs /\ DOMAIN input.visitors \subseteq Nat \ {0} /\ 1 \in DOMAIN input.visitors
  BY InputsAssumption DEF IInv, IsChain
<1>2. \A v \in DOMAIN input.visitors : Clean(v) /\ SameState(v)
  BY DEF VInv, Run, SameState, visitorState
<1>3. PICK f : f = Frame("Run", field)
  OBVIOUS
<1>4. input' = input /\ call' = <<f>> /\ f.op = "Run" /\ trav' = NewTraverser(1)
  BY <1>3 DEF Run, Frame
<1>5. GoesOn /\ pc' = "ScanField"
  BY DEF Run, IInv, Control, GoesOn
<1>6. PICK e : e = [visitor |-> 1, depth_added |-> 0]
  OBVIOUS
<1>7. trav'.depth = 0 /\ trav'.visitor_stack = <<e>>
  <2>1. trav'.depth = 0
    BY <1>1, <1>4, NewTraverserType
  <2>2. [visitor_stack |-> <<>>, depth |-> 0] \in Traversers
    BY EmptySeq DEF Traversers
  <2>3. trav'.visitor_stack = Append(<<>>, e)
    BY <1>1, <1>4, <1>6, <2>2, PushType DEF NewTraverser
  <2> QED
    BY <2>1, <2>3
<1>8. /\ Len(trav'.visitor_stack) = 1 /\ DOMAIN trav'.visitor_stack = 1 .. 1
      /\ trav'.visitor_stack[1] = e
      /\ DOMAIN call' = 1 .. 1 /\ call'[1] = f
  <2>1. Len(<<e>>) = 1 /\ <<e>>[1] = e /\ <<e>> \in Seq({e})
    OBVIOUS
  <2>2. Len(<<f>>) = 1 /\ <<f>>[1] = f /\ <<f>> \in Seq({f})
    OBVIOUS
  <2> QED
    BY <1>4, <1>7, <2>1, <2>2, LenProperties
<1>9. Last(trav.visitor_stack)' = e /\ visitor' = 1 /\ e.visitor = 1 /\ e.depth_added = 0
  BY <1>6, <1>8 DEF Last, visitor
<1>10. \A v \in DOMAIN input.visitors : Clean(v)'
  BY <1>2, <1>4, SameClean
<1>11. InUse'
  <2>1. OnStack(trav, 1)'
    BY <1>8, <1>9 DEF OnStack
  <2>2. \A v \in DOMAIN input.visitors : v <= 1 => v = 1
    BY <1>1
  <2> QED
    BY <1>4, <1>9, <2>1, <2>2 DEF InUse, Active
<1>12. CleanAhead'
  BY <1>4, <1>10 DEF CleanAhead
<1>13. Ordered(trav.visitor_stack)'
  BY <1>8 DEF Ordered
<1>14. TopInHand'
  <2>1. Seen(e, 0)'
    BY <1>1, <1>4, <1>9, <1>10 DEF Seen, Level, Clean
  <2>2. Clean(visitor)'
    BY <1>1, <1>9, <1>10 DEF Clean, CleanEntries
  <2> QED
    BY <1>5, <1>7, <1>9, <2>1, <2>2 DEF TopInHand, Deepest, Open, Ending
<1>15. \A i \in DOMAIN call' : PutAside(i)'
  BY <1>4, <1>8 DEF PutAside
<1>16. OwnStates'
  BY <1>4, <1>10 DEF OwnStates, OwnState, Clean
<1> QED
  BY <1>5, <1>11, <1>12, <1>13, <1>14, <1>15, <1>16, GoesOnInv DEF InProgress

LEMMA RunReturnsVisitors ==
  ASSUME IInv, VInv, RunReturns, IInv'
  PROVE  VInv'
<1>1. Running /\ pc = "Return" /\ input' = input /\ call' = call
  BY DEF RunReturns, IInv, Control, Running
<1>2. InProgress /\ OwnStates
  BY <1>1, VisitorsAtStep
<1>3. PICK n \in Nat \ {0} : n = Len(trav.visitor_stack)
  BY <1>1, StackInHand
<1>4. KindOf(visitor) = "AllMapEntries" => Level(visitor) = 0
  BY <1>1, BottomLevel
<1>5. /\ \A u : u = visitor => Clean(u)'
      /\ \A v \in DOMAIN input.visitors : v # visitor => SameState(v)
  BY <1>1, <1>2, <1>4, PoppedClean DEF RunReturns
<1>6. OwnStates'
  <2>1. \A v \in DOMAIN input.visitors : v # visitor => OwnState(v)'
    BY <1>1, <1>2, <1>5, SameClean DEF OwnStates
  <2>2. \A v \in DOMAIN input.visitors : v = visitor => OwnState(v)'
    BY <1>5 DEF Clean, OwnState
  <2> QED
    BY <1>1, <2>1, <2>2 DEF OwnStates
<1>7. IdleVisitorsAreClean'
  <2> SUFFICES ASSUME NEW v \in DOMAIN input.visitors, ~Active(v)'
               PROVE  Clean(v)'
    BY <1>1 DEF IdleVisitorsAreClean, Clean, CleanEntries
  <2>1. CASE v = visitor
    BY <1>5, <2>1
  <2>2. CASE v # visitor
    <3>1. ~Active(v)
      <4>1. /\ trav'.visitor_stack = Front(trav.visitor_stack)
            /\ trav.visitor_stack \in Seq(Element) /\ trav.visitor_stack # <<>>
            /\ DOMAIN trav.visitor_stack = 1 .. n
            /\ trav.visitor_stack[n].visitor = visitor
        BY <1>1, <1>3, StackInHand, AtStep DEF RunReturns, Traversers
      <4>2. PICK stack \in Seq(Element) : stack = trav.visitor_stack /\ stack # <<>>
        BY <4>1
      <4>3. /\ Front(stack) \in Seq(Element) /\ Len(Front(stack)) = n - 1
            /\ \A k \in 1 .. n - 1 : Front(stack)[k] = stack[k]
        BY <1>3, <4>2, FrontLast
      <4>4. DOMAIN trav'.visitor_stack = 1 .. n - 1
        BY <4>1, <4>2, <4>3, LenProperties
      <4>5. \A k \in 1 .. n : k # n => k \in 1 .. n - 1
        BY <1>3
      <4>6. OnStack(trav, v) => OnStack(trav', v)
        BY <2>2, <4>1, <4>2, <4>3, <4>4, <4>5 DEF OnStack
      <4> QED
        BY <1>1, <4>6 DEF Active, OnStack
    <3>2. v > visitor
      BY <1>1, <1>2, <3>1, StackInHand DEF InProgress, InUse
    <3> QED
      BY <1>1, <1>2, <1>5, <2>2, <3>2, SameClean DEF InProgress, CleanAhead
  <2> QED
    BY <2>1, <2>2
<1> QED
  BY <1>6, <1>7 DEF VInv, RunReturns, Running

\* The visitor is not called.
LEMMA NotCalled ==
  ASSUME IInv, VInv, Running, IInv', GoesOn, input' = input, call' = call, UNCHANGED visitorState,
         trav'.visitor_stack = trav.visitor_stack,
         pc # "Reset", pc' # "Reset", pc' # "ScanField",
         NEW d \in Nat, d = trav'.depth, Open(pc', d) >= Open(pc, trav.depth),
         Last(trav.visitor_stack).depth_added <= Deepest(pc', d)
  PROVE  VInv'
<1>1. PICK u \in DOMAIN input.visitors : u = visitor
  BY StackInHand
<1>2. \A v : SameState(v)
  BY DEF SameState, visitorState
<1>3. OwnState(u)' /\ scope'[u] = scope[u]
  BY <1>1, <1>2, SameClean, VisitorsAtStep DEF OwnStates, SameState
<1> QED
  BY <1>1, <1>2, <1>3, ScopeKept DEF Stays

LEMMA ReadFieldValueOrSizeVisitors ==
  ASSUME IInv, VInv, pc = "NextField", NEW number, NEW wt, NEW p,
         ReadFieldValueOrSize(number, wt, p), IInv'
  PROVE  VInv'
<1>1. Running
  BY DEF IInv, Control, Running
<1>2. CASE ValueLength(wt, p) = 0
  BY <1>2, ThrownInv DEF ReadFieldValueOrSize
<1>3. CASE ValueLength(wt, p) # 0
  <2>1. /\ input' = input /\ call' = call /\ UNCHANGED visitorState
        /\ trav'.visitor_stack = trav.visitor_stack /\ trav'.depth = trav.depth + 1
        /\ pc' = "BeginField" /\ GoesOn
    BY <1>1, <1>3, AtStep DEF ReadFieldValueOrSize, Traversers, GoesOn
  <2>2. PICK top \in Element, b \in Nat :
          top = Last(trav.visitor_stack) /\ b = trav.depth /\ top.depth_added <= Deepest(pc, b)
    BY <1>1, VisitorsAtStep
  <2>3. PICK d \in Nat : d = trav'.depth /\ d = b + 1
    BY <2>1, <2>2
  <2>4. Open(pc', d) >= Open(pc, trav.depth) /\ top.depth_added <= Deepest(pc', d)
    BY <2>1, <2>2, <2>3 DEF Open, Deepest, Ending, Element
  <2> QED
    BY <1>1, <2>1, <2>2, <2>3, <2>4, NotCalled
<1> QED
  BY <1>2, <1>3

LEMMA ReadFieldVisitors ==
  ASSUME IInv, VInv, ReadField, IInv'
  PROVE  VInv'
<1> DEFINE n == VarintLength(Stream, cursor.pos, cursor.limit)
           tag == VarintValue(Stream, cursor.pos)
<1>1. CASE n = 0 \/ tag = 0
  BY <1>1, ThrownInv DEF ReadField
<1>2. CASE ~(n = 0 \/ tag = 0)
  <2>1. ReadFieldValueOrSize(tag \div 8, tag % 8, cursor.pos + n) /\ pc = "NextField"
    BY <1>2 DEF ReadField
  <2> HIDE DEF n, tag
  <2> QED
    BY <2>1, ReadFieldValueOrSizeVisitors
<1> QED
  BY <1>1, <1>2

LEMMA ReadPackedElementVisitors ==
  ASSUME IInv, VInv, ReadPackedElement, IInv'
  PROVE  VInv'
  BY ReadFieldValueOrSizeVisitors DEF ReadPackedElement

LEMMA SkipVisitors ==
  ASSUME IInv, VInv, Skip, IInv'
  PROVE  VInv'
<1>1. /\ Running /\ pc = "Skip" /\ pc' \in {"Decrement", "Return"} /\ GoesOn
      /\ input' = input /\ call' = call /\ trav' = trav /\ UNCHANGED visitorState
  BY DEF Skip, AfterTreatment, AfterScanField, IInv, Control, Running, GoesOn
<1>2. PICK top \in Element, d \in Nat :
        top = Last(trav.visitor_stack) /\ d = trav.depth /\ top.depth_added <= Deepest(pc, d)
  BY <1>1, VisitorsAtStep
<1>3. Open(pc', d) = d /\ Open(pc, d) = d /\ Deepest(pc', d) = Deepest(pc, d)
  BY <1>1 DEF Open, Deepest, Ending
<1> QED
  BY <1>1, <1>2, <1>3, NotCalled

LEMMA DecrementDepthVisitors ==
  ASSUME IInv, VInv, DecrementDepth, IInv'
  PROVE  VInv'
<1>1. /\ Running /\ pc = "Decrement" /\ pc' = "EndField" /\ GoesOn
      /\ input' = input /\ call' = call /\ UNCHANGED visitorState
  BY DEF DecrementDepth, IInv, Control, Running, GoesOn
<1>2. /\ trav'.visitor_stack = trav.visitor_stack /\ trav'.depth = trav.depth - 1
      /\ trav'.depth \in Nat
  BY <1>1, AtStep DEF DecrementDepth, Traversers, IInv, TypeOK
<1>3. PICK top \in Element, b \in Nat :
        top = Last(trav.visitor_stack) /\ b = trav.depth /\ top.depth_added <= Deepest(pc, b)
  BY <1>1, VisitorsAtStep
<1>4. PICK d \in Nat : d = trav'.depth /\ d = b - 1
  BY <1>2, <1>3
<1>5. Open(pc', d) = b /\ Open(pc, b) = b /\ Deepest(pc', d) = Deepest(pc, b)
  BY <1>1, <1>4 DEF Open, Deepest, Ending
<1> QED
  BY <1>1, <1>2, <1>3, <1>4, <1>5, NotCalled

LEMMA AllPoppedVisitors ==
  ASSUME IInv, VInv, AllPopped, IInv'
  PROVE  VInv'
<1>1. /\ Running /\ pc = "PopVisitors" /\ pc' \in {"NextField", "Decrement", "Return"} /\ GoesOn
      /\ input' = input /\ call' = call /\ trav' = trav /\ UNCHANGED visitorState
      /\ Last(trav.visitor_stack).depth_added <= trav.depth
  BY DEF AllPopped, AfterScanField, IInv, Control, Running, GoesOn
<1>2. PICK top \in Element, d \in Nat : top = Last(trav.visitor_stack) /\ d = trav.depth
  BY <1>1, VisitorsAtStep
<1>3. Open(pc', d) = d /\ Open(pc, d) = d /\ Deepest(pc', d) = d
  BY <1>1 DEF Open, Deepest, Ending
<1> QED
  BY <1>1, <1>2, <1>3, NotCalled

LEMMA LoopTop ==
  ASSUME IInv, VInv, Running, input' = input, trav' = trav, AllSame,
         pc \notin Ending \cup {"BeginField"}, pc' \notin Ending \cup {"BeginField", "ScanField"}
  PROVE  TopInHand'
<1>1. PICK top \in Element, d \in Nat :
        /\ top = Last(trav.visitor_stack) /\ d = trav.depth
        /\ top.visitor = visitor
        /\ top.depth_added <= Deepest(pc, d)
        /\ Seen(top, Open(pc, d))
  BY VisitorsAtStep DEF Ending
<1>2. Open(pc, d) = d /\ Open(pc', d) = d /\ Deepest(pc, d) = d /\ Deepest(pc', d) = d
  BY DEF Open, Deepest, Ending
<1>3. scope'[visitor] = scope[visitor]
  BY StackInHand DEF AllSame, SameState
<1>4. Seen(top, d)'
  BY <1>1, <1>2, <1>3 DEF Seen, KindOf, Level
<1> QED
  BY <1>1, <1>2, <1>4 DEF TopInHand

LEMMA EndOfMessageVisitors ==
  ASSUME IInv, VInv, EndOfMessage, IInv'
  PROVE  VInv'
<1>1. /\ Running /\ pc = "NextField" /\ pc' \in {"Decrement", "Return"} /\ GoesOn
      /\ input' = input /\ call' = Front(call) /\ trav' = trav /\ UNCHANGED visitorState
  BY DEF EndOfMessage, IInv, Control, Running, GoesOn
<1>2. Last(call).op \in Loops
  BY <1>1, AtStep DEF ControlAtStep
<1>3. AllSame
  BY <1>1 DEF AllSame, SameState, visitorState
<1>4. TopInHand'
  BY <1>1, <1>3, LoopTop DEF Ending
<1>5. OwnStates'
  BY <1>1, <1>3, SameClean, VisitorsAtStep DEF OwnStates, AllSame
<1> QED
  BY <1>1, <1>2, <1>3, <1>4, <1>5, LoopLeft, VisitorsAtStep, GoesOnInv

LEMMA LoopEnteredVisitors ==
  ASSUME IInv, VInv, Running, IInv', pc \in Treatments, GoesOn, pc' \in {"BeginMessage", "NextField"},
         input' = input, trav' = trav, UNCHANGED visitorState,
         NEW op \in Loops, NEW f \in FieldInfo, call' = Append(call, Frame(op, f))
  PROVE  VInv'
<1>1. PICK d : d = Frame(op, f)
  OBVIOUS
<1>2. d \in Frames /\ d.op \in Loops
  BY <1>1, AtStep, FrameType DEF Frame, Loops
<1>3. AllSame
  BY DEF AllSame, SameState, visitorState
<1>4. TopInHand'
  BY <1>3, LoopTop DEF Ending, Treatments
<1>5. OwnStates'
  BY <1>3, SameClean, VisitorsAtStep DEF OwnStates, AllSame
<1> QED
  BY <1>1, <1>2, <1>3, <1>4, <1>5, LoopEntered, VisitorsAtStep, GoesOnInv

LEMMA ScanMessageVisitors ==
  ASSUME IInv, VInv, ScanMessage, IInv'
  PROVE  VInv'
<1>1. CASE cursor.budget = 0
  BY <1>1, ThrownInv DEF ScanMessage
<1>2. CASE cursor.budget # 0
  <2>1. Running /\ pc \in Treatments /\ field \in FieldInfo
    BY DEF ScanMessage, IInv, TypeOK, Control, Running, Treatments
  <2>2. /\ GoesOn /\ pc' = "BeginMessage" /\ input' = input /\ trav' = trav /\ UNCHANGED visitorState
        /\ call' = Append(call, Frame("Message", field))
    BY <1>2, <2>1 DEF ScanMessage, GoesOn, Running
  <2> QED
    BY <2>1, <2>2, LoopEnteredVisitors DEF Loops
<1> QED
  BY <1>1, <1>2

LEMMA ReadPackedVisitors ==
  ASSUME IInv, VInv, ReadPacked, IInv'
  PROVE  VInv'
<1>1. Running /\ pc \in Treatments /\ field \in FieldInfo /\ PackedWireType(pc) \in 0 .. 7
  BY DEF ReadPacked, IInv, TypeOK, Control, Running, Treatments, PackedWireType
<1>2. PICK f \in FieldInfo : f = [field EXCEPT !.wire_type = PackedWireType(pc)]
  BY <1>1 DEF FieldInfo
<1>3. /\ GoesOn /\ pc' = "NextField" /\ input' = input /\ trav' = trav /\ UNCHANGED visitorState
      /\ call' = Append(call, Frame("Packed", f))
  BY <1>1, <1>2 DEF ReadPacked, GoesOn, Running
<1> QED
  BY <1>1, <1>2, <1>3, LoopEnteredVisitors DEF Loops

\* Only a MapFilter has a field buffered.
LEMMA BufferFieldOwn ==
  ASSUME IInv, VInv, Running, BufferField, input' = input, UNCHANGED <<sel, scope>>, NEW u, u = visitor
  PROVE  OwnState(u)' /\ \A v \in DOMAIN input.visitors : v # visitor => SameState(v)
<1>1. OwnState(u) /\ u \in DOMAIN input.visitors
  BY VisitorsAtStep, StackInHand DEF OwnStates
<1>2. entry \in [DOMAIN input.visitors -> Entries]
  BY DEF IInv, TypeOK
<1>3. KindOf(u) # "MapFilter" => scope[u] \notin {"InKey", "InValue"}
  BY <1>1 DEF OwnState
<1>4. KindOf(u) # "MapFilter" => entry'[u] = entry[u]
  BY <1>1, <1>2, <1>3 DEF BufferField
<1>5. CleanEntries' = CleanEntries
  BY DEF CleanEntries
<1>6. OwnState(u)'
  BY <1>1, <1>4, <1>5 DEF OwnState, KindOf
<1>7. \A v \in DOMAIN input.visitors : v # visitor => SameState(v)
  BY <1>2 DEF BufferField, SameState
<1> QED
  BY <1>6, <1>7

\* The field has been read, and may have been the last row.
LEMMA FieldRead ==
  ASSUME IInv, VInv, Running, IInv', pc \in Treatments \cup {"ScanField"},
         NEW next, next \in {"Decrement", "Return"} \cup Treatments,
         (pc' = next /\ result' = result) \/ (pc' = "Done" /\ result' = "ok"),
         input' = input, call' = call, trav' = trav, scope' = scope,
         NEW u, u = visitor, OwnState(u)', \A v \in DOMAIN input.visitors : v # visitor => SameState(v)
  PROVE  VInv'
<1>1. Stays
  BY DEF Stays
<1>2. CASE pc' = next /\ result' = result
  <2>1. PICK top \in Element, d \in Nat :
          top = Last(trav.visitor_stack) /\ d = trav.depth /\ top.depth_added <= Deepest(pc, d)
    BY VisitorsAtStep
  <2>2. Open(pc', d) = d /\ Open(pc, d) = d /\ Deepest(pc', d) = Deepest(pc, d)
    BY <1>2 DEF Open, Deepest, Ending, Treatments
  <2>3. GoesOn /\ pc # "Reset" /\ pc' # "Reset" /\ pc' # "ScanField"
    BY <1>2 DEF GoesOn, Running, Treatments
  <2> QED
    BY <1>1, <2>1, <2>2, <2>3, ScopeKept
<1>3. CASE pc' = "Done" /\ result' = "ok"
  BY <1>1, <1>3, StaysInv
<1> QED
  BY <1>2, <1>3

LEMMA EmitEnds ==
  ASSUME NEW row, NEW next, EmitStr(row, next)
  PROVE  (pc' = next /\ result' = result) \/ (pc' = "Done" /\ result' = "ok")
  BY DEF EmitStr

LEMMA ReadPrimitiveVisitors ==
  ASSUME IInv, VInv, ReadPrimitive, IInv'
  PROVE  VInv'
<1>1. CASE Kind = "Emitter" /\ This.ty \in {"string", "bytes"}
  BY <1>1, ThrownInv DEF ReadPrimitive
<1>2. CASE ~(Kind = "Emitter" /\ This.ty \in {"string", "bytes"})
  <2>1. /\ Running /\ pc = "ScanField"
        /\ input' = input /\ call' = call /\ trav' = trav /\ UNCHANGED <<sel, scope>>
        /\ BufferField
    BY <1>2 DEF ReadPrimitive, IInv, Control, Running
  <2>2. PICK next : next = AfterScanField /\ next \in {"Decrement", "Return"}
    BY DEF AfterScanField
  <2>3. (pc' = next /\ result' = result) \/ (pc' = "Done" /\ result' = "ok")
    <3>1. EmitStr(field.value, next) \/ (pc' = next /\ UNCHANGED <<rows, result>>)
      BY <1>2, <2>2 DEF ReadPrimitive
    <3> QED
      BY <3>1, EmitEnds
  <2>4. PICK u : u = visitor
    OBVIOUS
  <2>5. OwnState(u)' /\ \A v \in DOMAIN input.visitors : v # visitor => SameState(v)
    BY <2>1, <2>4, BufferFieldOwn
  <2> QED
    BY <2>1, <2>2, <2>3, <2>4, <2>5, FieldRead
<1> QED
  BY <1>1, <1>2

LEMMA ReadContentsVisitors ==
  ASSUME IInv, VInv, ReadContents, IInv'
  PROVE  VInv'
<1> DEFINE end == cursor.pos + field.size
           contents == Bytes(Stream, cursor.pos, field.size)
           emits == IF pc = "Buffer" THEN Kind = "Emitter" /\ This.ty = "message" ELSE Kind = "Emitter"
           fails == end > cursor.limit \/ (pc = "Buffer" /\ emits /\ contents \in Unconvertible)
<1>1. CASE fails
  BY <1>1, ThrownInv DEF ReadContents
<1>2. CASE ~fails
  <2>1. /\ Running /\ pc \in Treatments
        /\ input' = input /\ call' = call /\ trav' = trav /\ UNCHANGED <<sel, scope>>
        /\ entry' = [entry EXCEPT ![visitor] =
              IF scope[visitor] = "InKey" THEN [@ EXCEPT !.key_contents = contents]
              ELSE IF scope[visitor] = "InValue"
              THEN [@ EXCEPT !.value_contents = [pos |-> cursor.pos, limit |-> end]]
              ELSE @]
    BY <1>2 DEF ReadContents, IInv, Control, Running, Treatments
  <2>2. PICK next : next = AfterTreatment /\ next \in {"Decrement", "Return"}
    BY DEF AfterTreatment, AfterScanField
  <2>3. (pc' = next /\ result' = result) \/ (pc' = "Done" /\ result' = "ok")
    <3>1. EmitStr(contents, next) \/ (pc' = next /\ UNCHANGED <<rows, result>>)
      BY <1>2, <2>2 DEF ReadContents
    <3> QED
      BY <3>1, EmitEnds
  <2> HIDE DEF fails, emits, end, contents
  <2>4. PICK u \in DOMAIN input.visitors : u = visitor
    BY <2>1, StackInHand
  <2>5. entry \in [DOMAIN input.visitors -> Entries] /\ OwnState(u)
    BY <2>1, VisitorsAtStep DEF IInv, TypeOK, OwnStates
  <2>6. KindOf(u) # "MapFilter" => entry'[u] = entry[u]
    BY <2>1, <2>4, <2>5 DEF OwnState
  <2>7. CleanEntries' = CleanEntries
    BY <2>1 DEF CleanEntries
  <2>8. OwnState(u)'
    BY <2>1, <2>5, <2>6, <2>7 DEF OwnState, KindOf
  <2>9. \A v \in DOMAIN input.visitors : v # visitor => SameState(v)
    BY <2>1, <2>5 DEF SameState
  <2> QED
    BY <2>1, <2>2, <2>3, <2>4, <2>8, <2>9, FieldRead
<1> QED
  BY <1>1, <1>2

\* next_ is pushed; it does not know of any field yet.
LEMMA NextPushed ==
  ASSUME IInv, VInv, Running, IInv', GoesOn, Kind # "Emitter", pc \notin Ending,
         pc' \in {"BeginField", "BeginMessage"},
         NEW d \in Nat, d = trav.depth, Pushes(d),
         NEW more \in Nat, more = trav'.depth, more >= d, pc' = "BeginField" => d # 0 \/ more > d,
         NEW u, u = visitor, OwnState(u)', d = 0 => KindOf(u) = "DescendIntoSubmessage",
         NEW top, top = Last(trav.visitor_stack), Seen(top, d)'
  PROVE  VInv'
<1>1. /\ InProgress /\ OwnStates /\ top.visitor = u
      /\ top.depth_added <= d
  BY VisitorsAtStep DEF Deepest
<1>2. PICK e : e = [visitor |-> visitor + 1, depth_added |-> d]
  OBVIOUS
<1>3. e.depth_added = d /\ e.visitor = visitor + 1
  BY <1>2
<1>4. /\ e.visitor \in DOMAIN input.visitors /\ visitor' = e.visitor
      /\ Last(trav.visitor_stack)' = e
  BY <1>2, <1>3, PushesStack
<1>5. input' = input
  BY DEF Pushes
<1>6. PushedOn(top, e)'
  BY <1>1, <1>3, <1>5 DEF PushedOn, KindOf
<1>7. Clean(e.visitor)'
  <2>1. e.visitor > visitor /\ e.visitor # visitor
    BY <1>3, StackInHand
  <2> QED
    BY <1>1, <1>4, <1>5, <2>1, SameClean DEF InProgress, CleanAhead, Pushes
<1>8. TopInHand'
  <2>1. Level(e.visitor)' = 0
    BY <1>7 DEF Level, Clean
  <2>2. PICK open \in Int : open = Open(pc', more)
    BY DEF Open
  <2>3. d <= open + (IF d = 0 THEN 0 ELSE 1)
    BY <2>2 DEF Open
  <2>4. Seen(e, open)'
    BY <1>3, <2>1, <2>3 DEF Seen
  <2>5. e.depth_added <= Deepest(pc', more)
    BY <1>3 DEF Deepest, Ending
  <2>6. pc' # "ScanField"
    OBVIOUS
  <2> QED
    BY <1>4, <2>2, <2>4, <2>5, <2>6 DEF TopInHand
<1>9. InProgress'
  BY <1>1, <1>2, <1>6, <1>8, PushesInProgress
<1>10. OwnStates'
  BY <1>1, PushesOwn
<1> QED
  BY <1>9, <1>10, GoesOnInv

\* BeginField takes a visitor at most one level further in.
LEMMA BegunState ==
  ASSUME IInv, VInv, BeginField, NEW u, u = visitor
  PROVE  /\ OwnState(u)'
         /\ \A v \in DOMAIN input.visitors : v # visitor => SameState(v)
         /\ KindOf(u) = "AllMapEntries" => Level(u)' <= Level(u) + 1
<1>1. Running /\ input' = input /\ entry' = entry
  BY DEF BeginField, IInv, Control, Running
<1>2. OwnState(u) /\ u \in DOMAIN input.visitors
  BY <1>1, VisitorsAtStep, StackInHand DEF OwnStates
<1>3. /\ sel \in [DOMAIN input.visitors -> Selectors]
      /\ scope \in [DOMAIN input.visitors -> Scopes]
  BY DEF IInv, TypeOK
<1>4. CleanEntries' = CleanEntries /\ entry'[u] = entry[u] /\ KindOf(u)' = KindOf(u) /\ Kind = KindOf(u)
  BY <1>1 DEF CleanEntries, KindOf, Kind, This
<1>5. CASE FieldSelectorBeginField
  <2>1. Kind = "FieldSelector" /\ scope' = scope /\ \A v \in DOMAIN input.visitors : v # visitor => sel'[v] = sel[v]
    BY <1>3, <1>5 DEF FieldSelectorBeginField
  <2> QED
    BY <1>1, <1>2, <1>4, <2>1 DEF OwnState, SameState
<1>6. CASE MapFilterBeginField
  <2>1. Kind = "MapFilter" /\ sel' = sel /\ \A v \in DOMAIN input.visitors : v # visitor => scope'[v] = scope[v]
    BY <1>3, <1>6 DEF MapFilterBeginField
  <2> QED
    BY <1>1, <1>2, <1>4, <2>1 DEF OwnState, SameState
<1>7. CASE AllMapEntriesBeginField
  <2>1. /\ Kind = "AllMapEntries" /\ sel' = sel
        /\ \A v \in DOMAIN input.visitors : v # visitor => scope'[v] = scope[v]
    BY <1>3, <1>7 DEF AllMapEntriesBeginField
  <2>2. \/ scope[u] = "Outermost" /\ scope'[u] = "InEntry"
        \/ scope[u] = "InEntry" /\ scope'[u] \in {"InWantedField", "InUnwantedOtherField"}
        \/ scope[u] \notin {"Outermost", "InEntry"} /\ scope'[u] = scope[u]
    BY <1>2, <1>3, <1>7 DEF AllMapEntriesBeginField
  <2>3. Level(u)' <= Level(u) + 1
    BY <2>2 DEF Level
  <2>4. scope'[u] \notin {"InKey", "InValue"}
    BY <1>2, <1>4, <2>1, <2>2 DEF OwnState
  <2> QED
    BY <1>1, <1>2, <1>4, <2>1, <2>3, <2>4 DEF OwnState, SameState
<1>8. CASE OtherBeginField
  <2>1. Kind \in {"DescendIntoSubmessage", "Emitter"} /\ sel' = sel /\ scope' = scope
    BY <1>8 DEF OtherBeginField
  <2> QED
    BY <1>1, <1>2, <1>4, <2>1 DEF OwnState, SameState
<1> QED
  BY <1>5, <1>6, <1>7, <1>8 DEF BeginField

LEMMA BeginFieldVisitors ==
  ASSUME IInv, VInv, BeginField, IInv'
  PROVE  VInv'
<1>1. /\ Running /\ pc = "BeginField" /\ input' = input /\ call' = call
      /\ ReturnThis(AfterBeginField) \/ (Kind # "Emitter" /\ ReturnNext)
      /\ result' = result
  BY DEF BeginField, FieldSelectorBeginField, MapFilterBeginField, AllMapEntriesBeginField,
         OtherBeginField, IInv, Control, Running
<1>2. PICK top \in Element, d \in Nat :
        /\ top = Last(trav.visitor_stack) /\ d = trav.depth
        /\ top.visitor = visitor /\ top.depth_added \in Nat
        /\ top.depth_added <= Deepest(pc, d)
        /\ Seen(top, Open(pc, d))
  BY <1>1, VisitorsAtStep
<1>3. d # 0
  <2>1. DepthAtStep /\ ControlAtStep /\ Last(call).trav.depth \in Nat
    BY <1>1, AtStep
  <2>2. gotNew \/ Last(call).op \in Loops
    BY <1>1, <2>1 DEF ControlAtStep
  <2>3. d = ScanDepth(Last(call)) + Extra(gotNew)
    BY <1>1, <1>2, <2>1, Zenon DEF DepthAtStep
  <2> QED
    BY <2>1, <2>2, <2>3 DEF ScanDepth, Extra
<1>4. PICK u : u = visitor
  OBVIOUS
<1>5. /\ OwnState(u)'
      /\ \A v \in DOMAIN input.visitors : v # visitor => SameState(v)
      /\ KindOf(u) = "AllMapEntries" => Level(u)' <= Level(u) + 1
  BY <1>4, BegunState
<1>6. Seen(top, d)'
  <2>1. Level(u) \in Nat /\ Level(u)' \in Nat
    BY DEF Level
  <2>2. Open(pc, d) = d - 1
    BY <1>1 DEF Open
  <2> QED
    BY <1>1, <1>2, <1>4, <1>5, <2>1, <2>2 DEF Seen, KindOf
<1>7. CASE ReturnThis(AfterBeginField)
  <2>1. pc' \in {"ScanField"} \cup Treatments /\ trav' = trav
    <3>1. AfterBeginField \in {"ScanField"} \cup Treatments
      BY NextPC DEF IInv
    <3> QED
      BY <1>7, <3>1 DEF ReturnThis
  <2>2. Stays /\ GoesOn
    BY <1>1, <1>5, <2>1 DEF Stays, GoesOn, Running, Treatments
  <2>3. Deepest(pc', d) = d /\ Deepest(pc, d) = d /\ Open(pc', d) = d
    BY <1>1, <2>1 DEF Deepest, Open, Ending, Treatments
  <2>4. TopInHand'
    BY <1>1, <1>2, <1>3, <1>6, <2>1, <2>2, <2>3, StaysTop
  <2> QED
    BY <1>1, <1>4, <1>5, <2>2, <2>4, StaysInv
<1>8. CASE Kind # "Emitter" /\ ReturnNext
  <2>1. Pushes(d) /\ trav'.depth = d
    BY <1>1, <1>2, <1>5, <1>8, ReturnNextType DEF ReturnNext, Pushes
  <2>2. pc' = "BeginField" /\ GoesOn
    BY <1>1, <1>8 DEF ReturnNext, GoesOn, Running
  <2> QED
    BY <1>1, <1>2, <1>3, <1>4, <1>5, <1>6, <1>8, <2>1, <2>2, NextPushed DEF Ending
<1> QED
  BY <1>1, <1>7, <1>8

LEMMA BeginMessageVisitors ==
  ASSUME IInv, VInv, BeginMessage, IInv'
  PROVE  VInv'
<1>1. /\ Running /\ pc = "BeginMessage" /\ input' = input /\ call' = call
      /\ UNCHANGED <<sel, entry, result>>
      /\ scope' = [scope EXCEPT ![visitor] = IF Kind = "MapFilter" /\ @ = "Outermost" THEN "InEntry" ELSE @]
  BY DEF BeginMessage, IInv, Control, Running
<1>2. PICK top \in Element, d \in Nat :
        /\ top = Last(trav.visitor_stack) /\ d = trav.depth
        /\ top.visitor = visitor /\ top.depth_added \in Nat
        /\ top.depth_added <= Deepest(pc, d)
        /\ Seen(top, Open(pc, d))
  BY <1>1, VisitorsAtStep
<1>3. PICK u : u = visitor
  OBVIOUS
<1>4. OwnState(u) /\ u \in DOMAIN input.visitors /\ scope \in [DOMAIN input.visitors -> Scopes]
  BY <1>1, <1>3, VisitorsAtStep, StackInHand DEF OwnStates, IInv, TypeOK
<1>5. CleanEntries' = CleanEntries /\ KindOf(u)' = KindOf(u) /\ Kind = KindOf(u)
  BY <1>1, <1>3 DEF CleanEntries, KindOf, Kind, This
<1>6. KindOf(u) # "MapFilter" => scope'[u] = scope[u]
  BY <1>1, <1>3, <1>4, <1>5
<1>7. OwnState(u)' /\ \A v \in DOMAIN input.visitors : v # visitor => SameState(v)
  BY <1>1, <1>4, <1>5, <1>6 DEF OwnState, SameState
<1>8. Seen(top, d)'
  <2>1. Open(pc, d) = d
    BY <1>1 DEF Open
  <2> QED
    BY <1>2, <1>3, <1>5, <1>6, <2>1 DEF Seen, KindOf, Level
<1>9. CASE ReturnThis("NextField")
  <2>1. Stays /\ GoesOn /\ trav' = trav /\ pc' = "NextField"
    BY <1>1, <1>7, <1>9 DEF ReturnThis, Stays, GoesOn, Running
  <2>2. Deepest(pc', d) = d /\ Deepest(pc, d) = d /\ Open(pc', d) = d
    BY <1>1, <2>1 DEF Deepest, Open, Ending
  <2>3. TopInHand'
    BY <1>1, <1>2, <1>8, <2>1, <2>2, StaysTop
  <2> QED
    BY <1>1, <1>3, <1>7, <2>1, <2>3, StaysInv
<1>10. CASE Kind = "DescendIntoSubmessage" /\ ReturnNext
  <2>1. Pushes(d) /\ trav'.depth = d
    BY <1>1, <1>2, <1>7, <1>10, ReturnNextType DEF ReturnNext, Pushes
  <2>2. pc' = "BeginMessage" /\ GoesOn
    BY <1>1, <1>10 DEF ReturnNext, GoesOn, Running
  <2>3. Kind # "Emitter" /\ KindOf(u) = "DescendIntoSubmessage" /\ pc \notin Ending
    BY <1>1, <1>5, <1>10 DEF Ending
  <2>4. d >= d /\ pc' # "BeginField"
    BY <2>2
  <2> QED
    BY <1>1, <1>2, <1>3, <1>7, <1>8, <2>1, <2>2, <2>3, <2>4, NextPushed
<1> QED
  BY <1>9, <1>10 DEF BeginMessage

\* A visitor that is not at a field of its own does not hand over.
LEMMA HandsOverWithin ==
  ASSUME IInv, VInv, Running, pc = "ScanField", NEW t, HandOver(t),
         FieldSelectorTreats \/ AllMapEntriesTreats \/ MapFilterTreats \/ OtherTreats
  PROVE  Kind # "Emitter" /\ trav.depth # 0
<1>1. \/ Kind = "FieldSelector" /\ sel[visitor].state = "EmittingOtherComposite"
      \/ Kind = "AllMapEntries" /\ scope[visitor] = "InWantedField"
  <2>1. pc' = "BeginField"
    BY DEF HandOver
  <2>2. \A ty : /\ CompositeFieldTreatmentForType(ty) \in Treatments
                /\ PackedCompositeFieldTreatmentForType(ty) \in Treatments
    BY NextPC DEF IInv
  <2>3. "BeginField" \notin Treatments /\ {"Skip", "Buffer", "AsSubmessage"} \subseteq Treatments
    BY DEF Treatments
  <2>4. CASE FieldSelectorTreats
    BY <2>1, <2>2, <2>3, <2>4 DEF FieldSelectorTreats, Treat
  <2>5. CASE AllMapEntriesTreats
    BY <2>1, <2>2, <2>3, <2>5 DEF AllMapEntriesTreats, Treat
  <2>6. CASE MapFilterTreats
    BY <2>1, <2>3, <2>6 DEF MapFilterTreats, Treat
  <2>7. CASE OtherTreats
    BY <2>1, <2>2, <2>3, <2>7 DEF OtherTreats, Treat
  <2> QED
    BY <2>4, <2>5, <2>6, <2>7
<1>2. ASSUME trav.depth = 0
      PROVE  FALSE
  <2>1. Clean(visitor)
    BY <1>2, VisitorsAtStep DEF TopInHand
  <2> QED
    BY <1>1, <2>1 DEF Clean, FreshSelector
<1> QED
  BY <1>1, <1>2

LEMMA ReadLengthDelimitedFieldVisitors ==
  ASSUME IInv, VInv, ReadLengthDelimitedField, IInv'
  PROVE  VInv'
<1>1. /\ Running /\ pc = "ScanField" /\ input' = input /\ call' = call
      /\ UNCHANGED <<sel, scope, result>> /\ BufferField
      /\ FieldSelectorTreats \/ AllMapEntriesTreats \/ MapFilterTreats \/ OtherTreats
  BY DEF ReadLengthDelimitedField, IInv, Control, Running
<1>2. PICK u : u = visitor
  OBVIOUS
<1>3. OwnState(u)' /\ \A v \in DOMAIN input.visitors : v # visitor => SameState(v)
  BY <1>1, <1>2, BufferFieldOwn
<1>4. ASSUME NEW t \in Treatments, Treat(t)
      PROVE  VInv'
  <2>1. pc' = t /\ trav' = trav
    BY <1>4 DEF Treat
  <2> QED
    BY <1>1, <1>2, <1>3, <2>1, FieldRead
<1>5. ASSUME NEW t \in Treatments, HandOver(t)
      PROVE  VInv'
  <2>1. Kind # "Emitter" /\ trav.depth # 0
    BY <1>1, <1>5, HandsOverWithin
  <2>2. PICK top \in Element, d \in Nat :
          /\ top = Last(trav.visitor_stack) /\ d = trav.depth
          /\ top.visitor = visitor
          /\ Seen(top, Open(pc, d))
    BY <1>1, VisitorsAtStep
  <2>3. /\ trav'.depth = d + 1
        /\ trav'.visitor_stack = Append(trav.visitor_stack, [visitor |-> visitor + 1, depth_added |-> d])
    BY <1>1, <1>5, <2>1, <2>2, ReturnNextType DEF HandOver, Traversers
  <2>4. Pushes(d)
    BY <1>1, <1>3, <2>3 DEF Pushes
  <2>5. Seen(top, d)'
    <3>1. Open(pc, d) = d
      BY <1>1 DEF Open
    <3> QED
      BY <1>1, <2>2, <3>1 DEF Seen, KindOf, Level
  <2>6. pc' = "BeginField" /\ GoesOn
    BY <1>1, <1>5 DEF HandOver, GoesOn, Running
  <2>7. PICK more \in Nat : more = trav'.depth /\ more = d + 1
    BY <2>2, <2>3
  <2>8. more >= d /\ more > d /\ d # 0
    BY <2>1, <2>2, <2>7
  <2> QED
    BY <1>1, <1>2, <1>3, <2>1, <2>2, <2>4, <2>5, <2>6, <2>7, <2>8, NextPushed DEF Ending
<1>6. (\E t \in Treatments : Treat(t)) \/ (\E t \in Treatments : HandOver(t))
  <2>1. \A ty : /\ CompositeFieldTreatmentForType(ty) \in Treatments
                /\ PackedCompositeFieldTreatmentForType(ty) \in Treatments
    BY NextPC DEF IInv
  <2>2. {"Skip", "Buffer", "AsSubmessage"} \subseteq Treatments
    BY DEF Treatments
  <2>3. CASE FieldSelectorTreats
    BY <2>1, <2>2, <2>3 DEF FieldSelectorTreats
  <2>4. CASE MapFilterTreats
    BY <2>2, <2>4 DEF MapFilterTreats
  <2>5. CASE AllMapEntriesTreats
    BY <2>1, <2>2, <2>5 DEF AllMapEntriesTreats
  <2>6. CASE OtherTreats
    BY <2>1, <2>2, <2>6 DEF OtherTreats
  <2> QED
    BY <1>1, <2>3, <2>4, <2>5, <2>6
<1> QED
  BY <1>4, <1>5, <1>6

\* EndField takes a visitor one level back, unless it is outermost already.
LEMMA EndedState ==
  ASSUME IInv, VInv, EndField, NEW u, u = visitor
  PROVE  /\ OwnState(u)'
         /\ \A v \in DOMAIN input.visitors : v # visitor => SameState(v)
         /\ KindOf(u) = "AllMapEntries" => Level(u)' = 0 \/ Level(u)' <= Level(u) - 1
<1>1. Running /\ input' = input /\ entry' = entry
  BY DEF EndField, IInv, Control, Running
<1>2. OwnState(u) /\ u \in DOMAIN input.visitors
  BY <1>1, VisitorsAtStep, StackInHand DEF OwnStates
<1>3. /\ sel \in [DOMAIN input.visitors -> Selectors]
      /\ scope \in [DOMAIN input.visitors -> Scopes]
  BY DEF IInv, TypeOK
<1>4. CleanEntries' = CleanEntries /\ entry'[u] = entry[u] /\ KindOf(u)' = KindOf(u) /\ Kind = KindOf(u)
  BY <1>1 DEF CleanEntries, KindOf, Kind, This
<1>5. CASE FieldSelectorEndField
  <2>1. Kind = "FieldSelector" /\ scope' = scope /\ \A v \in DOMAIN input.visitors : v # visitor => sel'[v] = sel[v]
    BY <1>3, <1>5 DEF FieldSelectorEndField
  <2> QED
    BY <1>1, <1>2, <1>4, <2>1 DEF OwnState, SameState
<1>6. CASE MapFilterEndField \/ MapFilterEndEntry
  <2>1. Kind = "MapFilter" /\ sel' = sel /\ \A v \in DOMAIN input.visitors : v # visitor => scope'[v] = scope[v]
    BY <1>3, <1>6 DEF MapFilterEndField, MapFilterEndEntry
  <2> QED
    BY <1>1, <1>2, <1>4, <2>1 DEF OwnState, SameState
<1>7. CASE AllMapEntriesEndField
  <2>1. /\ Kind = "AllMapEntries" /\ sel' = sel
        /\ \A v \in DOMAIN input.visitors : v # visitor => scope'[v] = scope[v]
    BY <1>3, <1>7 DEF AllMapEntriesEndField
  <2>2. \/ scope[u] \in {"InWantedField", "InUnwantedOtherField"} /\ scope'[u] = "InEntry"
        \/ scope'[u] = "Outermost"
    BY <1>2, <1>3, <1>7 DEF AllMapEntriesEndField
  <2>3. Level(u)' = 0 \/ Level(u)' <= Level(u) - 1
    BY <2>2 DEF Level
  <2>4. scope'[u] \notin {"InKey", "InValue"}
    BY <2>2
  <2> QED
    BY <1>1, <1>2, <1>4, <2>1, <2>3, <2>4 DEF OwnState, SameState
<1>8. CASE OtherEndField
  <2>1. Kind \in {"DescendIntoSubmessage", "Emitter"} /\ sel' = sel /\ scope' = scope
    BY <1>8 DEF OtherEndField
  <2> QED
    BY <1>1, <1>2, <1>4, <2>1 DEF OwnState, SameState
<1> QED
  BY <1>5, <1>6, <1>7, <1>8 DEF EndField

LEMMA EndFieldVisitors ==
  ASSUME IInv, VInv, EndField, IInv'
  PROVE  VInv'
<1>1. Running /\ pc = "EndField" /\ input' = input /\ result' = result
  BY DEF EndField, IInv, Control, Running
<1>2. PICK u : u = visitor
  OBVIOUS
<1>3. /\ OwnState(u)'
      /\ \A v \in DOMAIN input.visitors : v # visitor => SameState(v)
      /\ KindOf(u) = "AllMapEntries" => Level(u)' = 0 \/ Level(u)' <= Level(u) - 1
  BY <1>2, EndedState
<1>4. CASE MapFilterEndEntry /\ KeyMatches
  <2>1. PICK f : f = Frame("Forward", field)
    OBVIOUS
  <2>2. f \in Frames /\ f.op = "Forward" /\ f.trav = trav
    BY <1>1, <2>1, AtStep, FrameType DEF Frame, TypeOK
  <2>3. /\ call' = Append(call, f) /\ trav' = NewTraverser(visitor + 1) /\ pc' = "ScanField"
        /\ Kind = "MapFilter"
    BY <1>4, <2>1 DEF MapFilterEndEntry
  <2>4. InProgress'
    BY <1>1, <1>3, <2>2, <2>3, VisitorsAtStep, ForwardEntered
  <2>5. GoesOn
    BY <1>1, <2>3 DEF GoesOn, Running
  <2>6. OwnStates'
    <3>1. \A v \in DOMAIN input.visitors : v # visitor => OwnState(v)'
      BY <1>1, <1>3, SameClean, VisitorsAtStep DEF OwnStates
    <3> QED
      BY <1>1, <1>2, <1>3, <3>1 DEF OwnStates
  <2> QED
    BY <2>4, <2>5, <2>6, GoesOnInv
<1>5. CASE ~(MapFilterEndEntry /\ KeyMatches)
  <2>1. pc' \in {"PopVisitors", "Reset"} /\ call' = call /\ trav' = trav
    BY <1>5 DEF EndField, FieldSelectorEndField, MapFilterEndField, MapFilterEndEntry,
       AllMapEntriesEndField, OtherEndField
  <2>2. PICK top \in Element, d \in Nat :
          /\ top = Last(trav.visitor_stack) /\ d = trav.depth
          /\ top.visitor = visitor /\ top.depth_added \in Nat
          /\ top.depth_added <= Deepest(pc, d)
          /\ Seen(top, Open(pc, d))
    BY <1>1, VisitorsAtStep
  <2>3. Deepest(pc, d) = d + 1 /\ Open(pc, d) = d + 1 /\ Deepest(pc', d) = d + 1 /\ Open(pc', d) = d
    BY <1>1, <2>1 DEF Deepest, Open, Ending
  <2>4. Seen(top, d)'
    <3>1. Level(u) \in Nat /\ Level(u)' \in Nat
      BY DEF Level
    <3> QED
      BY <1>1, <1>2, <1>3, <2>2, <2>3, <3>1 DEF Seen, KindOf
  <2>5. Stays /\ GoesOn
    BY <1>1, <1>3, <2>1 DEF Stays, GoesOn, Running
  <2>6. TopInHand'
    BY <1>1, <2>1, <2>2, <2>3, <2>4, <2>5, StaysTop
  <2> QED
    BY <1>1, <1>2, <1>3, <2>5, <2>6, StaysInv
<1> QED
  BY <1>4, <1>5

LEMMA ForwardReturnsVisitors ==
  ASSUME IInv, VInv, ForwardReturns, IInv'
  PROVE  VInv'
<1>1. /\ Running /\ pc = "Return" /\ Last(call).op = "Forward" /\ input' = input
      /\ trav' = Last(call).trav /\ call' = Front(call) /\ pc' = "Reset"
      /\ Popped(visitor) /\ GoesOn
  BY DEF ForwardReturns, IInv, Control, Running, GoesOn
<1>2. PICK u : u = visitor
  OBVIOUS
<1>3. KindOf(visitor) = "AllMapEntries" => Level(visitor) = 0
  BY <1>1, BottomLevel
<1>4. Clean(u)' /\ \A v \in DOMAIN input.visitors : v # visitor => SameState(v)
  BY <1>1, <1>2, <1>3, PoppedClean, VisitorsAtStep
<1>5. InProgress'
  BY <1>1, <1>2, <1>4, ForwardLeft, VisitorsAtStep
<1>6. OwnStates'
  <2>1. \A v \in DOMAIN input.visitors : v # visitor => OwnState(v)'
    BY <1>1, <1>4, SameClean, VisitorsAtStep DEF OwnStates
  <2>2. OwnState(u)'
    BY <1>4 DEF Clean, OwnState
  <2> QED
    BY <1>1, <1>2, <2>1, <2>2 DEF OwnStates
<1> QED
  BY <1>1, <1>5, <1>6, GoesOnInv

LEMMA ResetVisitors ==
  ASSUME IInv, VInv, Reset, IInv'
  PROVE  VInv'
<1>1. /\ Running /\ pc = "Reset" /\ pc' = "PopVisitors" /\ GoesOn
      /\ input' = input /\ call' = call /\ trav' = trav /\ sel' = sel
      /\ scope' = [scope EXCEPT ![visitor] = "Outermost"]
      /\ entry' = [entry EXCEPT ![visitor] = ResetEntry]
  BY DEF Reset, IInv, Control, Running, GoesOn
<1>2. PICK top \in Element, d \in Nat :
        /\ top = Last(trav.visitor_stack) /\ d = trav.depth
        /\ top.visitor = visitor /\ top.depth_added \in Nat
        /\ top.depth_added <= Deepest(pc, d)
  BY <1>1, VisitorsAtStep
<1>3. PICK u : u = visitor
  OBVIOUS
<1>4. /\ u \in DOMAIN input.visitors /\ OwnState(u)
      /\ scope \in [DOMAIN input.visitors -> Scopes] /\ entry \in [DOMAIN input.visitors -> Entries]
  BY <1>1, <1>3, VisitorsAtStep, StackInHand DEF OwnStates, IInv, TypeOK
<1>5. scope'[u] = "Outermost" /\ entry'[u] = ResetEntry /\ sel'[u] = sel[u]
  BY <1>1, <1>3, <1>4
<1>6. \A v \in DOMAIN input.visitors : v # visitor => SameState(v)
  BY <1>1, <1>4 DEF SameState
<1>7. OwnState(u)'
  BY <1>1, <1>4, <1>5 DEF OwnState, KindOf, CleanEntries
<1>8. Deepest(pc, d) = d + 1 /\ Deepest(pc', d) = d + 1 /\ Open(pc', d) = d
  BY <1>1 DEF Deepest, Open, Ending
<1>9. Seen(top, d)'
  <2>1. Level(u)' = 0
    BY <1>5 DEF Level
  <2> QED
    BY <1>2, <1>3, <1>8, <2>1 DEF Seen
<1>10. Stays
  BY <1>1, <1>6 DEF Stays
<1>11. TopInHand'
  BY <1>1, <1>2, <1>8, <1>9, <1>10, StaysTop
<1> QED
  BY <1>1, <1>3, <1>7, <1>10, <1>11, StaysInv

LEMMA PopVisitorVisitors ==
  ASSUME IInv, VInv, PopVisitor, IInv'
  PROVE  VInv'
<1>1. /\ Running /\ pc = "PopVisitors" /\ pc' = "EndField" /\ GoesOn
      /\ input' = input /\ call' = call
      /\ Last(trav.visitor_stack).depth_added > trav.depth
      /\ Popped(visitor)
      /\ trav'.visitor_stack = Front(trav.visitor_stack) /\ trav'.depth = trav.depth
  BY AtStep DEF PopVisitor, IInv, Control, Running, GoesOn, Traversers
<1>2. PICK top \in Element, d \in Nat :
        /\ top = Last(trav.visitor_stack) /\ d = trav.depth
        /\ top.visitor = visitor /\ top.depth_added \in Nat
        /\ top.depth_added <= Deepest(pc, d)
        /\ Seen(top, Open(pc, d))
  BY <1>1, VisitorsAtStep
<1>3. top.depth_added = d + 1
  BY <1>1, <1>2 DEF Deepest, Ending
<1>4. PICK u : u = visitor
  OBVIOUS
<1>5. KindOf(visitor) = "AllMapEntries" => Level(visitor) = 0
  <2>1. Open(pc, d) = d /\ Level(visitor) \in Nat
    BY <1>1 DEF Open, Level
  <2> QED
    BY <1>2, <1>3, <2>1 DEF Seen
<1>6. Clean(u)' /\ \A v \in DOMAIN input.visitors : v # visitor => SameState(v)
  BY <1>1, <1>4, <1>5, PoppedClean, VisitorsAtStep
<1>7. Pops
  BY <1>1, <1>6 DEF Pops
<1>8. PICK n \in Nat \ {0} : n = Len(trav.visitor_stack)
  BY <1>1, StackInHand
<1>9. PICK stack \in Seq(Element) : stack = trav.visitor_stack
  BY <1>1, StackInHand
<1>10. n > 1
  <2>1. stack[1].depth_added = 0
    <3>1. PICK v : ChainFrom(trav, v)
      BY <1>1, AtStep DEF StackFollows, Frames
    <3> QED
      BY <1>9, <3>1 DEF ChainFrom
  <2>2. stack[n] = top
    BY <1>1, <1>2, <1>8, <1>9, StackInHand
  <2> QED
    BY <1>2, <1>3, <1>8, <2>1, <2>2
<1>11. PICK below : below = stack[n - 1]
  OBVIOUS
<1>12. /\ Last(trav.visitor_stack)' = below
       /\ below \in Element /\ below.visitor \in DOMAIN input.visitors /\ below.visitor # visitor
  <2>1. n - 1 \in 1 .. Len(stack) /\ n - 1 \in 1 .. n - 1
    BY <1>8, <1>9, <1>10
  <2>2. below \in Element
    BY <1>11, <2>1, ElementOfSeq
  <2>3. below.visitor # visitor /\ below.visitor \in DOMAIN input.visitors
    BY <1>1, <1>8, <1>9, <1>11, <2>1, BelowTop
  <2>4. Last(trav.visitor_stack)' = below
    BY <1>1, <1>7, <1>8, <1>9, <1>10, <1>11, PopsStack
  <2> QED
    BY <2>2, <2>3, <2>4
<1>13. PushedOn(below, top)
  <2>1. n - 1 \in 1 .. n - 1 /\ n \in (n - 1) + 1 .. n
    BY <1>8, <1>10
  <2>2. Ordered(stack)
    BY <1>1, <1>9, VisitorsAtStep DEF InProgress
  <2>3. stack[n] = top /\ Len(stack) = n
    BY <1>1, <1>2, <1>8, <1>9, StackInHand
  <2> QED
    BY <1>11, <2>1, <2>2, <2>3 DEF Ordered
<1>14. TopInHand'
  <2>1. below.depth_added <= d + 1 /\ Seen(below, d + 1)
    BY <1>3, <1>13 DEF PushedOn
  <2>2. Seen(below, d + 1)'
    <3>1. scope'[below.visitor] = scope[below.visitor] /\ d + 1 \in Int /\ d + 1 <= d + 1
      BY <1>6, <1>12 DEF SameState
    <3>2. below.depth_added \in Nat
      BY <1>12 DEF Element
    <3> QED
      BY <1>1, <2>1, <3>1, <3>2, SeenMore
  <2>3. Deepest(pc', d) = d + 1 /\ Open(pc', d) = d + 1
    BY <1>1 DEF Deepest, Open, Ending
  <2> QED
    BY <1>1, <1>2, <1>12, <2>1, <2>2, <2>3 DEF TopInHand
<1>15. InProgress'
  BY <1>1, <1>4, <1>6, <1>7, <1>8, <1>10, <1>14, PopsInProgress, VisitorsAtStep
<1>16. OwnStates'
  BY <1>1, <1>4, <1>6, <1>7, PopsOwn, VisitorsAtStep
<1> QED
  BY <1>1, <1>15, <1>16, GoesOnInv

-----------------------------------------------------------------------------
(* The theorem *)

LEMMA VisitorsInitial ==
  ASSUME Init
  PROVE  VInv
<1>1. \A v \in DOMAIN input.visitors : Clean(v)
  BY DEF Init, Clean, CleanEntries
<1>2. ~Running
  BY DEF Init, Running
<1> QED
  BY <1>1, <1>2 DEF VInv, OwnStates, OwnState, Clean, CleanEntries, IdleVisitorsAreClean

LEMMA VisitorsUnchanged ==
  ASSUME VInv, UNCHANGED vars
  PROVE  VInv'
<1>1. /\ UNCHANGED <<input, sel, scope, entry, pc, call, result, trav, visitor>>
      /\ \A v : KindOf(v)' = KindOf(v)
  BY DEF vars, visitorState, KindOf, visitor
<1>2. OwnStates' /\ \A v : Clean(v)' <=> Clean(v)
  BY <1>1 DEF VInv, OwnStates, OwnState, Clean, CleanEntries
<1>3. (Running' <=> Running) /\ \A v : Active(v)' <=> Active(v)
  BY <1>1 DEF Running, Active, OnStack
<1>4. \A e, open : Seen(e, open)' <=> Seen(e, open)
  BY <1>1 DEF Seen, Level
<1>5. \A stack : Ordered(stack)' <=> Ordered(stack)
  BY <1>1, <1>4 DEF Ordered, PushedOn
<1>6. TopInHand' <=> TopInHand
  BY <1>1, <1>2, <1>4 DEF TopInHand
<1>7. \A i : PutAside(i)' <=> PutAside(i)
  BY <1>1, <1>5 DEF PutAside
<1>8. InProgress' <=> InProgress
  BY <1>1, <1>2, <1>3, <1>5, <1>6, <1>7 DEF InProgress, InUse, CleanAhead
<1>9. IdleVisitorsAreClean'
  BY <1>1, <1>3 DEF VInv, IdleVisitorsAreClean
<1> QED
  BY <1>1, <1>2, <1>3, <1>8, <1>9 DEF VInv

LEMMA VisitorsInductive ==
  ASSUME IInv, VInv, [Next]_vars
  PROVE  VInv'
<1>1. IInv'
  BY Inductive
<1> QED
  BY <1>1, VisitorsUnchanged, RunVisitors, RunReturnsVisitors, ReadFieldVisitors,
     ReadPackedElementVisitors, EndOfMessageVisitors, BeginFieldVisitors, BeginMessageVisitors,
     ReadPrimitiveVisitors, ReadLengthDelimitedFieldVisitors, SkipVisitors, ReadContentsVisitors,
     ScanMessageVisitors, ReadPackedVisitors, DecrementDepthVisitors, EndFieldVisitors,
     ForwardReturnsVisitors, ResetVisitors, PopVisitorVisitors, AllPoppedVisitors DEF Next, Returned

\* A visitor that no traverser uses is as good as new: whichever way it was left,
\* popped by DecrementDepthAndEndFieldAndPopVisitors, by the end of the run, or
\* dropped with the traverser of ForwardBufferedValue, it remembers no index, no
\* scope, no key and no value, for every chain of visitors and every column.
THEOREM IdleVisitorsAreAsNew == Spec => []IdleVisitorsAreClean
<1>1. Init => IInv /\ VInv
  BY Initial, VisitorsInitial
<1>2. IInv /\ VInv /\ [Next]_vars => IInv' /\ VInv'
  BY Inductive, VisitorsInductive
<1>3. VInv => IdleVisitorsAreClean
  BY DEF VInv
<1> QED
  BY <1>1, <1>2, <1>3, PTL DEF Spec

=============================================================================
