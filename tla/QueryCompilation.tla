--------------------------- MODULE QueryCompilation ---------------------------
(***************************************************************************)
(* QueryImpl::CompileQuery, one step per part of the path, for every path  *)
(* that can be put together from the given parts.  QueryCompiler says what *)
(* each step does, QueryText which characters make up a part.              *)
(***************************************************************************)
EXTENDS QueryCompiler, VisitorChain

CONSTANTS
  RootTypes,   \* message types a query can start from
  InnerParts,  \* parts that '.' ends
  LastParts,   \* parts that end the query
  MaxVisitors  \* bound on the visitors of a query

ASSUME RootTypesAssumption == RootTypes \subseteq DOMAIN Schema

\* An entry of a map has a key and a value, neither of them a map, and keys are
\* of primitive types.
HasKeyAndValue(type) ==
  /\ \E k \in Schema[type] : k.number = 1
  /\ \E v \in Schema[type] : v.number = 2
  /\ \A fd \in Schema[type] :
       /\ ~fd.map
       /\ fd.number = 1 => fd.ty \notin {"message", "enum"}

\* What protoc guarantees of a schema.
ASSUME SchemaAssumption ==
  /\ NoType \notin DOMAIN Schema
  /\ \A type \in DOMAIN Schema : \A fd \in Schema[type] :
       /\ fd.number \in Nat /\ \A other \in Schema[type] : other.number = fd.number => other = fd
       /\ fd.ty = "message" => fd.type_name \in DOMAIN Schema
       /\ fd.map => fd.ty = "message" /\ fd.repeated /\ HasKeyAndValue(fd.type_name)

VARIABLES
  root,      \* the message type named by the query
  pc,        \* "Name", "Start", "Parts" or "Done"
  compiled,  \* [desc_ptrs, visitors, thrown]
  places     \* history: what the visitors lead to from the root message

vars == <<root, pc, compiled, places>>

-----------------------------------------------------------------------------
(* What the visitors do to a column of the schema.  A place is the value of*)
(* a field, or the inside of one that is a message.                        *)

ValueAt(fd) == [fd |-> fd, inside |-> FALSE]
Inside(fd) == [fd |-> fd, inside |-> TRUE]

RootPlace(type) == ValueAt(FieldDescriptor(0, "message", type, FALSE, FALSE, FALSE))

EntryFieldRead(fd, v) == IF v.kind = "AllMapEntries" /\ v.want_keys THEN KeyOf(fd) ELSE ValueOf(fd)

\* The places that visitor v of a chain leads to from p: none if v is not made
\* for what it finds there.
Leads(p, v) ==
  CASE v.kind = "DescendIntoSubmessage" ->
         {Inside(fd) : fd \in {f \in {p.fd} : ~p.inside /\ f.ty = "message" /\ ~f.map}}
    [] v.kind = "FieldSelector" ->
         {ValueAt(fd) : fd \in {f \in FindFieldByNumber(p.fd.type_name, v.wanted_field) :
            p.inside /\ f.ty = v.ty /\ f.packed = v.is_packed /\ (v.wanted_index # {} => f.repeated)}}
    [] v.kind \in {"AllMapEntries", "MapFilter"} ->
         {ValueAt(EntryFieldRead(fd, v)) : fd \in {f \in {p.fd} :
            /\ ~p.inside /\ f.map /\ EntryFieldRead(f, v).ty = v.ty
            /\ v.kind = "MapFilter" =>
                 v.wanted_key_field.wire_type = WireTypeForFieldType(KeyOf(f).ty)}}
    [] v.kind = "Emitter" ->
         {q \in {p} : ~p.inside /\ p.fd.ty = v.ty /\ ~p.fd.map}

Through(from, v) == UNION {Leads(p, v) : p \in from}

\* Where the visitors behind the first n lead to.  A step adds at most three: a
\* selector, a reader of map entries, and a descent or the emitter.
Follow(from, visitors, n) ==
  LET first == Through(from, visitors[n + 1])
      second == Through(first, visitors[n + 2])
      third == Through(second, visitors[n + 3])
  IN CASE Len(visitors) = n -> from
       [] Len(visitors) = n + 1 -> first
       [] Len(visitors) = n + 2 -> second
       [] Len(visitors) = n + 3 -> third

-----------------------------------------------------------------------------
Init ==
  /\ root = NoType
  /\ pc = "Name"
  /\ compiled = Root(NoType)
  /\ places = {}

\* GetDescSet and GetDesc have found a message type, or thrown BadQuery.
NamesRoot(type) ==
  /\ pc = "Name"
  /\ root' = type
  /\ compiled' = Root(type)
  /\ places' = {RootPlace(type)}
  /\ pc' = "Start"

NamesNothing ==
  /\ pc = "Name"
  /\ compiled' = [compiled EXCEPT !.thrown = TRUE]
  /\ pc' = "Done"
  /\ UNCHANGED <<root, places>>

Compiles(next) ==
  /\ compiled' = next
  /\ places' = Follow(places, next.visitors, Len(compiled.visitors))
  /\ UNCHANGED root

EmptyPath ==
  /\ pc = "Start"
  /\ Compiles(CompileLastPart(compiled, EmptyPart, NoLimit))
  /\ pc' = "Done"

DescendIntoRootMessage ==
  /\ pc = "Start"
  /\ Compiles(DescendIntoRoot(compiled))
  /\ pc' = "Parts"

PartEndsAtDot(part) ==
  /\ pc = "Parts"
  /\ ~compiled.thrown
  /\ Len(compiled.visitors) < MaxVisitors
  /\ Compiles(CompileInnerPart(compiled, part))
  /\ UNCHANGED pc

\* Before an empty last part there is a '.' at least.
QueryEnds(part) ==
  /\ pc = "Parts"
  /\ ~compiled.thrown
  /\ part = EmptyPart => Len(compiled.visitors) > 1
  /\ Compiles(CompileLastPart(compiled, part, NoLimit))
  /\ pc' = "Done"

BadQuery ==
  /\ pc = "Parts"
  /\ compiled.thrown
  /\ pc' = "Done"
  /\ UNCHANGED <<root, compiled, places>>

Compiled == pc = "Done" /\ UNCHANGED vars

Next ==
  \/ \E type \in RootTypes : NamesRoot(type)
  \/ NamesNothing
  \/ EmptyPath \/ DescendIntoRootMessage
  \/ \E part \in InnerParts : PartEndsAtDot(part)
  \/ \E part \in LastParts : QueryEnds(part)
  \/ BadQuery \/ Compiled

Spec == Init /\ [][Next]_vars

-----------------------------------------------------------------------------
(* Properties *)

WantsKeys(v) == v.kind = "AllMapEntries" /\ v.want_keys

\* Queries that README.md gives no meaning to and CompileQuery accepts: a path
\* that ends with '.', or goes on behind "|keys".
EndsWithDot(visitors) ==
  Len(visitors) > 1 /\ visitors[Len(visitors) - 1].kind = "DescendIntoSubmessage"

GoesOnBehindKeys(visitors) ==
  \E i \in 1 .. Len(visitors) - 1 :
    WantsKeys(visitors[i]) /\ visitors[i + 1].kind = "DescendIntoSubmessage"

Accepted ==
  /\ pc = "Done"
  /\ ~compiled.thrown
  /\ ~EndsWithDot(compiled.visitors)
  /\ ~GoesOnBehindKeys(compiled.visitors)

\* What a visitor of each kind can have for its next_.
NextKinds ==
  [DescendIntoSubmessage |-> {"FieldSelector", "Emitter"},
   FieldSelector |-> {"AllMapEntries", "MapFilter", "DescendIntoSubmessage", "Emitter"},
   AllMapEntries |-> {"DescendIntoSubmessage", "Emitter"},
   MapFilter |-> {"DescendIntoSubmessage", "Emitter"},
   Emitter |-> {}]

\* What the traverser relies on, of every query that is not rejected, the two odd
\* kinds included: a chain that starts at the root message, selects in messages
\* only, reads the entries of selected maps only, and ends, whichever way the text
\* does, with its only emitter, which never stops the run.
CompilesChains ==
  pc = "Done" /\ ~compiled.thrown =>
    LET visitors == compiled.visitors IN
    /\ IsChain(visitors) /\ IsUnlimited(visitors)
    /\ visitors[1].kind \in {"DescendIntoSubmessage", "Emitter"}
    /\ \A v \in 1 .. Len(visitors) - 1 : visitors[v + 1].kind \in NextKinds[visitors[v].kind]

\* Each visitor is made for what the one before it hands over: a selector for a
\* field of the very message that was descended into, with that field's type, a
\* reader of map entries for a map with that key and value, the emitter for a
\* value of its type, and only messages are descended into.
VisitorsFitSchema == Accepted => places # {}

\* The emitter converts values by the descriptor of the type they are of, while
\* desc_ptrs is updated in four places, for a field and for what is in a map.
EmitterKnowsItsType ==
  Accepted =>
    \A p \in places :
      /\ p.fd.ty = "message" => compiled.desc_ptrs.desc = p.fd.type_name
      /\ p.fd.ty = "enum" => compiled.desc_ptrs.enum_desc = p.fd.type_name

\* The assertions of Emitter::Create: a query that is not rejected has found a
\* descriptor for the message or the enum it emits.
EmitterHasDescriptor ==
  pc = "Done" /\ ~compiled.thrown =>
    /\ compiled.desc_ptrs.ty = "message" => compiled.desc_ptrs.desc # NoType
    /\ compiled.desc_ptrs.ty = "enum" => compiled.desc_ptrs.enum_desc # NoType

=============================================================================
