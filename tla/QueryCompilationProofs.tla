------------------------ MODULE QueryCompilationProofs ------------------------
(***************************************************************************)
(* Proofs that what CompileQuery makes of a query fits the schema and is a *)
(* chain that ends with its emitter, as the traverser takes for granted,   *)
(* for every schema, every set of queries and every path.                  *)
(***************************************************************************)
EXTENDS QueryText, TLAPS

-----------------------------------------------------------------------------
(* Sequences of visitors *)

IsSequence(s) == \E S : s \in Seq(S)

LEMMA SequenceLength == ASSUME NEW s, IsSequence(s) PROVE Len(s) \in Nat
BY DEF IsSequence

LEMMA AppendedTo ==
  ASSUME NEW s, IsSequence(s), NEW e
  PROVE  /\ IsSequence(Append(s, e))
         /\ Len(Append(s, e)) = Len(s) + 1
         /\ \A i \in 1 .. Len(s) : Append(s, e)[i] = s[i]
         /\ Append(s, e)[Len(s) + 1] = e
<1>1. PICK S : s \in Seq(S)
  BY DEF IsSequence
<1>2. s \in Seq(S \cup {e}) /\ e \in S \cup {e}
  BY <1>1
<1>3. Append(s, e) \in Seq(S \cup {e})
  BY <1>2
<1> QED
  BY <1>2, <1>3 DEF IsSequence

LEMMA OneElement ==
  ASSUME NEW e
  PROVE  IsSequence(<<e>>) /\ Len(<<e>>) = 1 /\ <<e>>[1] = e
<1>1. <<e>> \in Seq({e})
  OBVIOUS
<1> QED
  BY <1>1 DEF IsSequence

LEMMA TwoElements ==
  ASSUME NEW e, NEW f
  PROVE  IsSequence(<<e, f>>) /\ Len(<<e, f>>) = 2 /\ <<e, f>>[1] = e /\ <<e, f>>[2] = f
<1>1. <<e, f>> \in Seq({e, f})
  OBVIOUS
<1> QED
  BY <1>1 DEF IsSequence

LEMMA Concatenated ==
  ASSUME NEW s, IsSequence(s), NEW t, IsSequence(t)
  PROVE  /\ IsSequence(s \o t)
         /\ Len(s \o t) = Len(s) + Len(t)
         /\ \A i \in 1 .. Len(s) : (s \o t)[i] = s[i]
         /\ \A i \in 1 .. Len(t) : (s \o t)[Len(s) + i] = t[i]
<1>1. PICK S : s \in Seq(S)
  BY DEF IsSequence
<1>2. PICK T : t \in Seq(T)
  BY DEF IsSequence
<1>3. s \in Seq(S \cup T) /\ t \in Seq(S \cup T)
  BY <1>1, <1>2
<1>4. s \o t \in Seq(S \cup T)
  BY <1>3
<1> QED
  BY <1>3, <1>4 DEF IsSequence

-----------------------------------------------------------------------------
(* One part *)

\* The field a part selects in the end: fd, or a key or value of the map fd.
Target(fd, part) ==
  IF ~fd.map THEN fd ELSE IF part.filter = "keys" THEN KeyOf(fd) ELSE ValueOf(fd)

LEMMA EntryFields ==
  ASSUME NEW type \in DOMAIN Schema, NEW fd \in Schema[type], fd.map
  PROVE  /\ fd.ty = "message" /\ fd.repeated /\ fd.type_name \in DOMAIN Schema
         /\ KeyOf(fd) \in Schema[fd.type_name] /\ KeyOf(fd).number = 1
         /\ ValueOf(fd) \in Schema[fd.type_name] /\ ValueOf(fd).number = 2
         /\ ~KeyOf(fd).map /\ ~ValueOf(fd).map
         /\ KeyOf(fd).ty \notin {"message", "enum"}
<1>1. fd.ty = "message" /\ fd.repeated /\ HasKeyAndValue(fd.type_name) /\ fd.type_name \in DOMAIN Schema
  BY SchemaAssumption
<1>2. \E k \in Schema[fd.type_name] : k.number = 1
  BY <1>1 DEF HasKeyAndValue
<1>3. \E v \in Schema[fd.type_name] : v.number = 2
  BY <1>1 DEF HasKeyAndValue
<1>4. KeyOf(fd) \in Schema[fd.type_name] /\ KeyOf(fd).number = 1
  BY <1>2 DEF KeyOf
<1>5. ValueOf(fd) \in Schema[fd.type_name] /\ ValueOf(fd).number = 2
  BY <1>3 DEF ValueOf
<1> QED
  BY <1>1, <1>4, <1>5 DEF HasKeyAndValue

LEMMA TargetField ==
  ASSUME NEW type \in DOMAIN Schema, NEW fd \in Schema[type], NEW part
  PROVE  /\ ~Target(fd, part).map
         /\ Target(fd, part).ty = "message" => Target(fd, part).type_name \in DOMAIN Schema
<1>1. CASE fd.map
  BY <1>1, EntryFields, SchemaAssumption DEF Target
<1>2. CASE ~fd.map
  BY <1>2, SchemaAssumption DEF Target
<1> QED
  BY <1>1, <1>2

\* desc_ptrs describes the target, except that keys leave desc at the entry and
\* the values of a map to an enum have no enum_desc.
LEMMA DescPtrsDescribeTarget ==
  ASSUME NEW type \in DOMAIN Schema, NEW fd \in Schema[type], NEW part
  PROVE  /\ DescPtrsAfter(fd, part).ty = Target(fd, part).ty
         /\ Target(fd, part).ty = "message" => DescPtrsAfter(fd, part).desc = Target(fd, part).type_name
         /\ DescPtrsAfter(fd, part).desc \in DOMAIN Schema \cup {NoType}
         /\ Target(fd, part).ty # "message" /\ ~(fd.map /\ part.filter = "keys") =>
              DescPtrsAfter(fd, part).desc = NoType
         /\ ~fd.map /\ fd.ty = "enum" => DescPtrsAfter(fd, part).enum_desc = fd.type_name
<1>1. CASE fd.map /\ part.filter = "keys"
  BY <1>1, EntryFields, SchemaAssumption DEF Target, DescPtrsAfter, DescPtrs
<1>2. CASE fd.map /\ part.filter # "keys"
  BY <1>2, EntryFields, SchemaAssumption DEF Target, DescPtrsAfter, DescPtrs
<1>3. CASE ~fd.map
  BY <1>3, SchemaAssumption DEF Target, DescPtrsAfter, DescPtrs
<1> QED
  BY <1>1, <1>2, <1>3

LEMMA SelectorLeads ==
  ASSUME NEW type \in DOMAIN Schema, NEW fd \in Schema[type], NEW index,
         index # {} => fd.repeated,
         NEW g, g.type_name = type
  PROVE  Through({Inside(g)}, FieldSelector(fd, index)) = {ValueAt(fd)}
<1>1. FindFieldByNumber(type, fd.number) = {fd}
  BY SchemaAssumption DEF FindFieldByNumber
<1>2. Leads(Inside(g), FieldSelector(fd, index)) = {ValueAt(fd)}
  BY <1>1 DEF Leads, Inside, ValueAt, FieldSelector
<1> QED
  BY <1>2 DEF Through

LEMMA EntriesLead ==
  ASSUME NEW type \in DOMAIN Schema, NEW fd \in Schema[type], fd.map, NEW part, NEW v,
         \/ part.filter = "keys" /\ v = AllMapEntries(TRUE, KeyOf(fd).ty)
         \/ part.filter # "keys" /\ v = AllMapEntries(FALSE, ValueOf(fd).ty)
         \/ part.filter # "keys" /\ v = MapFilter(KeyOf(fd).ty, part.text, ValueOf(fd).ty)
  PROVE  Through({ValueAt(fd)}, v) = {ValueAt(Target(fd, part))}
<1>1. EntryFieldRead(fd, v) = Target(fd, part) /\ v.ty = Target(fd, part).ty
  BY DEF EntryFieldRead, Target, AllMapEntries, MapFilter
<1>2. v.kind = "MapFilter" => v.wanted_key_field.wire_type = WireTypeForFieldType(KeyOf(fd).ty)
  BY DEF AllMapEntries, MapFilter, KeyField
<1>3. v.kind \in {"AllMapEntries", "MapFilter"}
  BY DEF AllMapEntries, MapFilter
<1>4. Leads(ValueAt(fd), v) = {ValueAt(Target(fd, part))}
  BY <1>1, <1>2, <1>3 DEF Leads, ValueAt
<1> QED
  BY <1>4 DEF Through

\* Where vs, one or two visitors, lead to.
Chain(from, vs) ==
  IF Len(vs) = 1 THEN Through(from, vs[1]) ELSE Through(Through(from, vs[1]), vs[2])

\* The visitors of a part that is not rejected lead to its target.
LEMMA PartLeads ==
  ASSUME NEW type \in DOMAIN Schema, NEW fd \in Schema[type], NEW part, ~FilterRejected(fd, part),
         NEW g, g.type_name = type
  PROVE  /\ IsSequence(VisitorsFor(fd, part))
         /\ Len(VisitorsFor(fd, part)) \in {1, 2}
         /\ Chain({Inside(g)}, VisitorsFor(fd, part)) = {ValueAt(Target(fd, part))}
<1> DEFINE vs == VisitorsFor(fd, part)
<1>1. CASE ~fd.repeated
  <2>1. vs = <<FieldSelector(fd, {})>> /\ ~fd.map
    BY <1>1, EntryFields DEF VisitorsFor
  <2>2. Through({Inside(g)}, FieldSelector(fd, {})) = {ValueAt(fd)}
    BY SelectorLeads
  <2> QED
    BY <2>1, <2>2, OneElement DEF Chain, Target
<1>2. CASE fd.repeated /\ ~fd.map
  <2>1. PICK index : vs = <<FieldSelector(fd, index)>>
    BY <1>2 DEF VisitorsFor
  <2>2. Through({Inside(g)}, FieldSelector(fd, index)) = {ValueAt(fd)}
    BY <1>2, SelectorLeads
  <2> QED
    BY <1>2, <2>1, <2>2, OneElement DEF Chain, Target
<1>3. CASE fd.map
  <2>1. fd.repeated
    BY <1>3, EntryFields
  <2>2. part.filter \in {"brackets", "keys"}
    BY <2>1 DEF FilterRejected
  <2>3. PICK v : /\ vs = <<FieldSelector(fd, {}), v>>
                 /\ \/ part.filter = "keys" /\ v = AllMapEntries(TRUE, KeyOf(fd).ty)
                    \/ part.filter # "keys" /\ v = AllMapEntries(FALSE, ValueOf(fd).ty)
                    \/ part.filter # "keys" /\ v = MapFilter(KeyOf(fd).ty, part.text, ValueOf(fd).ty)
    BY <1>3, <2>1, <2>2 DEF VisitorsFor
  <2>4. Through({Inside(g)}, FieldSelector(fd, {})) = {ValueAt(fd)}
    BY SelectorLeads
  <2>5. Through({ValueAt(fd)}, v) = {ValueAt(Target(fd, part))}
    BY <1>3, <2>3, EntriesLead
  <2> QED
    BY <2>3, <2>4, <2>5, TwoElements DEF Chain
<1> QED
  BY <1>1, <1>2, <1>3

\* Keys are read by the last visitor of their part.
LEMMA KeysAreLast ==
  ASSUME NEW type \in DOMAIN Schema, NEW fd \in Schema[type], fd.map, NEW part, part.filter = "keys"
  PROVE  /\ Len(VisitorsFor(fd, part)) = 2
         /\ WantsKeys(VisitorsFor(fd, part)[2])
<1>1. VisitorsFor(fd, part) = <<FieldSelector(fd, {}), AllMapEntries(TRUE, KeyOf(fd).ty)>>
  BY EntryFields DEF VisitorsFor
<1> QED
  BY <1>1, TwoElements DEF WantsKeys, AllMapEntries

LEMMA FollowOne ==
  ASSUME NEW from, NEW t, NEW n \in Nat, Len(t) = n + 1
  PROVE  Follow(from, t, n) = Through(from, t[n + 1])
BY DEF Follow

LEMMA FollowTwo ==
  ASSUME NEW from, NEW t, NEW n \in Nat, Len(t) = n + 2
  PROVE  Follow(from, t, n) = Through(Through(from, t[n + 1]), t[n + 2])
BY DEF Follow

LEMMA FollowThree ==
  ASSUME NEW from, NEW t, NEW n \in Nat, Len(t) = n + 3
  PROVE  Follow(from, t, n) = Through(Through(Through(from, t[n + 1]), t[n + 2]), t[n + 3])
BY DEF Follow

\* vs and e are added to s by one step.
LEMMA StepFollows ==
  ASSUME NEW s, IsSequence(s), NEW vs, IsSequence(vs), Len(vs) \in {1, 2}, NEW e, NEW from
  PROVE  Follow(from, Append(s \o vs, e), Len(s)) = Through(Chain(from, vs), e)
<1>1. Len(s) \in Nat /\ IsSequence(s \o vs) /\ Len(s \o vs) = Len(s) + Len(vs)
  BY SequenceLength, Concatenated
<1>2. (s \o vs)[Len(s) + 1] = vs[1] /\ (Len(vs) = 2 => (s \o vs)[Len(s) + 2] = vs[2])
  BY Concatenated
<1>3. PICK t : t = Append(s \o vs, e)
  OBVIOUS
<1>4. Len(t) = Len(s) + Len(vs) + 1 /\ t[Len(s) + Len(vs) + 1] = e
  BY <1>1, <1>3, AppendedTo
<1>5. \A i \in 1 .. Len(s \o vs) : t[i] = (s \o vs)[i]
  BY <1>1, <1>3, AppendedTo
<1>6. t[Len(s) + 1] = vs[1] /\ (Len(vs) = 2 => t[Len(s) + 2] = vs[2])
  BY <1>1, <1>2, <1>5
<1>7. CASE Len(vs) = 1
  <2>1. Len(t) = Len(s) + 2 /\ t[Len(s) + 2] = e
    BY <1>1, <1>4, <1>7
  <2>2. Follow(from, t, Len(s)) = Through(Through(from, t[Len(s) + 1]), t[Len(s) + 2])
    BY <1>1, <2>1, FollowTwo
  <2> QED
    BY <1>3, <1>6, <1>7, <2>1, <2>2 DEF Chain
<1>8. CASE Len(vs) = 2
  <2>1. Len(t) = Len(s) + 3 /\ t[Len(s) + 3] = e
    BY <1>1, <1>4, <1>8
  <2>2. Follow(from, t, Len(s)) =
          Through(Through(Through(from, t[Len(s) + 1]), t[Len(s) + 2]), t[Len(s) + 3])
    BY <1>1, <2>1, FollowThree
  <2> QED
    BY <1>3, <1>6, <1>8, <2>1, <2>2 DEF Chain
<1> QED
  BY <1>7, <1>8

\* What has gone on behind keys has done so for good.
LEMMA StaysBehindKeys ==
  ASSUME NEW s, IsSequence(s), NEW t, IsSequence(t), Len(t) >= Len(s),
         \A i \in 1 .. Len(s) : t[i] = s[i],
         GoesOnBehindKeys(s)
  PROVE  GoesOnBehindKeys(t)
<1>1. Len(s) \in Nat /\ Len(t) \in Nat
  BY SequenceLength
<1>2. PICK i \in 1 .. Len(s) - 1 : WantsKeys(s[i]) /\ s[i + 1].kind = "DescendIntoSubmessage"
  BY DEF GoesOnBehindKeys
<1>3. i \in 1 .. Len(t) - 1 /\ t[i] = s[i] /\ t[i + 1] = s[i + 1]
  BY <1>1
<1> QED
  BY <1>2, <1>3 DEF GoesOnBehindKeys

-----------------------------------------------------------------------------
(* The inductive invariant *)

NoEnumMaps ==
  \A type \in DOMAIN Schema : \A fd \in Schema[type] : fd.map => ValueOf(fd).ty # "enum"

IsCompiled(c) ==
  c = [desc_ptrs |-> c.desc_ptrs, visitors |-> c.visitors, thrown |-> c.thrown]

\* While the path is being compiled the last visitor descends.  If desc is not
\* null, it descends to the message whose descriptor desc is.
Following(c, reached) ==
  /\ IsSequence(c.visitors)
  /\ Len(c.visitors) >= 1
  /\ c.visitors[Len(c.visitors)].kind = "DescendIntoSubmessage"
  /\ c.desc_ptrs.desc \in DOMAIN Schema \cup {NoType}
  /\ c.desc_ptrs.desc # NoType /\ ~GoesOnBehindKeys(c.visitors) =>
       \E g : g.type_name = c.desc_ptrs.desc /\ reached = {Inside(g)}

CompilationInv ==
  /\ IsCompiled(compiled)
  /\ pc \in {"Name", "Start", "Parts", "Done"}
  /\ pc = "Start" => root \in DOMAIN Schema /\ compiled = Root(root) /\ places = {RootPlace(root)}
  /\ pc = "Parts" /\ ~compiled.thrown => Following(compiled, places)
  /\ VisitorsFitSchema
  /\ NoEnumMaps => EmitterKnowsItsType

\* A part that is not rejected, from desc on.
LEMMA PartCompiled ==
  ASSUME NEW c, IsCompiled(c), NEW part, ~CompileQueryPart(c, part).thrown,
         c.desc_ptrs.desc \in DOMAIN Schema \cup {NoType}
  PROVE  /\ c.desc_ptrs.desc \in DOMAIN Schema
         /\ \E fd \in Schema[c.desc_ptrs.desc] :
              /\ ~FilterRejected(fd, part)
              /\ CompileQueryPart(c, part) =
                   [desc_ptrs |-> DescPtrsAfter(fd, part),
                    visitors |-> c.visitors \o VisitorsFor(fd, part),
                    thrown |-> c.thrown]
<1> DEFINE desc == c.desc_ptrs.desc
<1>1. ~c.thrown /\ ~PartRejected(part, desc)
  BY DEF CompileQueryPart, IsCompiled
<1>2. desc \in DOMAIN Schema
  BY <1>1 DEF PartRejected
<1>3. PICK fd \in Schema[desc] : fd.number = part.number /\ ~FilterRejected(fd, part)
  BY <1>1 DEF PartRejected, FindFieldByNumber
<1>4. FindFieldByNumber(desc, part.number) = {fd}
  BY <1>2, <1>3, SchemaAssumption DEF FindFieldByNumber
<1>5. (CHOOSE f \in FindFieldByNumber(desc, part.number) : TRUE) = fd
  BY <1>4
<1>6. CompileQueryPart(c, part) =
        [c EXCEPT !.desc_ptrs = DescPtrsAfter(fd, part), !.visitors = @ \o VisitorsFor(fd, part)]
  BY <1>1, <1>5 DEF CompileQueryPart
<1>7. CompileQueryPart(c, part) =
        [desc_ptrs |-> DescPtrsAfter(fd, part),
         visitors |-> c.visitors \o VisitorsFor(fd, part),
         thrown |-> c.thrown]
  BY <1>6 DEF IsCompiled
<1> QED
  BY <1>2, <1>3, <1>7

\* Where the visitors of a part and the one behind them lead to.
LEMMA PartFollowed ==
  ASSUME NEW s, IsSequence(s), NEW g, g.type_name \in DOMAIN Schema,
         NEW fd \in Schema[g.type_name], NEW part, ~FilterRejected(fd, part), NEW e
  PROVE  Follow({Inside(g)}, Append(s \o VisitorsFor(fd, part), e), Len(s)) =
           Through({ValueAt(Target(fd, part))}, e)
<1>1. /\ IsSequence(VisitorsFor(fd, part))
      /\ Len(VisitorsFor(fd, part)) \in {1, 2}
      /\ Chain({Inside(g)}, VisitorsFor(fd, part)) = {ValueAt(Target(fd, part))}
  BY PartLeads
<1>2. Follow({Inside(g)}, Append(s \o VisitorsFor(fd, part), e), Len(s)) =
        Through(Chain({Inside(g)}, VisitorsFor(fd, part)), e)
  BY <1>1, StepFollows
<1> QED
  BY <1>1, <1>2

\* What a part and the visitor behind it add to the visitors.
LEMMA PartAdded ==
  ASSUME NEW s, IsSequence(s), Len(s) >= 1,
         NEW type \in DOMAIN Schema, NEW fd \in Schema[type], NEW part, ~FilterRejected(fd, part),
         NEW e
  PROVE  LET t == Append(s \o VisitorsFor(fd, part), e) IN
         /\ IsSequence(t)
         /\ Len(t) > Len(s)
         /\ t[Len(t)] = e
         /\ GoesOnBehindKeys(s) => GoesOnBehindKeys(t)
         /\ fd.map /\ part.filter = "keys" /\ e.kind = "DescendIntoSubmessage" => GoesOnBehindKeys(t)
<1> DEFINE vs == VisitorsFor(fd, part)
<1>9. PICK t : t = Append(s \o VisitorsFor(fd, part), e)
  OBVIOUS
<1>0. PICK g : g.type_name = type
  <2>1. [type_name |-> type].type_name = type
    OBVIOUS
  <2> QED
    BY <2>1
<1>1. IsSequence(vs) /\ Len(vs) \in {1, 2}
  BY <1>0, PartLeads
<1>2. Len(s) \in Nat
  BY SequenceLength
<1>3. /\ IsSequence(s \o vs) /\ Len(s \o vs) = Len(s) + Len(vs)
      /\ \A i \in 1 .. Len(s) : (s \o vs)[i] = s[i]
      /\ \A i \in 1 .. Len(vs) : (s \o vs)[Len(s) + i] = vs[i]
  BY <1>1, Concatenated
<1>4. /\ IsSequence(t) /\ Len(t) = Len(s \o vs) + 1
      /\ \A i \in 1 .. Len(s \o vs) : t[i] = (s \o vs)[i]
      /\ t[Len(s \o vs) + 1] = e
  BY <1>3, <1>9, AppendedTo
<1>5. Len(t) > Len(s) /\ t[Len(t)] = e
  BY <1>1, <1>2, <1>3, <1>4
<1>6. \A i \in 1 .. Len(s) : t[i] = s[i]
  BY <1>1, <1>2, <1>3, <1>4
<1>7. ASSUME GoesOnBehindKeys(s) PROVE GoesOnBehindKeys(t)
  <2>1. Len(t) \in Nat
    BY <1>4, SequenceLength
  <2>2. Len(t) >= Len(s)
    BY <1>2, <1>5, <2>1
  <2> QED
    BY <1>4, <1>6, <1>7, <2>2, StaysBehindKeys
<1>8. ASSUME fd.map, part.filter = "keys", e.kind = "DescendIntoSubmessage" PROVE GoesOnBehindKeys(t)
  <2>1. Len(vs) = 2 /\ WantsKeys(vs[2])
    BY <1>8, KeysAreLast
  <2>2. (s \o vs)[Len(s) + 2] = vs[2] /\ Len(s \o vs) = Len(s) + 2
    BY <1>3, <2>1
  <2>3. t[Len(s) + 2] = vs[2]
    BY <1>2, <1>4, <2>2
  <2>4. t[(Len(s) + 2) + 1] = e /\ Len(s) + 2 \in 1 .. Len(t) - 1
    BY <1>2, <1>4, <2>2
  <2> QED
    BY <1>8, <2>1, <2>3, <2>4 DEF GoesOnBehindKeys
<1> QED
  BY <1>4, <1>5, <1>7, <1>8, <1>9

LEMMA InnerStep ==
  ASSUME CompilationInv, NEW part, PartEndsAtDot(part)
  PROVE  CompilationInv'
<1> DEFINE desc == compiled.desc_ptrs.desc
           next == CompileQueryPart(compiled, part)
<1>1. /\ pc = "Parts" /\ pc' = "Parts" /\ ~compiled.thrown /\ Following(compiled, places)
      /\ IsCompiled(compiled) /\ compiled' = CompileInnerPart(compiled, part)
      /\ places' = Follow(places, compiled'.visitors, Len(compiled.visitors))
  BY DEF PartEndsAtDot, Compiles, CompilationInv
<1>2. ~Accepted'
  BY <1>1 DEF Accepted
<1>3. CASE next.thrown
  <2>1. compiled' = next
    BY <1>1, <1>3 DEF CompileInnerPart
  <2>2. next = [compiled EXCEPT !.thrown = TRUE]
    BY <1>1, <1>3 DEF CompileQueryPart, IsCompiled
  <2>3. IsCompiled(compiled') /\ compiled'.thrown
    BY <1>1, <2>1, <2>2 DEF IsCompiled
  <2> QED
    BY <1>1, <1>2, <2>3 DEF CompilationInv, VisitorsFitSchema, EmitterKnowsItsType
<1>4. CASE ~next.thrown
  <2>1. desc \in DOMAIN Schema
    BY <1>1, <1>4, PartCompiled DEF Following
  <2>2. PICK fd \in Schema[desc] :
          /\ ~FilterRejected(fd, part)
          /\ next = [desc_ptrs |-> DescPtrsAfter(fd, part),
                     visitors |-> compiled.visitors \o VisitorsFor(fd, part),
                     thrown |-> compiled.thrown]
    BY <1>1, <1>4, PartCompiled DEF Following
  <2>3. compiled' = [desc_ptrs |-> DescPtrsAfter(fd, part),
                     visitors |-> Append(compiled.visitors \o VisitorsFor(fd, part), Descend),
                     thrown |-> compiled.thrown]
    <3>1. compiled' = [next EXCEPT !.visitors = Append(@, Descend)]
      BY <1>1, <1>4 DEF CompileInnerPart
    <3> HIDE DEF next
    <3> QED
      BY <2>2, <3>1
  <2>0. PICK t : t = Append(compiled.visitors \o VisitorsFor(fd, part), Descend)
    OBVIOUS
  <2>4. compiled'.visitors = t /\ compiled'.desc_ptrs = DescPtrsAfter(fd, part)
    BY <2>0, <2>3
  <2>13. IsSequence(compiled.visitors) /\ Len(compiled.visitors) >= 1
    BY <1>1 DEF Following
  <2>5. Descend.kind = "DescendIntoSubmessage"
    BY DEF Descend
  <2>6. /\ IsSequence(t) /\ Len(t) > Len(compiled.visitors) /\ t[Len(t)] = Descend
        /\ GoesOnBehindKeys(compiled.visitors) => GoesOnBehindKeys(t)
        /\ fd.map /\ part.filter = "keys" => GoesOnBehindKeys(t)
    BY <2>0, <2>1, <2>2, <2>5, <2>13, PartAdded
  <2>7. Len(t) >= 1
    BY <2>6, <2>13, SequenceLength
  <2>8. DescPtrsAfter(fd, part).desc \in DOMAIN Schema \cup {NoType}
    BY <2>1, DescPtrsDescribeTarget
  <2>9. ASSUME DescPtrsAfter(fd, part).desc # NoType, ~GoesOnBehindKeys(t)
        PROVE  \E g : g.type_name = DescPtrsAfter(fd, part).desc /\ places' = {Inside(g)}
    <3>1. desc # NoType /\ ~GoesOnBehindKeys(compiled.visitors) /\ ~(fd.map /\ part.filter = "keys")
      BY <2>1, <2>6, <2>9, SchemaAssumption
    <3>2. PICK g : g.type_name = desc /\ places = {Inside(g)}
      BY <1>1, <3>1 DEF Following
    <3>3. places' = Through({ValueAt(Target(fd, part))}, Descend)
      <4>1. Follow(places, t, Len(compiled.visitors)) = Through({ValueAt(Target(fd, part))}, Descend)
        <5>1. fd \in Schema[g.type_name] /\ g.type_name \in DOMAIN Schema
          BY <2>1, <3>2
        <5>2. ~FilterRejected(fd, part)
          BY <2>2
        <5>3. Follow({Inside(g)}, Append(compiled.visitors \o VisitorsFor(fd, part), Descend),
                     Len(compiled.visitors)) = Through({ValueAt(Target(fd, part))}, Descend)
          BY <2>13, <5>1, <5>2, PartFollowed
        <5> QED
          BY <2>0, <3>2, <5>3
      <4> QED
        BY <1>1, <2>4, <4>1
    <3>4. Target(fd, part).ty = "message" /\ Target(fd, part).type_name = DescPtrsAfter(fd, part).desc
      BY <2>1, <2>9, <3>1, DescPtrsDescribeTarget
    <3>5. ~Target(fd, part).map
      BY <2>1, TargetField
    <3>6. Leads(ValueAt(Target(fd, part)), Descend) = {Inside(Target(fd, part))}
      BY <3>4, <3>5 DEF Leads, ValueAt, Inside, Descend
    <3>7. places' = {Inside(Target(fd, part))}
      BY <3>3, <3>6 DEF Through
    <3> QED
      BY <3>4, <3>7
  <2>10. Following(compiled', places')
    BY <2>4, <2>5, <2>6, <2>7, <2>8, <2>9 DEF Following
  <2>11. IsCompiled(compiled')
    BY <2>3 DEF IsCompiled
  <2> QED
    BY <1>1, <1>2, <2>10, <2>11 DEF CompilationInv, VisitorsFitSchema, EmitterKnowsItsType, Following
<1> QED
  BY <1>3, <1>4

\* The emitter behind a part that is not rejected finds a value of its type.
LEMMA EmitterFits ==
  ASSUME NEW type \in DOMAIN Schema, NEW fd \in Schema[type], NEW part
  PROVE  Through({ValueAt(Target(fd, part))}, Emitter(DescPtrsAfter(fd, part), NoLimit)) =
           {ValueAt(Target(fd, part))}
<1>1. ~Target(fd, part).map /\ DescPtrsAfter(fd, part).ty = Target(fd, part).ty
  BY TargetField, DescPtrsDescribeTarget
<1>2. PICK e : e = Emitter(DescPtrsAfter(fd, part), NoLimit)
  OBVIOUS
<1>3. e.kind = "Emitter" /\ e.ty = Target(fd, part).ty
  BY <1>1, <1>2 DEF Emitter
<1>4. Leads(ValueAt(Target(fd, part)), e) = {ValueAt(Target(fd, part))}
  BY <1>1, <1>3 DEF Leads, ValueAt
<1> QED
  BY <1>2, <1>4 DEF Through

LEMMA TargetDescribed ==
  ASSUME NEW type \in DOMAIN Schema, NEW fd \in Schema[type], NEW part, ~FilterRejected(fd, part)
  PROVE  /\ Target(fd, part).ty = "message" =>
              DescPtrsAfter(fd, part).desc = Target(fd, part).type_name
         /\ NoEnumMaps /\ Target(fd, part).ty = "enum" =>
              DescPtrsAfter(fd, part).enum_desc = Target(fd, part).type_name
<1>1. ASSUME NoEnumMaps, Target(fd, part).ty = "enum"
      PROVE  ~fd.map
  BY <1>1, EntryFields DEF NoEnumMaps, Target
<1>2. ~fd.map => Target(fd, part) = fd
  BY DEF Target
<1> QED
  BY <1>1, <1>2, DescPtrsDescribeTarget

LEMMA EndsBehindDot ==
  ASSUME NEW s, IsSequence(s), Len(s) >= 1, s[Len(s)].kind = "DescendIntoSubmessage", NEW e
  PROVE  EndsWithDot(Append(s, e))
<1>1. PICK t : t = Append(s, e)
  OBVIOUS
<1>2. Len(s) \in Nat /\ Len(t) = Len(s) + 1 /\ \A i \in 1 .. Len(s) : t[i] = s[i]
  BY <1>1, AppendedTo, SequenceLength
<1>3. Len(t) > 1 /\ t[Len(t) - 1] = s[Len(s)]
  BY <1>2
<1> QED
  BY <1>1, <1>3 DEF EndsWithDot

LEMMA EndStep ==
  ASSUME CompilationInv, NEW part, QueryEnds(part)
  PROVE  CompilationInv'
<1> DEFINE desc == compiled.desc_ptrs.desc
           next == CompileQueryPart(compiled, part)
<1>1. /\ pc = "Parts" /\ pc' = "Done" /\ ~compiled.thrown /\ Following(compiled, places)
      /\ IsCompiled(compiled) /\ compiled' = CompileLastPart(compiled, part, NoLimit)
      /\ places' = Follow(places, compiled'.visitors, Len(compiled.visitors))
  BY DEF QueryEnds, Compiles, CompilationInv
<1>2. SUFFICES IsCompiled(compiled') /\ (Accepted' => places' # {}) /\ (NoEnumMaps => EmitterKnowsItsType')
  BY <1>1 DEF CompilationInv, VisitorsFitSchema
<1>3. CASE part = EmptyPart
  <2>1. compiled' = [compiled EXCEPT !.visitors = Append(@, Emitter(compiled.desc_ptrs, NoLimit))]
    BY <1>1, <1>3 DEF CompileLastPart
  <2>2. compiled' = [desc_ptrs |-> compiled.desc_ptrs,
                     visitors |-> Append(compiled.visitors, Emitter(compiled.desc_ptrs, NoLimit)),
                     thrown |-> compiled.thrown]
    BY <1>1, <2>1 DEF IsCompiled
  <2>3. EndsWithDot(compiled'.visitors)
    BY <1>1, <2>2, EndsBehindDot DEF Following
  <2> QED
    BY <2>2, <2>3 DEF IsCompiled, Accepted, EmitterKnowsItsType
<1>4. CASE part # EmptyPart /\ next.thrown
  <2>1. compiled' = next
    BY <1>1, <1>4 DEF CompileLastPart
  <2>2. next = [compiled EXCEPT !.thrown = TRUE]
    BY <1>1, <1>4 DEF CompileQueryPart, IsCompiled
  <2>3. IsCompiled(compiled') /\ compiled'.thrown
    BY <1>1, <2>1, <2>2 DEF IsCompiled
  <2> QED
    BY <2>3 DEF Accepted, EmitterKnowsItsType
<1>5. CASE part # EmptyPart /\ ~next.thrown
  <2>1. desc \in DOMAIN Schema
    BY <1>1, <1>5, PartCompiled DEF Following
  <2>2. PICK fd \in Schema[desc] :
          /\ ~FilterRejected(fd, part)
          /\ next = [desc_ptrs |-> DescPtrsAfter(fd, part),
                     visitors |-> compiled.visitors \o VisitorsFor(fd, part),
                     thrown |-> compiled.thrown]
    BY <1>1, <1>5, PartCompiled DEF Following
  <2>3. PICK e : e = Emitter(DescPtrsAfter(fd, part), NoLimit)
    OBVIOUS
  <2>4. compiled' = [desc_ptrs |-> DescPtrsAfter(fd, part),
                     visitors |-> Append(compiled.visitors \o VisitorsFor(fd, part), e),
                     thrown |-> compiled.thrown]
    <3>1. compiled' = [next EXCEPT !.visitors = Append(@, Emitter(next.desc_ptrs, NoLimit))]
      BY <1>1, <1>5 DEF CompileLastPart
    <3>2. next.desc_ptrs = DescPtrsAfter(fd, part)
      BY <2>2
    <3> HIDE DEF next
    <3> QED
      BY <2>2, <2>3, <3>1, <3>2
  <2>5. PICK t : t = Append(compiled.visitors \o VisitorsFor(fd, part), e)
    OBVIOUS
  <2>6. compiled'.visitors = t /\ compiled'.desc_ptrs = DescPtrsAfter(fd, part)
    BY <2>4, <2>5
  <2>7. IsSequence(compiled.visitors) /\ Len(compiled.visitors) >= 1
    BY <1>1 DEF Following
  <2>8. GoesOnBehindKeys(compiled.visitors) => GoesOnBehindKeys(t)
    BY <2>1, <2>2, <2>5, <2>7, PartAdded
  <2>9. ASSUME Accepted' PROVE places' = {ValueAt(Target(fd, part))}
    <3>1. ~GoesOnBehindKeys(compiled.visitors) /\ desc # NoType
      BY <2>1, <2>6, <2>8, <2>9, SchemaAssumption DEF Accepted
    <3>2. PICK g : g.type_name = desc /\ places = {Inside(g)}
      BY <1>1, <3>1 DEF Following
    <3>3. fd \in Schema[g.type_name] /\ g.type_name \in DOMAIN Schema /\ ~FilterRejected(fd, part)
      BY <2>1, <2>2, <3>2
    <3>4. Follow({Inside(g)}, Append(compiled.visitors \o VisitorsFor(fd, part), e),
                 Len(compiled.visitors)) = Through({ValueAt(Target(fd, part))}, e)
      BY <2>7, <3>3, PartFollowed
    <3>5. Through({ValueAt(Target(fd, part))}, e) = {ValueAt(Target(fd, part))}
      BY <2>1, <2>3, EmitterFits
    <3> QED
      BY <1>1, <2>5, <2>6, <3>2, <3>4, <3>5
  <2>10. IsCompiled(compiled')
    BY <2>4 DEF IsCompiled
  <2>11. ASSUME Accepted', NoEnumMaps, NEW p \in places'
         PROVE  /\ p.fd.ty = "message" => compiled'.desc_ptrs.desc = p.fd.type_name
                /\ p.fd.ty = "enum" => compiled'.desc_ptrs.enum_desc = p.fd.type_name
    <3>1. p.fd = Target(fd, part)
      BY <2>9, <2>11 DEF ValueAt
    <3> QED
      BY <2>1, <2>2, <2>6, <2>11, <3>1, TargetDescribed
  <2> QED
    BY <2>9, <2>10, <2>11 DEF EmitterKnowsItsType
<1> QED
  BY <1>3, <1>4, <1>5

-----------------------------------------------------------------------------
(* The other steps *)

LEMMA Unchanged ==
  ASSUME CompilationInv, UNCHANGED vars
  PROVE  CompilationInv'
<1> USE DEF vars
<1>1. VisitorsFitSchema' /\ (NoEnumMaps => EmitterKnowsItsType')
  BY DEF CompilationInv, VisitorsFitSchema, EmitterKnowsItsType, Accepted
<1> QED
  BY <1>1 DEF CompilationInv

LEMMA InitiallyInv == Init => CompilationInv
<1> SUFFICES ASSUME Init PROVE CompilationInv
  OBVIOUS
<1>1. IsCompiled(compiled) /\ pc = "Name"
  BY DEF Init, Root, IsCompiled
<1> QED
  BY <1>1 DEF CompilationInv, VisitorsFitSchema, EmitterKnowsItsType, Accepted

LEMMA NamesRootStep ==
  ASSUME CompilationInv, NEW type \in DOMAIN Schema, NamesRoot(type)
  PROVE  CompilationInv'
<1>1. pc' = "Start" /\ root' = type /\ compiled' = Root(type) /\ places' = {RootPlace(type)}
  BY DEF NamesRoot
<1>2. IsCompiled(compiled')
  BY <1>1 DEF IsCompiled, Root
<1> QED
  BY <1>1, <1>2 DEF CompilationInv, VisitorsFitSchema, EmitterKnowsItsType, Accepted

\* A rejected query.
LEMMA ThrownStep ==
  ASSUME CompilationInv, pc' = "Done", compiled' = [compiled EXCEPT !.thrown = TRUE]
  PROVE  CompilationInv'
<1>1. IsCompiled(compiled') /\ compiled'.thrown
  BY DEF CompilationInv, IsCompiled
<1> QED
  BY <1>1 DEF CompilationInv, VisitorsFitSchema, EmitterKnowsItsType, Accepted

LEMMA BadQueryStep ==
  ASSUME CompilationInv, BadQuery
  PROVE  CompilationInv'
<1>1. pc' = "Done" /\ compiled' = compiled /\ compiled.thrown /\ IsCompiled(compiled)
  BY DEF BadQuery, CompilationInv
<1> QED
  BY <1>1 DEF CompilationInv, VisitorsFitSchema, EmitterKnowsItsType, Accepted

LEMMA EmptyPathStep ==
  ASSUME CompilationInv, EmptyPath
  PROVE  CompilationInv'
<1>1. PICK e : e = Emitter(Root(root).desc_ptrs, NoLimit)
  OBVIOUS
<1>2. /\ pc' = "Done" /\ compiled = Root(root) /\ places = {RootPlace(root)}
      /\ compiled' = CompileLastPart(Root(root), EmptyPart, NoLimit)
      /\ places' = Follow(places, compiled'.visitors, Len(compiled.visitors))
  BY DEF EmptyPath, Compiles, CompilationInv
<1>3. compiled' = [desc_ptrs |-> Root(root).desc_ptrs, visitors |-> <<e>>, thrown |-> FALSE]
  <2>1. PICK c : c = Root(root)
    OBVIOUS
  <2>2. c.visitors = <<>> /\ ~c.thrown /\ e = Emitter(c.desc_ptrs, NoLimit)
    BY <1>1, <2>1 DEF Root
  <2>3. c = [desc_ptrs |-> c.desc_ptrs, visitors |-> <<>>, thrown |-> FALSE]
    BY <2>1 DEF Root
  <2>4. compiled' = [c EXCEPT !.visitors = Append(c.visitors, e)]
    BY <1>2, <2>1, <2>2 DEF CompileLastPart
  <2>5. Append(c.visitors, e) = <<e>>
    BY <2>2
  <2>6. PICK d, l : d = c.desc_ptrs /\ l = Append(c.visitors, e) /\ l = <<e>>
    BY <2>5
  <2>7. c = [desc_ptrs |-> d, visitors |-> <<>>, thrown |-> FALSE] /\ compiled' = [c EXCEPT !.visitors = l]
    BY <2>3, <2>4, <2>6
  <2>8. compiled' = [desc_ptrs |-> d, visitors |-> l, thrown |-> FALSE]
    BY <2>7
  <2> QED
    BY <2>1, <2>6, <2>8
<1>4. compiled.visitors = <<>> /\ Len(compiled.visitors) = 0
  BY <1>2 DEF Root
<1>5. places' = Through(places, e)
  <2>1. PICK t : t = compiled'.visitors
    OBVIOUS
  <2>2. Len(t) = 0 + 1 /\ t[0 + 1] = e
    BY <1>3, <2>1, OneElement
  <2>3. Follow(places, t, 0) = Through(places, t[0 + 1])
    BY <2>2, FollowOne
  <2> QED
    BY <1>2, <1>4, <2>1, <2>2, <2>3
<1>6. e.kind = "Emitter" /\ e.ty = "message"
  BY <1>1 DEF Emitter, Root
<1>7. Leads(RootPlace(root), e) = {RootPlace(root)}
  BY <1>6 DEF Leads, RootPlace, ValueAt, FieldDescriptor
<1>8. places' = {RootPlace(root)}
  BY <1>2, <1>5, <1>7 DEF Through
<1>9. EmitterKnowsItsType'
  BY <1>3, <1>8 DEF EmitterKnowsItsType, RootPlace, ValueAt, FieldDescriptor, Root
<1> QED
  BY <1>2, <1>3, <1>8, <1>9 DEF CompilationInv, VisitorsFitSchema, IsCompiled

LEMMA DescendIntoRootMessageStep ==
  ASSUME CompilationInv, DescendIntoRootMessage
  PROVE  CompilationInv'
<1>1. /\ pc' = "Parts" /\ compiled = Root(root) /\ places = {RootPlace(root)} /\ root \in DOMAIN Schema
      /\ compiled' = DescendIntoRoot(Root(root))
      /\ places' = Follow(places, compiled'.visitors, Len(compiled.visitors))
  BY DEF DescendIntoRootMessage, Compiles, CompilationInv
<1>2. compiled' = [desc_ptrs |-> Root(root).desc_ptrs, visitors |-> <<Descend>>, thrown |-> FALSE]
  BY <1>1 DEF DescendIntoRoot, Root
<1>3. compiled.visitors = <<>> /\ Len(compiled.visitors) = 0
  BY <1>1 DEF Root
<1>4. places' = Through(places, Descend)
  <2>1. PICK t : t = compiled'.visitors
    OBVIOUS
  <2>2. Len(t) = 0 + 1 /\ t[0 + 1] = Descend
    BY <1>2, <2>1, OneElement
  <2>3. Follow(places, t, 0) = Through(places, t[0 + 1])
    BY <2>2, FollowOne
  <2> QED
    BY <1>1, <1>3, <2>1, <2>2, <2>3
<1>5. PICK g : g = RootPlace(root).fd
  OBVIOUS
<1>6. g.ty = "message" /\ ~g.map /\ g.type_name = root
  BY <1>5 DEF RootPlace, ValueAt, FieldDescriptor
<1>7. Leads(RootPlace(root), Descend) = {Inside(g)}
  BY <1>5, <1>6 DEF Leads, RootPlace, ValueAt, Inside, Descend
<1>8. places' = {Inside(g)}
  BY <1>1, <1>4, <1>7 DEF Through
<1>9. compiled'.desc_ptrs.desc = root
  BY <1>2 DEF Root
<1>10. Following(compiled', places')
  <2>1. compiled'.visitors = <<Descend>>
    BY <1>2
  <2>2. /\ IsSequence(compiled'.visitors) /\ Len(compiled'.visitors) = 1
        /\ compiled'.visitors[Len(compiled'.visitors)] = Descend
    BY <2>1, OneElement
  <2>3. compiled'.visitors[Len(compiled'.visitors)].kind = "DescendIntoSubmessage"
    BY <2>2 DEF Descend
  <2>4. compiled'.desc_ptrs.desc \in DOMAIN Schema \cup {NoType}
    BY <1>1, <1>9
  <2>5. \E f : f.type_name = compiled'.desc_ptrs.desc /\ places' = {Inside(f)}
    BY <1>6, <1>8, <1>9
  <2> QED
    BY <2>2, <2>3, <2>4, <2>5 DEF Following
<1> QED
  BY <1>1, <1>2, <1>10
     DEF CompilationInv, VisitorsFitSchema, EmitterKnowsItsType, Accepted, IsCompiled

-----------------------------------------------------------------------------
(* Theorems *)

LEMMA CompilationStep == CompilationInv /\ [Next]_vars => CompilationInv'
<1> SUFFICES ASSUME CompilationInv, [Next]_vars PROVE CompilationInv'
  OBVIOUS
<1>1. ASSUME NEW type \in RootTypes, NamesRoot(type) PROVE CompilationInv'
  BY <1>1, NamesRootStep, RootTypesAssumption
<1>2. CASE NamesNothing
  BY <1>2, ThrownStep DEF NamesNothing
<1>3. CASE EmptyPath
  BY <1>3, EmptyPathStep
<1>4. CASE DescendIntoRootMessage
  BY <1>4, DescendIntoRootMessageStep
<1>5. ASSUME NEW part \in InnerParts, PartEndsAtDot(part) PROVE CompilationInv'
  BY <1>5, InnerStep
<1>6. ASSUME NEW part \in LastParts, QueryEnds(part) PROVE CompilationInv'
  BY <1>6, EndStep
<1>7. CASE BadQuery
  BY <1>7, BadQueryStep
<1>8. CASE Compiled \/ UNCHANGED vars
  BY <1>8, Unchanged DEF Compiled
<1> QED
  BY <1>1, <1>2, <1>3, <1>4, <1>5, <1>6, <1>7, <1>8 DEF Next

\* Whatever the parts of a path are: the visitors that CompileQuery makes of a
\* query it accepts fit each other and the schema.
THEOREM CompiledQueriesFitSchema == Spec => []VisitorsFitSchema
<1>1. Spec => []CompilationInv
  BY InitiallyInv, CompilationStep, PTL DEF Spec
<1>2. CompilationInv => VisitorsFitSchema
  BY DEF CompilationInv
<1> QED
  BY <1>1, <1>2, PTL

\* desc_set names a descriptor set once GetDescSet has found one.
TextInv ==
  /\ CompilationInv
  /\ desc_set # NoType => desc_set \in DOMAIN DescSets

LEMMA TextStep == TextInv /\ [TextNext]_<<vars, textVars>> => TextInv'
<1> SUFFICES ASSUME TextInv, [TextNext]_<<vars, textVars>> PROVE TextInv'
  OBVIOUS
<1>0. CompilationInv
  BY DEF TextInv
<1>1. CASE GetDescSet
  <2>1. CASE UNCHANGED vars
    BY <1>0, <1>1, <2>1, Unchanged DEF TextInv, GetDescSet
  <2>2. CASE NamesNothing /\ UNCHANGED <<desc_set, position>>
    <3>1. CompilationInv'
      BY <1>0, <2>2, ThrownStep DEF NamesNothing
    <3> QED
      BY <2>2, <3>1 DEF TextInv
  <2> QED
    BY <1>1, <2>1, <2>2 DEF GetDescSet
<1>2. CASE GetDesc
  <2>1. UNCHANGED desc_set /\ desc_set \in DOMAIN DescSets
    BY <1>2 DEF GetDesc, TextInv
  <2>2. \/ \E name \in DOMAIN DescSets[desc_set] : NamesRoot(DescSets[desc_set][name])
        \/ NamesNothing
    BY <1>2 DEF GetDesc
  <2>3. CASE NamesNothing
    BY <1>0, <2>1, <2>3, ThrownStep DEF NamesNothing, TextInv
  <2>4. ASSUME NEW name \in DOMAIN DescSets[desc_set], NamesRoot(DescSets[desc_set][name])
        PROVE  TextInv'
    <3>1. DescSets[desc_set][name] \in DOMAIN Schema
      BY <2>1, <2>4, DescSetsAssumption
    <3>2. CompilationInv'
      BY <1>0, <2>4, <3>1, NamesRootStep
    <3> QED
      BY <2>1, <3>2 DEF TextInv
  <2> QED
    BY <2>2, <2>3, <2>4
<1>3. CASE BeginPath
  <2>1. CompilationInv'
    BY <1>0, <1>3, EmptyPathStep, DescendIntoRootMessageStep DEF BeginPath
  <2> QED
    BY <1>3, <2>1 DEF TextInv, BeginPath, textVars
<1>4. CASE ReadCharacter
  <2>1. PartEndsAtDot(ParsePart(part_buf)) \/ UNCHANGED vars
    BY <1>4 DEF ReadCharacter
  <2>2. CompilationInv'
    BY <1>0, <2>1, InnerStep, Unchanged
  <2> QED
    BY <1>4, <2>2 DEF TextInv, ReadCharacter
<1>5. CASE ReadEnd
  <2>1. CompilationInv'
    BY <1>0, <1>5, EndStep DEF ReadEnd
  <2> QED
    BY <1>5, <2>1 DEF TextInv, ReadEnd, textVars
<1>6. CASE (BadQuery \/ Compiled) /\ UNCHANGED textVars
  <2>1. CompilationInv'
    BY <1>0, <1>6, BadQueryStep, Unchanged DEF Compiled
  <2> QED
    BY <1>6, <2>1 DEF TextInv, textVars
<1>7. CASE UNCHANGED <<vars, textVars>>
  <2>1. CompilationInv' /\ UNCHANGED desc_set
    BY <1>0, <1>7, Unchanged DEF textVars
  <2> QED
    BY <2>1 DEF TextInv
<1> QED
  BY <1>1, <1>2, <1>3, <1>4, <1>5, <1>6, <1>7 DEF TextNext

LEMMA TextInvariant == TextSpec => []TextInv
<1>1. TextInit => TextInv
  BY InitiallyInv DEF TextInit, TextInv
<1> QED
  BY <1>1, TextStep, PTL DEF TextSpec

\* The same for the text of a query, whatever it is and whatever descriptor sets
\* there are: what GetDescSet, GetDesc and CompileQuery accept fits the schema.
THEOREM QueriesFitSchema == TextSpec => []VisitorsFitSchema
<1>1. TextInv => VisitorsFitSchema
  BY DEF TextInv, CompilationInv
<1> QED
  BY <1>1, TextInvariant, PTL

\* Without a map to an enum in the schema, the emitter of every accepted query
\* has the descriptor of the message or enum it emits (Emitter::Create asserts it).
THEOREM EmittersKnowTheirType ==
  ASSUME NoEnumMaps
  PROVE  TextSpec => []EmitterKnowsItsType
<1>1. TextInv => EmitterKnowsItsType
  BY DEF TextInv, CompilationInv
<1> QED
  BY <1>1, TextInvariant, PTL

-----------------------------------------------------------------------------
(* The chain of visitors *)

InOrder(s) == \A v \in 1 .. Len(s) - 1 : s[v + 1].kind \in NextKinds[s[v].kind]

Begins(s) == s[1].kind \in {"DescendIntoSubmessage", "Emitter"}

\* A chain that the next part is put behind.
Begun(s) ==
  /\ IsSequence(s) /\ Len(s) >= 1
  /\ Begins(s) /\ InOrder(s)
  /\ s[Len(s)].kind = "DescendIntoSubmessage"

\* A part is a selector, with a reader of entries behind it or none.
LEMMA PartKinds ==
  ASSUME NEW fd, NEW part, NEW vs, vs = VisitorsFor(fd, part)
  PROVE  /\ IsSequence(vs) /\ Len(vs) \in {1, 2}
         /\ vs[1].kind = "FieldSelector"
         /\ Len(vs) = 2 => vs[2].kind \in {"AllMapEntries", "MapFilter"}
<1>1. ASSUME NEW index, vs = <<FieldSelector(fd, index)>>
      PROVE  IsSequence(vs) /\ Len(vs) = 1 /\ vs[1].kind = "FieldSelector"
  <2>1. PICK e : e = FieldSelector(fd, index)
    OBVIOUS
  <2>2. e.kind = "FieldSelector"
    BY <2>1 DEF FieldSelector
  <2> QED
    BY <1>1, <2>1, <2>2, OneElement
<1>2. ASSUME NEW f, f.kind \in {"AllMapEntries", "MapFilter"}, vs = <<FieldSelector(fd, {}), f>>
      PROVE  /\ IsSequence(vs) /\ Len(vs) = 2 /\ vs[1].kind = "FieldSelector"
             /\ vs[2].kind \in {"AllMapEntries", "MapFilter"}
  <2>1. PICK e : e = FieldSelector(fd, {})
    OBVIOUS
  <2>2. e.kind = "FieldSelector"
    BY <2>1 DEF FieldSelector
  <2> QED
    BY <1>2, <2>1, <2>2, TwoElements
<1>3. \A want_keys, ty : AllMapEntries(want_keys, ty).kind = "AllMapEntries"
  BY DEF AllMapEntries
<1>4. \A key_ty, text, ty : MapFilter(key_ty, text, ty).kind = "MapFilter"
  BY DEF MapFilter
<1>5. PICK index, keys, values, filter :
        /\ index = IF part.text = Star THEN {} ELSE {NumeralValue(part.text)}
        /\ keys = AllMapEntries(TRUE, KeyOf(fd).ty)
        /\ values = AllMapEntries(FALSE, ValueOf(fd).ty)
        /\ filter = MapFilter(KeyOf(fd).ty, part.text, ValueOf(fd).ty)
  OBVIOUS
<1>6. \/ vs = <<FieldSelector(fd, {})>>
      \/ vs = <<FieldSelector(fd, index)>>
      \/ vs = <<FieldSelector(fd, {}), keys>>
      \/ vs = <<FieldSelector(fd, {}), values>>
      \/ vs = <<FieldSelector(fd, {}), filter>>
  <2>1. PICK one : one = <<FieldSelector(fd, {})>>
    OBVIOUS
  <2>2. PICK at : at = <<FieldSelector(fd, index)>>
    OBVIOUS
  <2>3. PICK k, v, f : /\ k = <<FieldSelector(fd, {}), keys>>
                       /\ v = <<FieldSelector(fd, {}), values>>
                       /\ f = <<FieldSelector(fd, {}), filter>>
    OBVIOUS
  <2>4. vs = CASE ~fd.repeated -> one
               [] fd.map /\ part.filter = "keys" -> k
               [] fd.map /\ part.filter = "brackets" /\ part.text = Star -> v
               [] fd.map /\ part.filter = "brackets" /\ part.text # Star -> f
               [] OTHER -> at
    BY <1>5, <2>1, <2>2, <2>3 DEF VisitorsFor
  <2>5. vs \in {one, at, k, v, f}
    BY <2>4
  <2> QED
    BY <2>1, <2>2, <2>3, <2>5
<1>7. {keys.kind, values.kind, filter.kind} \subseteq {"AllMapEntries", "MapFilter"}
  BY <1>3, <1>4, <1>5
<1> QED
  BY <1>1, <1>2, <1>6, <1>7

LEMMA NextKindsAre ==
  /\ NextKinds["DescendIntoSubmessage"] = {"FieldSelector", "Emitter"}
  /\ NextKinds["FieldSelector"] = {"AllMapEntries", "MapFilter", "DescendIntoSubmessage", "Emitter"}
  /\ NextKinds["AllMapEntries"] = {"DescendIntoSubmessage", "Emitter"}
  /\ NextKinds["MapFilter"] = {"DescendIntoSubmessage", "Emitter"}
  /\ NextKinds["Emitter"] = {}
BY DEF NextKinds

\* A chain with e behind it.
Grown(t, e) == IsSequence(t) /\ Len(t) >= 1 /\ Begins(t) /\ InOrder(t) /\ t[Len(t)] = e

IsBehindPart(e) == e.kind \in {"DescendIntoSubmessage", "Emitter"}

\* A part and what stands behind it keep the order.
LEMMA ChainGrows ==
  ASSUME NEW s, Begun(s), NEW fd, NEW part, NEW e, IsBehindPart(e),
         NEW t, t = Append(s \o VisitorsFor(fd, part), e)
  PROVE  Grown(t, e)
<1>1. PICK vs : vs = VisitorsFor(fd, part)
  OBVIOUS
<1>2. /\ IsSequence(vs) /\ Len(vs) \in {1, 2}
      /\ vs[1].kind = "FieldSelector"
      /\ Len(vs) = 2 => vs[2].kind \in {"AllMapEntries", "MapFilter"}
  BY <1>1, PartKinds
<1>3. PICK n \in Nat \ {0}, k \in {1, 2} : n = Len(s) /\ k = Len(vs)
  BY <1>2, SequenceLength DEF Begun
<1>4. PICK u : u = s \o vs
  OBVIOUS
<1>5. /\ IsSequence(u) /\ Len(u) = n + k
      /\ \A i \in 1 .. n : u[i] = s[i]
      /\ \A i \in 1 .. k : u[n + i] = vs[i]
  BY <1>2, <1>3, <1>4, Concatenated DEF Begun
<1>6. /\ IsSequence(t) /\ Len(t) = n + k + 1
      /\ \A i \in 1 .. n + k : t[i] = u[i]
      /\ t[n + k + 1] = e
  BY <1>1, <1>4, <1>5, AppendedTo
<1>7. /\ \A i \in 1 .. n : t[i] = s[i]
      /\ t[n + 1] = vs[1] /\ (k = 2 => t[n + 2] = vs[2])
  <2>1. /\ \A i \in 1 .. n : i \in 1 .. n + k
        /\ n + 1 \in 1 .. n + k /\ 1 \in 1 .. k
        /\ k = 2 => n + 2 \in 1 .. n + k /\ 2 \in 1 .. k
    OBVIOUS
  <2> QED
    BY <1>5, <1>6, <2>1
<1>8. Begins(t)
  <2>1. 1 \in 1 .. n
    OBVIOUS
  <2> QED
    BY <1>7, <2>1 DEF Begun, Begins
<1>9. ASSUME NEW v \in 1 .. n + k PROVE t[v + 1].kind \in NextKinds[t[v].kind]
  <2>1. CASE v < n
    <3>1. v \in 1 .. n - 1 /\ v \in 1 .. n /\ v + 1 \in 1 .. n
      BY <2>1
    <3>2. s[v + 1].kind \in NextKinds[s[v].kind]
      BY <1>3, <3>1 DEF Begun, InOrder
    <3> QED
      BY <1>7, <3>1, <3>2
  <2>2. CASE v = n
    <3>1. v \in 1 .. n
      BY <2>2
    <3>2. t[v].kind = "DescendIntoSubmessage" /\ t[v + 1].kind = "FieldSelector"
      BY <1>2, <1>3, <1>7, <2>2 DEF Begun
    <3> QED
      BY <3>2, NextKindsAre
  <2>3. CASE v = n + 1 /\ k = 2
    <3>1. v + 1 = n + 2
      BY <2>3
    <3>2. t[v].kind = "FieldSelector" /\ t[v + 1].kind \in {"AllMapEntries", "MapFilter"}
      BY <1>2, <1>3, <1>7, <2>3, <3>1
    <3> QED
      BY <3>2, NextKindsAre
  <2>4. CASE v = n + k
    <3>1. t[v].kind \in {"FieldSelector", "AllMapEntries", "MapFilter"}
      BY <1>2, <1>3, <1>7, <2>4
    <3>2. t[v + 1].kind \in {"DescendIntoSubmessage", "Emitter"}
      BY <1>6, <2>4 DEF IsBehindPart
    <3> QED
      BY <3>1, <3>2, NextKindsAre
  <2>5. v < n \/ v = n \/ (v = n + 1 /\ k = 2) \/ v = n + k
    OBVIOUS
  <2> QED
    BY <2>1, <2>2, <2>3, <2>4, <2>5
<1>10. n + k + 1 - 1 = n + k /\ n + k + 1 >= 1
  OBVIOUS
<1> QED
  BY <1>6, <1>8, <1>9, <1>10 DEF InOrder, Grown

\* An emitter has nothing behind it, so that it is the only one.
LEMMA OneEmitter ==
  ASSUME NEW t, IsSequence(t), Len(t) >= 1, InOrder(t),
         t[Len(t)].kind = "Emitter", t[Len(t)].limit = NoLimit
  PROVE  IsChain(t) /\ IsUnlimited(t)
<1>1. PICK n \in Nat \ {0} : n = Len(t)
  BY SequenceLength
<1>2. DOMAIN t = 1 .. n
  BY <1>1 DEF IsSequence
<1>3. ASSUME NEW v \in 1 .. n, t[v].kind = "Emitter" PROVE v = n
  <2>1. CASE v < n
    <3>1. v \in 1 .. n - 1
      BY <2>1
    <3>2. t[v + 1].kind \in NextKinds["Emitter"]
      BY <1>1, <1>3, <3>1 DEF InOrder
    <3> QED
      BY <3>2, NextKindsAre
  <2> QED
    BY <2>1
<1>4. \A v \in 1 .. n : t[v].kind = "Emitter" <=> v = n
  BY <1>1, <1>3
<1> QED
  BY <1>1, <1>2, <1>4 DEF IsChain, IsUnlimited, NoLimit

ChainInv ==
  /\ CompilationInv
  /\ pc = "Parts" /\ ~compiled.thrown => Begun(compiled.visitors)
  /\ CompilesChains

\* A query that is not rejected is complete when its emitter is put behind it.
LEMMA Complete ==
  ASSUME NEW t, IsSequence(t), Len(t) >= 1, Begins(t), InOrder(t),
         NEW desc_ptrs, t[Len(t)] = Emitter(desc_ptrs, NoLimit),
         (compiled.visitors)' = t
  PROVE  CompilesChains'
<1>1. t[Len(t)].kind = "Emitter" /\ t[Len(t)].limit = NoLimit
  BY DEF Emitter
<1>2. IsChain(t) /\ IsUnlimited(t)
  BY <1>1, OneEmitter
<1> QED
  BY <1>2 DEF CompilesChains, Begins, InOrder

LEMMA ChainAtDot ==
  ASSUME ChainInv, NEW part, PartEndsAtDot(part), CompilationInv'
  PROVE  ChainInv'
<1> DEFINE next == CompileQueryPart(compiled, part)
<1>1. /\ pc = "Parts" /\ pc' = "Parts" /\ ~compiled.thrown /\ Following(compiled, places)
      /\ IsCompiled(compiled) /\ compiled' = CompileInnerPart(compiled, part)
      /\ Begun(compiled.visitors)
  BY DEF PartEndsAtDot, Compiles, CompilationInv, ChainInv
<1>2. CompilesChains'
  BY <1>1 DEF CompilesChains
<1>3. CASE next.thrown
  BY <1>1, <1>2, <1>3 DEF CompileInnerPart, ChainInv
<1>4. CASE ~next.thrown
  <2>1. PICK fd : next = [desc_ptrs |-> DescPtrsAfter(fd, part),
                          visitors |-> compiled.visitors \o VisitorsFor(fd, part),
                          thrown |-> compiled.thrown]
    BY <1>1, <1>4, PartCompiled DEF Following
  <2>2. PICK t : t = Append(compiled.visitors \o VisitorsFor(fd, part), Descend)
    OBVIOUS
  <2>3. (compiled.visitors)' = t
    <3>1. compiled' = [next EXCEPT !.visitors = Append(@, Descend)]
      BY <1>1, <1>4 DEF CompileInnerPart
    <3> HIDE DEF next
    <3> QED
      BY <2>1, <2>2, <3>1
  <2>4. Descend.kind = "DescendIntoSubmessage"
    BY DEF Descend
  <2>5. Begun(t)
    <3>1. IsBehindPart(Descend)
      BY <2>4 DEF IsBehindPart
    <3>2. PICK s : s = compiled.visitors
      OBVIOUS
    <3>3. Begun(s) /\ t = Append(s \o VisitorsFor(fd, part), Descend)
      BY <1>1, <2>2, <3>2
    <3>4. Grown(t, Descend)
      BY <3>1, <3>3, ChainGrows, Zenon
    <3> QED
      BY <2>4, <3>4 DEF Begun, Grown
  <2> QED
    BY <1>2, <2>3, <2>5 DEF ChainInv
<1> QED
  BY <1>3, <1>4

LEMMA ChainAtEnd ==
  ASSUME ChainInv, NEW part, QueryEnds(part), CompilationInv'
  PROVE  ChainInv'
<1> DEFINE next == CompileQueryPart(compiled, part)
<1>1. /\ pc = "Parts" /\ pc' = "Done" /\ ~compiled.thrown /\ Following(compiled, places)
      /\ IsCompiled(compiled) /\ compiled' = CompileLastPart(compiled, part, NoLimit)
      /\ Begun(compiled.visitors)
  BY DEF QueryEnds, Compiles, CompilationInv, ChainInv
<1>2. SUFFICES CompilesChains'
  BY <1>1 DEF ChainInv
<1>3. CASE part = EmptyPart
  <2>1. PICK s, e, t : s = compiled.visitors /\ e = Emitter(compiled.desc_ptrs, NoLimit) /\ t = Append(s, e)
    OBVIOUS
  <2>2. compiled' = [compiled EXCEPT !.visitors = Append(@, Emitter(compiled.desc_ptrs, NoLimit))]
    BY <1>1, <1>3 DEF CompileLastPart
  <2>3. (compiled.visitors)' = t
    BY <1>1, <2>1, <2>2 DEF IsCompiled
  <2>4. PICK n \in Nat \ {0} : n = Len(s)
    BY <1>1, <2>1, SequenceLength DEF Begun
  <2>5. /\ IsSequence(t) /\ Len(t) = n + 1
        /\ \A i \in 1 .. n : t[i] = s[i]
        /\ t[n + 1] = e
    BY <1>1, <2>1, <2>4, AppendedTo DEF Begun
  <2>6. e.kind = "Emitter"
    BY <2>1 DEF Emitter
  <2>7. Begins(t)
    <3>1. 1 \in 1 .. n
      OBVIOUS
    <3> QED
      BY <1>1, <2>1, <2>5, <3>1 DEF Begun, Begins
  <2>8. ASSUME NEW v \in 1 .. n PROVE t[v + 1].kind \in NextKinds[t[v].kind]
    <3>1. CASE v < n
      <4>1. v \in 1 .. n - 1 /\ v + 1 \in 1 .. n
        BY <3>1
      <4>2. s[v + 1].kind \in NextKinds[s[v].kind]
        BY <1>1, <2>1, <2>4, <4>1 DEF Begun, InOrder
      <4> QED
        BY <2>5, <4>1, <4>2
    <3>2. CASE v = n
      <4>1. t[v].kind = "DescendIntoSubmessage" /\ t[v + 1].kind = "Emitter"
        BY <1>1, <2>1, <2>4, <2>5, <2>6, <3>2 DEF Begun
      <4> QED
        BY <4>1, NextKindsAre
    <3> QED
      BY <3>1, <3>2
  <2>9. InOrder(t)
    <3>1. n + 1 - 1 = n
      OBVIOUS
    <3> QED
      BY <2>5, <2>8, <3>1 DEF InOrder
  <2>10. Len(t) >= 1 /\ t[Len(t)] = Emitter(compiled.desc_ptrs, NoLimit)
    BY <2>1, <2>5
  <2> QED
    BY <2>3, <2>5, <2>7, <2>9, <2>10, Complete
<1>4. CASE part # EmptyPart /\ next.thrown
  <2>1. compiled' = next
    BY <1>1, <1>4 DEF CompileLastPart
  <2> QED
    BY <1>4, <2>1 DEF CompilesChains
<1>5. CASE part # EmptyPart /\ ~next.thrown
  <2>1. PICK fd : next = [desc_ptrs |-> DescPtrsAfter(fd, part),
                          visitors |-> compiled.visitors \o VisitorsFor(fd, part),
                          thrown |-> compiled.thrown]
    BY <1>1, <1>5, PartCompiled DEF Following
  <2>2. PICK desc_ptrs, e, t :
          /\ desc_ptrs = next.desc_ptrs /\ e = Emitter(desc_ptrs, NoLimit)
          /\ t = Append(compiled.visitors \o VisitorsFor(fd, part), e)
    OBVIOUS
  <2>3. (compiled.visitors)' = t
    <3>1. compiled' = [next EXCEPT !.visitors = Append(@, Emitter(next.desc_ptrs, NoLimit))]
      BY <1>1, <1>5 DEF CompileLastPart
    <3> HIDE DEF next
    <3> QED
      BY <2>1, <2>2, <3>1
  <2>4. IsBehindPart(e)
    BY <2>2 DEF Emitter, IsBehindPart
  <2>5. Grown(t, e)
    <3>1. PICK s : s = compiled.visitors
      OBVIOUS
    <3>2. Begun(s) /\ t = Append(s \o VisitorsFor(fd, part), e)
      BY <1>1, <2>2, <3>1
    <3> QED
      BY <2>4, <3>2, ChainGrows, Zenon
  <2> HIDE DEF next
  <2> QED
    BY <2>2, <2>3, <2>5, Complete DEF Grown
<1> QED
  BY <1>3, <1>4, <1>5

\* A step that compiles, whatever the types and the parts.
Steps ==
  \/ \E type : NamesRoot(type)
  \/ NamesNothing \/ EmptyPath \/ DescendIntoRootMessage
  \/ \E part : PartEndsAtDot(part)
  \/ \E part : QueryEnds(part)
  \/ BadQuery \/ UNCHANGED vars

LEMMA ChainStep == ChainInv /\ Steps /\ CompilationInv' => ChainInv'
<1> SUFFICES ASSUME ChainInv, Steps, CompilationInv' PROVE ChainInv'
  OBVIOUS
<1>0. CompilationInv
  BY DEF ChainInv
<1>1. ASSUME NEW type, NamesRoot(type) PROVE ChainInv'
  BY <1>1 DEF NamesRoot, ChainInv, CompilesChains
<1>2. CASE NamesNothing
  <2>1. pc' = "Done" /\ (compiled.thrown)'
    BY <1>0, <1>2 DEF NamesNothing, CompilationInv, IsCompiled
  <2> QED
    BY <2>1 DEF ChainInv, CompilesChains
<1>3. CASE EmptyPath
  <2>1. PICK desc_ptrs, e, t : desc_ptrs = Root(root).desc_ptrs /\ e = Emitter(desc_ptrs, NoLimit) /\ t = <<e>>
    OBVIOUS
  <2>2. pc' = "Done" /\ compiled = Root(root) /\ compiled' = CompileLastPart(Root(root), EmptyPart, NoLimit)
    BY <1>0, <1>3 DEF EmptyPath, Compiles, CompilationInv
  <2>3. (compiled.visitors)' = t
    <3>1. PICK c : c = Root(root)
      OBVIOUS
    <3>2. c = [desc_ptrs |-> desc_ptrs, visitors |-> <<>>, thrown |-> FALSE]
      BY <2>1, <3>1 DEF Root
    <3>3. ~c.thrown /\ c.desc_ptrs = desc_ptrs
      BY <3>2
    <3>4. compiled' = [c EXCEPT !.visitors = Append(@, Emitter(c.desc_ptrs, NoLimit))]
      BY <2>2, <3>1, <3>3 DEF CompileLastPart
    <3>5. Append(<<>>, e) = t
      BY <2>1
    <3> QED
      BY <2>1, <3>2, <3>3, <3>4, <3>5
  <2>4. IsSequence(t) /\ Len(t) = 1 /\ t[1] = e /\ e.kind = "Emitter"
    BY <2>1, OneElement DEF Emitter
  <2>5. Begins(t) /\ InOrder(t) /\ t[Len(t)] = e /\ Len(t) >= 1
    <3>1. 1 .. 1 - 1 = {}
      OBVIOUS
    <3> QED
      BY <2>4, <3>1 DEF Begins, InOrder
  <2>6. CompilesChains'
    BY <2>1, <2>3, <2>4, <2>5, Complete
  <2> QED
    BY <2>2, <2>6 DEF ChainInv
<1>4. CASE DescendIntoRootMessage
  <2>1. /\ pc' = "Parts" /\ compiled = Root(root) /\ compiled' = DescendIntoRoot(Root(root))
    BY <1>0, <1>4 DEF DescendIntoRootMessage, Compiles, CompilationInv
  <2>2. PICK t : t = <<Descend>>
    OBVIOUS
  <2>3. (compiled.visitors)' = t
    BY <2>1, <2>2 DEF DescendIntoRoot, Root
  <2>4. IsSequence(t) /\ Len(t) = 1 /\ t[1] = Descend /\ Descend.kind = "DescendIntoSubmessage"
    BY <2>2, OneElement DEF Descend
  <2>5. Begun(t)
    <3>1. 1 .. 1 - 1 = {}
      OBVIOUS
    <3> QED
      BY <2>4, <3>1 DEF Begins, InOrder, Begun
  <2> QED
    BY <2>1, <2>3, <2>5 DEF ChainInv, CompilesChains
<1>5. ASSUME NEW part, PartEndsAtDot(part) PROVE ChainInv'
  BY <1>5, ChainAtDot
<1>6. ASSUME NEW part, QueryEnds(part) PROVE ChainInv'
  BY <1>6, ChainAtEnd
<1>7. CASE BadQuery
  BY <1>7 DEF BadQuery, ChainInv, CompilesChains
<1>8. CASE UNCHANGED vars
  BY <1>8 DEF vars, ChainInv, CompilesChains
<1> QED
  BY <1>1, <1>2, <1>3, <1>4, <1>5, <1>6, <1>7, <1>8 DEF Steps

LEMMA ChainStart == Init => ChainInv
BY InitiallyInv DEF Init, ChainInv, CompilesChains

\* Every query that is not rejected is compiled to such a chain as the traverser
\* assumes, and whose emitter has no limit: what Traversal's InputsAssumption
\* and NoLimits say of the visitors of an input is what CompileQuery makes them.
THEOREM CompiledPathsAreChains == Spec => []CompilesChains
<1>1. [Next]_vars => Steps
  BY DEF Next, Steps, Compiled
<1>2. ChainInv /\ [Next]_vars => ChainInv'
  BY <1>1, ChainStep, CompilationStep DEF ChainInv
<1>3. ChainInv => CompilesChains
  BY DEF ChainInv
<1> QED
  BY <1>2, <1>3, ChainStart, PTL DEF Spec

\* The same of every text of a query.
THEOREM CompiledQueriesAreChains == TextSpec => []CompilesChains
<1>1. [TextNext]_<<vars, textVars>> => Steps
  BY DEF TextNext, GetDescSet, GetDesc, BeginPath, ReadCharacter, ReadEnd, Compiled, Steps
<1>2. ChainInv /\ TextInv /\ TextInv' /\ [TextNext]_<<vars, textVars>> => ChainInv'
  BY <1>1, ChainStep DEF TextInv
<1>3. TextInit => ChainInv
  BY ChainStart DEF TextInit
<1>4. ChainInv => CompilesChains
  BY DEF ChainInv
<1> QED
  BY <1>2, <1>3, <1>4, TextInvariant, PTL DEF TextSpec

=============================================================================
