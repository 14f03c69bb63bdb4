------------------------ MODULE DescriptorCacheProofs ------------------------
(***************************************************************************)
(* The cache of DescriptorCache is as old as one of the open transactions  *)
(* whose memory context holds the callback that clears it.  Between the    *)
(* steps that read the table, fill the cache and register the callback,    *)
(* Held says which of these the backend has behind it.                     *)
(***************************************************************************)
EXTENDS DescriptorCache, TLAPS, SequenceTheorems

\* The rows in hand and the new cache are what the innermost query has read; a
\* cache with its callback is what the level with the callback, or one that was
\* released into it, has read.
Held ==
  /\ pc = "Parse" => cached = {} /\ rows \in levels[Len(levels)].read
  /\ pc = "Register" => cached # {} /\ cached \subseteq levels[Len(levels)].read
  /\ ~orphaned /\ cached # {} /\ pc # "Register" =>
       \E i \in Registered : cached \subseteq levels[i].read

IInv == TypeOK /\ AtMostOneCallback /\ Held

-----------------------------------------------------------------------------
(* The stack of levels *)

\* One level of the stack is replaced.
LEMMA Replace ==
  ASSUME NEW s \in Seq(Levels), NEW i \in DOMAIN s, NEW l \in Levels
  PROVE  LET t == [s EXCEPT ![i] = l] IN
         /\ t \in Seq(Levels) /\ Len(t) = Len(s) /\ DOMAIN t = DOMAIN s
         /\ t[i] = l
         /\ \A j \in DOMAIN s \ {i} : t[j] = s[j]
<1> DEFINE t == [s EXCEPT ![i] = l]
<1>1. s \in [1 .. Len(s) -> Levels] /\ Len(s) \in Nat /\ DOMAIN s = 1 .. Len(s)
  BY LenProperties
<1>2. t \in [1 .. Len(s) -> Levels]
  BY <1>1
<1>3. t \in Seq(Levels) /\ Len(t) = Len(s)
  BY <1>1, <1>2, IsASeq, LenProperties
<1> QED
  BY <1>1, <1>2, <1>3

\* A level is pushed.
LEMMA Push ==
  ASSUME NEW s \in Seq(Levels), NEW l \in Levels
  PROVE  LET t == Append(s, l) IN
         /\ t \in Seq(Levels) /\ Len(t) = Len(s) + 1 /\ t # <<>>
         /\ DOMAIN s = 1 .. Len(s) /\ DOMAIN t = 1 .. Len(s) + 1 /\ Len(s) \in Nat
         /\ \A j \in DOMAIN s : t[j] = s[j]
         /\ t[Len(s) + 1] = l
BY AppendProperties, LenProperties

\* The innermost level is taken off.
LEMMA Pop ==
  ASSUME NEW s \in Seq(Levels), NEW n \in 1 .. 2, Len(s) >= n
  PROVE  LET t == SubSeq(s, 1, Len(s) - n) IN
         /\ t \in Seq(Levels) /\ Len(t) = Len(s) - n
         /\ DOMAIN s = 1 .. Len(s) /\ DOMAIN t = 1 .. (Len(s) - n) /\ Len(s) \in Nat
         /\ \A j \in 1 .. (Len(s) - n) : t[j] = s[j]
<1>1. Len(s) \in Nat /\ DOMAIN s = 1 .. Len(s)
  BY LenProperties
<1>2. PICK m \in Nat : m = Len(s) - n
  <2>1. Len(s) - n \in Nat
    BY <1>1
  <2> QED
    BY <2>1
<1>3. \A j \in 1 .. m : s[j] \in Levels
  BY <1>1, <1>2, ElementOfSeq
<1>4. /\ SubSeq(s, 1, m) \in Seq(Levels)
      /\ Len(SubSeq(s, 1, m)) = IF 1 <= m THEN m - 1 + 1 ELSE 0
      /\ \A j \in 1 .. m - 1 + 1 : SubSeq(s, 1, m)[j] = s[1 + j - 1]
  BY <1>3, SubSeqProperties
<1>5. Len(SubSeq(s, 1, m)) = m /\ \A j \in 1 .. m : SubSeq(s, 1, m)[j] = s[j]
  BY <1>4
<1> QED
  BY <1>1, <1>2, <1>4, <1>5, LenProperties

LEMMA NewLevelType == NewLevel \in Levels /\ NewLevel.callbacks = 0
BY DEF NewLevel, Levels, Tables

LEMMA VisibleType == Visible \in Tables
BY DEF Visible, Tables

\* While a transaction is open there is an innermost level.
LEMMA InnermostLevel ==
  ASSUME TypeOK, levels # <<>>
  PROVE  /\ Innermost \in DOMAIN levels /\ Innermost = Len(levels) /\ Innermost \in Nat
         /\ DOMAIN levels = 1 .. Len(levels)
         /\ levels[Innermost] \in Levels
<1>1. levels \in Seq(Levels) /\ Len(levels) \in Nat /\ Len(levels) # 0 /\ DOMAIN levels = 1 .. Len(levels)
  BY LenProperties, EmptySeq DEF TypeOK
<1> QED
  BY <1>1, ElementOfSeq DEF Innermost

-----------------------------------------------------------------------------
(* Steps between two statements *)

\* The callbacks stay where they are and no level forgets what it has read.
LEMMA Kept ==
  ASSUME IInv, pc = "Idle", pc' = "Idle", UNCHANGED <<cached, orphaned>>,
         \A i \in DOMAIN levels :
           /\ i \in DOMAIN levels'
           /\ levels'[i].callbacks = levels[i].callbacks
           /\ levels[i].read \subseteq levels'[i].read,
         \A i \in DOMAIN levels' \ DOMAIN levels : levels'[i].callbacks = 0
  PROVE  AtMostOneCallback' /\ Held'
<1>1. Registered' = Registered
  BY DEF Registered
<1>2. AtMostOneCallback'
  BY <1>1 DEF IInv, AtMostOneCallback, Registered
<1>3. Held'
  BY <1>1 DEF IInv, Held, Registered
<1> QED
  BY <1>2, <1>3

LEMMA BeginStep ==
  ASSUME IInv, Begin \/ Savepoint
  PROVE  IInv'
<1>1. levels \in Seq(Levels) /\ pc = "Idle" /\ ~failed
  BY DEF IInv, TypeOK, Begin, Savepoint, Between
<1>2. levels' = Append(levels, NewLevel)
  <2>1. Append(<<>>, NewLevel) = <<NewLevel>>
    OBVIOUS
  <2> QED
    BY <2>1, Zenon DEF Begin, Savepoint
<1>3. /\ levels' \in Seq(Levels) /\ levels' # <<>>
      /\ DOMAIN levels' = 1 .. Len(levels) + 1 /\ DOMAIN levels = 1 .. Len(levels)
      /\ Len(levels) \in Nat
      /\ \A j \in DOMAIN levels : levels'[j] = levels[j]
      /\ levels'[Len(levels) + 1] = NewLevel
  BY <1>1, <1>2, NewLevelType, Push
<1>4. TypeOK'
  BY <1>1, <1>3 DEF IInv, TypeOK, Begin, Savepoint
<1>5. \A i \in DOMAIN levels' \ DOMAIN levels : levels'[i].callbacks = 0
  <2>1. \A i \in DOMAIN levels' \ DOMAIN levels : i = Len(levels) + 1
    BY <1>3
  <2> QED
    BY <2>1, <1>3, NewLevelType
<1>6. \A i \in DOMAIN levels : i \in DOMAIN levels'
  BY <1>3
<1>7. AtMostOneCallback' /\ Held'
  BY <1>1, <1>3, <1>5, <1>6, Kept DEF Begin, Savepoint
<1> QED
  BY <1>4, <1>7 DEF IInv

LEMMA ChangeStep ==
  ASSUME IInv, NEW row \in Rows, Insert(row) \/ Delete(row)
  PROVE  IInv'
<1>1. /\ levels \in Seq(Levels) /\ pc = "Idle" /\ ~failed /\ levels # <<>>
      /\ UNCHANGED <<committed, failed, pc, rows, cached, orphaned>>
  BY DEF IInv, TypeOK, Insert, Delete, Between
<1>2. Innermost \in DOMAIN levels /\ levels[Innermost] \in Levels
  BY <1>1, InnermostLevel DEF IInv
<1>3. PICK l \in Levels :
        /\ levels' = [levels EXCEPT ![Innermost] = l]
        /\ l.callbacks = levels[Innermost].callbacks /\ l.read = levels[Innermost].read
  <2>1. CASE Insert(row)
    <3> DEFINE l == [levels[Innermost] EXCEPT !.inserted = @ \cup {row}, !.deleted = @ \ {row}]
    <3>1. levels' = [levels EXCEPT ![Innermost] = l]
      BY <2>1 DEF Insert
    <3>2. l \in Levels /\ l.callbacks = levels[Innermost].callbacks /\ l.read = levels[Innermost].read
      BY <1>2 DEF Levels, Tables
    <3> QED
      BY <3>1, <3>2
  <2>2. CASE Delete(row)
    <3> DEFINE l == [levels[Innermost] EXCEPT !.inserted = @ \ {row}, !.deleted = @ \cup {row}]
    <3>1. levels' = [levels EXCEPT ![Innermost] = l]
      BY <2>2 DEF Delete
    <3>2. l \in Levels /\ l.callbacks = levels[Innermost].callbacks /\ l.read = levels[Innermost].read
      BY <1>2 DEF Levels, Tables
    <3> QED
      BY <3>1, <3>2
  <2> QED
    BY <2>1, <2>2
<1>4. /\ levels' \in Seq(Levels) /\ Len(levels') = Len(levels) /\ DOMAIN levels' = DOMAIN levels
      /\ levels'[Innermost] = l
      /\ \A j \in DOMAIN levels \ {Innermost} : levels'[j] = levels[j]
  BY <1>1, <1>2, <1>3, Replace
<1>5. levels' # <<>>
  BY <1>2, <1>4
<1>6. TypeOK'
  BY <1>1, <1>4, <1>5 DEF IInv, TypeOK
<1>7. \A i \in DOMAIN levels :
        levels'[i].callbacks = levels[i].callbacks /\ levels'[i].read = levels[i].read
  BY <1>3, <1>4
<1>8. AtMostOneCallback' /\ Held'
  BY <1>1, <1>4, <1>7, Kept
<1> QED
  BY <1>6, <1>8 DEF IInv

-----------------------------------------------------------------------------
(* The ends of transactions *)

\* The child has a callback, the parent has one, or neither has.
LEMMA ReleaseStep ==
  ASSUME IInv, Release
  PROVE  IInv'
<1> DEFINE n == Len(levels)
           under == SubSeq(levels, 1, n - 2)
           l == Absorb(levels[n - 1], levels[n])
<1>1. /\ levels \in Seq(Levels) /\ n \in Nat /\ n > 1 /\ DOMAIN levels = 1 .. n
      /\ pc = "Idle" /\ ~failed /\ UNCHANGED <<committed, failed, pc, rows, cached, orphaned>>
      /\ levels' = Append(under, l)
  BY LenProperties DEF IInv, TypeOK, Release, Between
<1>2. levels[n - 1] \in Levels /\ levels[n] \in Levels
  BY <1>1, ElementOfSeq
<1>3. l \in Levels
  BY <1>2 DEF Absorb, Levels, Tables
<1>4. /\ l.callbacks = levels[n - 1].callbacks + levels[n].callbacks
      /\ l.read = levels[n - 1].read \cup levels[n].read
      /\ levels[n - 1].callbacks \in Nat /\ levels[n].callbacks \in Nat
  BY <1>2 DEF Absorb, Levels
<1>5. /\ under \in Seq(Levels) /\ Len(under) = n - 2
      /\ \A j \in 1 .. (n - 2) : under[j] = levels[j]
  BY <1>1, Pop
<1>6. /\ levels' \in Seq(Levels) /\ levels' # <<>> /\ DOMAIN levels' = 1 .. (n - 1)
      /\ \A j \in 1 .. (n - 2) : levels'[j] = levels[j]
      /\ levels'[n - 1] = l
  <2> HIDE DEF under, l
  <2>1. /\ levels' \in Seq(Levels) /\ levels' # <<>>
        /\ DOMAIN under = 1 .. Len(under) /\ DOMAIN levels' = 1 .. Len(under) + 1
        /\ \A j \in DOMAIN under : levels'[j] = under[j]
        /\ levels'[Len(under) + 1] = l
    BY <1>1, <1>3, <1>5, Push
  <2>2. Len(under) + 1 = n - 1
    BY <1>1, <1>5
  <2> QED
    BY <2>1, <2>2, <1>5
<1> HIDE DEF n, under, l
<1>7. TypeOK'
  BY <1>1, <1>6 DEF IInv, TypeOK
<1>8. \A i \in DOMAIN levels' : i \in DOMAIN levels /\ n \in DOMAIN levels /\ n - 1 \in DOMAIN levels
                                 /\ (i # n - 1 => i \in 1 .. (n - 2)) /\ i # n
  BY <1>1, <1>6
<1>9. \A i \in Registered' :
        \/ i # n - 1 /\ i \in Registered /\ levels'[i].callbacks = levels[i].callbacks
        \/ i = n - 1 /\ (n - 1 \in Registered \/ n \in Registered)
  BY <1>1, <1>4, <1>6, <1>8 DEF Registered
<1>10. AtMostOneCallback'
  <2>1. \A i, j \in Registered : i = j /\ levels[i].callbacks = 1
    BY DEF IInv, AtMostOneCallback
  <2>2. n - 1 \notin Registered \/ n \notin Registered
    BY <2>1, <1>1
  <2>3. \A i, j \in Registered' : i = j
    BY <1>8, <1>9, <2>1 DEF Registered
  <2>4. n - 1 \in Registered' => l.callbacks = 1
    <3>1. n - 1 \notin Registered => levels[n - 1].callbacks = 0
      BY <1>1, <1>4 DEF Registered
    <3>2. n \notin Registered => levels[n].callbacks = 0
      BY <1>1, <1>4 DEF Registered
    <3> QED
      BY <2>1, <2>2, <1>4, <1>9, <3>1, <3>2
  <2>5. \A i \in Registered' : levels'[i].callbacks = 1
    BY <1>6, <1>9, <2>1, <2>4
  <2>6. Registered = {} => Registered' = {}
    BY <1>9
  <2> QED
    BY <2>3, <2>5, <2>6, <1>1 DEF IInv, AtMostOneCallback
<1>11. Held'
  <2>1. ASSUME NEW i \in Registered, cached \subseteq levels[i].read
        PROVE  \E j \in Registered' : cached \subseteq levels'[j].read
    <3>1. CASE i \in 1 .. (n - 2)
      BY <3>1, <2>1, <1>1, <1>6 DEF Registered
    <3>2. CASE i \in {n - 1, n}
      <4>1. l.callbacks > 0
        BY <3>2, <1>4 DEF Registered
      <4>2. n - 1 \in Registered'
        BY <4>1, <1>1, <1>6 DEF Registered
      <4> QED
        BY <4>2, <3>2, <2>1, <1>4, <1>6
    <3>3. i \in 1 .. n
      BY <1>1 DEF Registered
    <3>4. i \in 1 .. (n - 2) \/ i \in {n - 1, n}
      BY <3>3, <1>1
    <3> QED
      BY <3>1, <3>2, <3>4
  <2> QED
    BY <2>1, <1>1 DEF IInv, Held
<1> QED
  BY <1>7, <1>10, <1>11 DEF IInv

\* The context of the innermost level is deleted.
LEMMA RollbackToStep ==
  ASSUME IInv, RollbackTo
  PROVE  IInv'
<1> DEFINE n == Len(levels)
<1>1. /\ levels \in Seq(Levels) /\ n \in Nat /\ n > 1 /\ DOMAIN levels = 1 .. n
      /\ pc = "Idle" /\ UNCHANGED <<committed, pc, rows, orphaned>> /\ failed' = FALSE
      /\ levels' = SubSeq(levels, 1, n - 1)
      /\ cached' = IF levels[n].callbacks > 0 THEN {} ELSE cached
  BY LenProperties DEF IInv, TypeOK, RollbackTo, ClearCache, Front, Last
<1>2. /\ levels' \in Seq(Levels) /\ Len(levels') = n - 1 /\ DOMAIN levels' = 1 .. (n - 1)
      /\ \A j \in 1 .. (n - 1) : levels'[j] = levels[j]
  BY <1>1, Pop
<1> HIDE DEF n
<1>3. levels' # <<>>
  BY <1>1, <1>2
<1>4. TypeOK'
  BY <1>1, <1>2, <1>3 DEF IInv, TypeOK
<1>5. Registered' = Registered \ {n} /\ (n \in Registered <=> levels[n].callbacks > 0)
  BY <1>1, <1>2 DEF Registered
<1>6. \A i, j \in Registered : i = j /\ levels[i].callbacks = 1
  BY DEF IInv, AtMostOneCallback
<1>7. \A i \in Registered' : i \in 1 .. (n - 1) /\ levels'[i] = levels[i]
  BY <1>2 DEF Registered
<1>8. n \in Registered => Registered' = {}
  BY <1>5, <1>6
<1>9. AtMostOneCallback'
  <2>1. cached' = {} => Registered' = {}
    BY <1>1, <1>5, <1>8 DEF IInv, AtMostOneCallback
  <2> QED
    BY <2>1, <1>1, <1>5, <1>6, <1>7 DEF AtMostOneCallback
<1>10. Held'
  <2>1. CASE n \in Registered
    BY <2>1, <1>1, <1>5 DEF Held
  <2>2. CASE n \notin Registered
    <3>1. cached' = cached /\ Registered' = Registered
      BY <2>2, <1>1, <1>5
    <3> QED
      BY <3>1, <1>1, <1>7 DEF IInv, Held
  <2> QED
    BY <2>1, <2>2
<1> QED
  BY <1>4, <1>9, <1>10 DEF IInv

\* All contexts are deleted.
LEMMA EndStep ==
  ASSUME IInv, Commit \/ Rollback
  PROVE  IInv'
<1>1. /\ levels \in Seq(Levels) /\ Len(levels) \in Nat /\ DOMAIN levels = 1 .. Len(levels)
      /\ pc = "Idle" /\ UNCHANGED <<pc, rows, orphaned>>
      /\ committed' \in Tables /\ failed' = FALSE /\ levels' = <<>>
  BY LenProperties, VisibleType DEF IInv, TypeOK, Commit, Rollback, Between
<1>2. cached' = IF Registered # {} THEN {} ELSE cached
  <2>1. CASE Rollback
    BY <2>1 DEF Rollback, ClearCache, Registered
  <2>2. CASE Commit
    <3>1. DOMAIN levels = {1}
      BY <2>2, <1>1 DEF Commit
    <3> QED
      BY <2>2, <3>1 DEF Commit, ClearCache, Registered
  <2> QED
    BY <2>1, <2>2
<1>3. Registered' = {}
  BY <1>1 DEF Registered
<1>4. TypeOK'
  <2>1. levels' \in Seq(Levels)
    BY <1>1, EmptySeq
  <2>2. cached' \in SUBSET Tables
    BY <1>2 DEF IInv, TypeOK
  <2> QED
    BY <1>1, <2>1, <2>2 DEF IInv, TypeOK
<1>5. AtMostOneCallback'
  BY <1>3 DEF AtMostOneCallback
<1>6. Held'
  BY <1>1, <1>2, <1>3 DEF IInv, Held, AtMostOneCallback
<1> QED
  BY <1>4, <1>5, <1>6 DEF IInv

-----------------------------------------------------------------------------
(* GetOrCreateCached *)

LEMMA FailStep ==
  ASSUME IInv, levels # <<>>, Fail, UNCHANGED cached,
         orphaned' = (orphaned \/ pc = "Register")
  PROVE  IInv'
<1>1. /\ failed' = TRUE /\ pc' = "Idle" /\ rows' = {} /\ UNCHANGED <<committed, levels, cached>>
  BY DEF Fail
<1>2. TypeOK'
  BY <1>1 DEF IInv, TypeOK, Tables
<1>3. Registered' = Registered
  BY <1>1 DEF Registered
<1>4. AtMostOneCallback' /\ Held'
  BY <1>1, <1>3 DEF IInv, AtMostOneCallback, Held
<1> QED
  BY <1>2, <1>4 DEF IInv

LEMMA ReadStep ==
  ASSUME IInv, Read
  PROVE  IInv'
<1>1. /\ levels \in Seq(Levels) /\ pc = "Idle" /\ ~failed /\ levels # <<>> /\ cached = {}
      /\ rows' = Visible /\ pc' = "Parse" /\ UNCHANGED <<committed, failed, cached, orphaned>>
  BY DEF IInv, TypeOK, Read, Between
<1>2. /\ Innermost \in DOMAIN levels /\ Innermost = Len(levels)
      /\ levels[Innermost] \in Levels
  BY <1>1, InnermostLevel DEF IInv
<1> DEFINE l == [levels[Innermost] EXCEPT !.read = @ \cup {Visible}]
<1>3. /\ levels' = [levels EXCEPT ![Innermost] = l]
      /\ l \in Levels /\ l.callbacks = levels[Innermost].callbacks /\ Visible \in l.read
  BY <1>2, VisibleType DEF Read, Levels
<1> HIDE DEF l
<1>4. /\ levels' \in Seq(Levels) /\ Len(levels') = Len(levels) /\ DOMAIN levels' = DOMAIN levels
      /\ levels'[Innermost] = l
      /\ \A j \in DOMAIN levels \ {Innermost} : levels'[j] = levels[j]
  BY <1>1, <1>2, <1>3, Replace
<1>5. levels' # <<>>
  BY <1>2, <1>4
<1>6. TypeOK'
  BY <1>1, <1>4, <1>5, VisibleType DEF IInv, TypeOK
<1>7. Registered = {}
  BY <1>1 DEF IInv, AtMostOneCallback
<1>8. Registered' = {}
  BY <1>3, <1>4, <1>7 DEF Registered
<1>9. AtMostOneCallback'
  BY <1>8 DEF AtMostOneCallback
<1>10. Held'
  BY <1>1, <1>2, <1>3, <1>4 DEF Held
<1> QED
  BY <1>6, <1>9, <1>10 DEF IInv

LEMMA ParseStep ==
  ASSUME IInv, Parse
  PROVE  IInv'
<1>1. pc = "Parse" /\ levels # <<>> /\ cached = {}
  BY DEF IInv, TypeOK, Held, Parse
<1>2. CASE rows \cap Malformed # {}
  <2>1. orphaned' = (orphaned \/ pc = "Register")
    BY <1>1, <1>2 DEF Parse, IInv, TypeOK
  <2> QED
    BY <1>1, <1>2, <2>1, FailStep DEF Parse
<1>3. CASE rows \cap Malformed = {}
  <2>1. /\ cached' = {rows} /\ rows' = {} /\ pc' = "Register"
        /\ UNCHANGED <<committed, levels, failed, orphaned>>
    BY <1>3 DEF Parse
  <2>2. TypeOK'
    BY <1>1, <2>1 DEF IInv, TypeOK, Tables
  <2>3. Registered' = {}
    BY <1>1, <2>1 DEF IInv, AtMostOneCallback, Registered
  <2>4. AtMostOneCallback'
    BY <2>3 DEF AtMostOneCallback
  <2>5. Held'
    BY <1>1, <2>1 DEF IInv, Held
  <2> QED
    BY <2>2, <2>4, <2>5 DEF IInv
<1> QED
  BY <1>2, <1>3

LEMMA RegisterStep ==
  ASSUME IInv, Register
  PROVE  IInv'
<1>1. /\ levels \in Seq(Levels) /\ pc = "Register" /\ ~failed /\ levels # <<>> /\ cached # {}
      /\ pc' = "Idle" /\ UNCHANGED <<committed, failed, rows, cached, orphaned>>
      /\ cached \subseteq levels[Len(levels)].read
      /\ Registered = {}
  BY DEF IInv, TypeOK, Held, AtMostOneCallback, Register
<1>2. /\ Innermost \in DOMAIN levels /\ Innermost = Len(levels)
      /\ levels[Innermost] \in Levels
  BY <1>1, InnermostLevel DEF IInv
<1> DEFINE l == [levels[Innermost] EXCEPT !.callbacks = @ + 1]
<1>3. levels[Innermost].callbacks = 0
  BY <1>1, <1>2 DEF Registered, Levels
<1>4. /\ levels' = [levels EXCEPT ![Innermost] = l]
      /\ l \in Levels /\ l.callbacks = 1 /\ l.read = levels[Innermost].read
  BY <1>2, <1>3 DEF Register, Levels
<1> HIDE DEF l
<1>5. /\ levels' \in Seq(Levels) /\ Len(levels') = Len(levels) /\ DOMAIN levels' = DOMAIN levels
      /\ levels'[Innermost] = l
      /\ \A j \in DOMAIN levels \ {Innermost} : levels'[j] = levels[j]
  BY <1>1, <1>2, <1>4, Replace
<1>6. levels' # <<>>
  BY <1>2, <1>5
<1>7. TypeOK'
  BY <1>1, <1>5, <1>6 DEF IInv, TypeOK
<1>8. Registered' = {Innermost}
  BY <1>1, <1>2, <1>4, <1>5 DEF Registered
<1>9. AtMostOneCallback'
  BY <1>1, <1>4, <1>5, <1>8 DEF AtMostOneCallback
<1>10. Held'
  BY <1>1, <1>2, <1>4, <1>5, <1>8 DEF Held
<1> QED
  BY <1>7, <1>9, <1>10 DEF IInv

-----------------------------------------------------------------------------
(* The invariant *)

LEMMA Initial == Init => IInv
<1> SUFFICES ASSUME Init
             PROVE  IInv
  OBVIOUS
<1>1. levels = <<>> /\ DOMAIN levels = {} /\ levels \in Seq(Levels)
  BY EmptySeq DEF Init
<1>2. TypeOK
  BY <1>1 DEF Init, TypeOK, Tables
<1>3. Registered = {}
  BY <1>1 DEF Registered
<1> QED
  BY <1>2, <1>3 DEF Init, IInv, AtMostOneCallback, Held

LEMMA Inductive == IInv /\ [Next]_vars => IInv'
<1> SUFFICES ASSUME IInv, [Next]_vars
             PROVE  IInv'
  OBVIOUS
<1>1. CASE Begin \/ Savepoint
  BY <1>1, BeginStep
<1>2. ASSUME NEW row \in Rows, Insert(row) \/ Delete(row)
      PROVE  IInv'
  BY <1>2, ChangeStep
<1>3. CASE Release
  BY <1>3, ReleaseStep
<1>4. CASE RollbackTo
  BY <1>4, RollbackToStep
<1>5. CASE Commit \/ Rollback
  BY <1>5, EndStep
<1>6. CASE OtherSessionCommits
  <2>1. UNCHANGED <<levels, failed, pc, rows, cached, orphaned>> /\ committed' \in Tables
    BY <1>6 DEF OtherSessionCommits, Tables
  <2> QED
    BY <2>1 DEF IInv, TypeOK, AtMostOneCallback, Held, Registered
<1>7. CASE Read
  BY <1>7, ReadStep
<1>8. CASE ReadFails
  <2>1. orphaned' = (orphaned \/ pc = "Register")
    BY <1>8 DEF ReadFails, Between, IInv, TypeOK
  <2> QED
    BY <1>8, <2>1, FailStep DEF ReadFails
<1>9. CASE Parse
  BY <1>9, ParseStep
<1>10. CASE Register
  BY <1>10, RegisterStep
<1>11. CASE AllocFails
  <2>1. levels # <<>>
    BY <1>11 DEF AllocFails, IInv, TypeOK
  <2> QED
    BY <1>11, <2>1, FailStep DEF AllocFails
<1>12. CASE UNCHANGED vars
  BY <1>12 DEF vars, IInv, TypeOK, AtMostOneCallback, Held, Registered
<1> QED
  BY <1>1, <1>2, <1>3, <1>4, <1>5, <1>6, <1>7, <1>8, <1>9, <1>10, <1>11, <1>12 DEF Next

LEMMA Invariance == Spec => []IInv
BY Initial, Inductive, PTL DEF Spec

-----------------------------------------------------------------------------
(* Theorems *)

\* Every variable keeps its type, and GetOrCreateCached is only ever under way,
\* or has only failed, within a transaction.
THEOREM TypeCorrect == Spec => []TypeOK
<1>1. IInv => TypeOK
  BY DEF IInv
<1> QED
  BY <1>1, Invariance, PTL

\* However transactions nest, fail and end, and wherever memory runs out, there
\* is never a second callback of the cache nor one for a cache that is gone.
THEOREM OneCallback == Spec => []AtMostOneCallback
<1>1. IInv => AtMostOneCallback
  BY DEF IInv
<1> QED
  BY <1>1, Invariance, PTL

\* Unless the callback of the cache could not be allocated, no cache outlives
\* the transaction it was made in.
THEOREM CacheBound == Spec => []CacheBounded
<1>1. IInv => CacheBounded
  <2> SUFFICES ASSUME IInv, ~orphaned, levels = <<>>
               PROVE  cached = {}
    BY DEF CacheBounded, CacheDiesWithTransaction
  <2>1. Registered = {} /\ pc = "Idle"
    BY DEF IInv, TypeOK, Registered
  <2> QED
    BY <2>1 DEF IInv, Held
<1> QED
  BY <1>1, Invariance, PTL

\* Unless the callback of the cache could not be allocated, the cache is what a
\* query of a (sub)transaction that is open, or was released into one that is,
\* has read.
THEOREM CacheCurrent == Spec => []CacheIsLive
<1>1. IInv => CacheIsLive
  <2> SUFFICES ASSUME IInv, ~orphaned, NEW table \in cached
               PROVE  \E i \in DOMAIN levels : table \in levels[i].read
    BY DEF CacheIsLive
  <2>1. CASE pc = "Register"
    <3>1. levels # <<>> /\ table \in levels[Len(levels)].read
      BY <2>1 DEF IInv, TypeOK, Held
    <3>2. Len(levels) \in DOMAIN levels
      BY <3>1, InnermostLevel DEF IInv, Innermost
    <3> QED
      BY <3>1, <3>2
  <2>2. CASE pc # "Register"
    BY <2>2 DEF IInv, Held, Registered
  <2> QED
    BY <2>1, <2>2
<1> QED
  BY <1>1, Invariance, PTL

=============================================================================
