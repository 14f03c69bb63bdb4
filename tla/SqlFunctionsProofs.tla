-------------------------- MODULE SqlFunctionsProofs --------------------------
(***************************************************************************)
(* Proofs about SqlFunctions: what is read from memory is still there, and *)
(* the statement gets the results it is promised.                          *)
(*                                                                         *)
(* The invariant says, for each step of a call, which context is current   *)
(* and which contexts the call has yet to go back to, and for each chunk   *)
(* that is going to be read again, in which context it is.                 *)
(***************************************************************************)
EXTENDS SqlFunctions, SequenceTheorems, TLAPS

-----------------------------------------------------------------------------
(* The invariant *)

\* The context that a call fills: its own if it is the first of a scan.
CallContext == IF call \in Multi THEN call ELSE Caller

Control ==
  /\ old_context = Caller
  /\ pc \in {"Executor", "PerCall", "Name"} => context = Caller
  /\ pc \in {"Descriptors", "ReadRows", "Parse", "Run", "Push"} => context = CallContext
  /\ pc \in {"Select", "ReadRows"} => outer_mctx = CallContext
  /\ pc = "Name" => call \notin Multi
  /\ pc \in {"Push", "PerCall"} => call \in Multi
  /\ pc # "Executor" => tuple[call] = {} /\ (call \in Multi => call \in open)
  /\ Filling /\ Kind[call] = "json" => result # <<>>
  /\ pc \notin {"ReadRows", "Parse"} => copied = 0

At(m, c, ctx) == c \in DOMAIN m /\ m[c].ctx = ctx

\* The rows of the table are where SPI_finish does not get at them.
CopiedInv ==
  pc \in {"ReadRows", "Parse"} => \A i \in 1 .. copied : At(memory, Copied(i), CallContext)

\* All of a scan is in its own context.
ScanIn(m, s) ==
  /\ At(m, StateOf(s), s) /\ At(m, Array(s), s)
  /\ m[Array(s)].holds \in Nat
  /\ m[StateOf(s)].holds \in 0 .. m[Array(s)].holds
  /\ \A i \in 1 .. m[Array(s)].holds : At(m, Row(s, i), s) /\ m[Row(s, i)].holds \in Rows

ScansInv == \A s \in ReadyScans : ScanIn(memory, s)

\* A scan that is being filled has the first rows of its result.
PushInv ==
  pc = "Push" =>
    /\ ScanIn(memory, call)
    /\ memory[StateOf(call)].holds = 0
    /\ memory[Array(call)].holds <= Len(result)
    /\ \A i \in 1 .. memory[Array(call)].holds : memory[Row(call, i)].holds = result[i]

\* What the statement has been given in the current tuple.
Given(f, c) ==
  \/ c = Nothing
  \/ f \notin Multi /\ c = Value(f) /\ At(memory, c, Caller)
  \/ f \in ReadyScans /\ \E i \in 1 .. memory[Array(f)].holds : c = Row(f, i)

TupleInv == \A f \in Functions : \A c \in tuple[f] : Given(f, c)

IInv == TypeOK /\ Control /\ CopiedInv /\ ScansInv /\ PushInv /\ TupleInv

-----------------------------------------------------------------------------
(* Memory *)

\* A chunk that is there is left alone.
Survives(c, m, n) == c \in DOMAIN m => c \in DOMAIN n /\ n[c] = m[c]

\* So is all that a scan keeps.
Undisturbed(s, m, n) ==
  /\ Survives(StateOf(s), m, n) /\ Survives(Array(s), m, n)
  /\ \A i \in 1 .. m[Array(s)].holds : Survives(Row(s, i), m, n)

\* palloc adds a chunk and leaves the others alone.
LEMMA StoredChunk ==
  ASSUME NEW m, NEW ctx, NEW chunk, NEW holds
  PROVE  LET n == Stored(m, ctx, chunk, holds) IN
         /\ At(n, chunk, ctx) /\ n[chunk].holds = holds
         /\ \A c : c # chunk => Survives(c, m, n)
  BY DEF Stored, Survives, At

\* A context is one of those there are.
InContexts(m) == \A c \in DOMAIN m : m[c].ctx \in Contexts

LEMMA StoredInContexts ==
  ASSUME NEW m, NEW ctx \in Contexts, NEW chunk, NEW holds, InContexts(m)
  PROVE  InContexts(Stored(m, ctx, chunk, holds))
  BY DEF Stored, InContexts

\* pfree takes the chunks it is given only.
LEMMA FreedChunks ==
  ASSUME NEW m, NEW chunks
  PROVE  LET n == Without(m, chunks) IN
         /\ \A c : c \notin chunks => Survives(c, m, n)
         /\ \A c \in DOMAIN n : c \in DOMAIN m /\ n[c] = m[c]
  BY DEF Without, Survives

\* A context takes its own chunks only with it.
LEMMA ContextGone ==
  ASSUME NEW m, NEW ctx
  PROVE  LET n == WithoutContext(m, ctx) IN
         /\ \A c : c \in DOMAIN m /\ m[c].ctx # ctx => c \in DOMAIN n /\ n[c] = m[c]
         /\ \A c \in DOMAIN n : c \in DOMAIN m /\ n[c] = m[c]
  BY DEF WithoutContext, Without

\* A chunk is known by what it is.
LEMMA ChunksDiffer ==
  ASSUME NEW f, NEW g, NEW i, NEW j
  PROVE  /\ StateOf(f) # Array(g) /\ StateOf(f) # Row(g, j) /\ StateOf(f) # Value(g)
         /\ Array(f) # Row(g, j) /\ Array(f) # Value(g) /\ Row(f, i) # Value(g)
         /\ f # g => /\ StateOf(f) # StateOf(g) /\ Array(f) # Array(g)
                     /\ Row(f, i) # Row(g, j) /\ Value(f) # Value(g)
         /\ i # j => Row(f, i) # Row(f, j) /\ Copied(i) # Copied(j)
<1>1. StateOf(f) # Array(g) /\ StateOf(f) # Row(g, j) /\ StateOf(f) # Value(g)
  BY DEF StateOf, Array, Row, Value, Chunk
<1>2. Array(f) # Row(g, j) /\ Array(f) # Value(g) /\ Row(f, i) # Value(g)
  BY DEF Array, Row, Value, Chunk
<1>3. f # g => /\ StateOf(f) # StateOf(g) /\ Array(f) # Array(g)
               /\ Row(f, i) # Row(g, j) /\ Value(f) # Value(g)
  BY DEF StateOf, Array, Row, Value, Chunk
<1>4. i # j => Row(f, i) # Row(f, j) /\ Copied(i) # Copied(j)
  BY DEF Row, Copied, Chunk
<1> QED
  BY <1>1, <1>2, <1>3, <1>4

\* The chunks that a call frees again are none of a scan or a value.
LEMMA LocalChunks ==
  ASSUME NEW f, NEW g, NEW i, NEW j
  PROVE  /\ \A c \in {StateOf(f), Array(f), Row(f, i), Value(f)} :
              c # TypeName(g) /\ c # TupTable /\ c # Copied(j) /\ c # Nothing
         /\ Copied(i) # TypeName(g) /\ Copied(i) # TupTable
<1>1. /\ StateOf(f) # TypeName(g) /\ StateOf(f) # TupTable
      /\ StateOf(f) # Copied(j) /\ StateOf(f) # Nothing
  BY DEF StateOf, TypeName, TupTable, Copied, Nothing, Chunk
<1>2. /\ Array(f) # TypeName(g) /\ Array(f) # TupTable
      /\ Array(f) # Copied(j) /\ Array(f) # Nothing
  BY DEF Array, TypeName, TupTable, Copied, Nothing, Chunk
<1>3. /\ Row(f, i) # TypeName(g) /\ Row(f, i) # TupTable
      /\ Row(f, i) # Copied(j) /\ Row(f, i) # Nothing
  BY DEF Row, TypeName, TupTable, Copied, Nothing, Chunk
<1>4. /\ Value(f) # TypeName(g) /\ Value(f) # TupTable
      /\ Value(f) # Copied(j) /\ Value(f) # Nothing
  BY DEF Value, TypeName, TupTable, Copied, Nothing, Chunk
<1>5. Copied(i) # TypeName(g) /\ Copied(i) # TupTable
  BY DEF Copied, TypeName, TupTable, Chunk
<1> QED
  BY <1>1, <1>2, <1>3, <1>4, <1>5

\* What is undisturbed is still a scan, with the same rows to hand out.
LEMMA ScanKept ==
  ASSUME NEW s, NEW m, NEW n, ScanIn(m, s), Undisturbed(s, m, n)
  PROVE  /\ ScanIn(n, s)
         /\ n[StateOf(s)] = m[StateOf(s)] /\ n[Array(s)] = m[Array(s)]
         /\ \A i \in 1 .. m[Array(s)].holds : n[Row(s, i)] = m[Row(s, i)]
  BY DEF ScanIn, Undisturbed, Survives, At

\* All of a scan survives the end of another context.
LEMMA ScanOutlastsContext ==
  ASSUME NEW s, NEW m, NEW ctx, ScanIn(m, s), ctx # s
  PROVE  Undisturbed(s, m, WithoutContext(m, ctx))
  BY ContextGone DEF ScanIn, At, Undisturbed, Survives

-----------------------------------------------------------------------------
(* What a step leaves alone, as the statement sees it *)

LEMMA ScanUnchanged ==
  ASSUME NEW s, ScanIn(memory, s), Undisturbed(s, memory, memory')
  PROVE  /\ ScanIn(memory', s)
         /\ Undelivered(s)' = Undelivered(s)
         /\ memory'[Array(s)] = memory[Array(s)]
         /\ \A i \in 1 .. memory[Array(s)].holds : Read(Row(s, i))' = Read(Row(s, i))
<1>1. /\ ScanIn(memory', s)
      /\ memory'[StateOf(s)] = memory[StateOf(s)] /\ memory'[Array(s)] = memory[Array(s)]
      /\ \A i \in 1 .. memory[Array(s)].holds : memory'[Row(s, i)] = memory[Row(s, i)]
  BY ScanKept
<1>2. /\ Read(StateOf(s))' = Read(StateOf(s)) /\ Read(StateOf(s)) = memory[StateOf(s)].holds
      /\ Read(Array(s))' = Read(Array(s)) /\ Read(Array(s)) = memory[Array(s)].holds
  BY <1>1, LocalChunks DEF Read, ScanIn, At
<1>3. \A i \in 1 .. memory[Array(s)].holds : Read(Row(s, i))' = Read(Row(s, i))
  BY <1>1, LocalChunks DEF Read, ScanIn, At
<1>4. \A i \in 1 .. Read(Array(s)) - Read(StateOf(s)) :
        Read(Row(s, Read(StateOf(s)) + i))' = Read(Row(s, Read(StateOf(s)) + i))
  BY <1>2, <1>3 DEF ScanIn
<1> QED
  BY <1>1, <1>2, <1>3, <1>4 DEF Undelivered

LEMMA GivenUnchanged ==
  ASSUME NEW f, NEW c, Given(f, c),
         f \in ReadyScans => /\ f \in ReadyScans'
                             /\ ScanIn(memory, f) /\ Undisturbed(f, memory, memory'),
         f \notin Multi /\ At(memory, Value(f), Caller) => Survives(Value(f), memory, memory')
  PROVE  Given(f, c)' /\ Read(c)' = Read(c)
<1>1. CASE c = Nothing
  BY <1>1 DEF Given, Read
<1>2. CASE f \notin Multi /\ c = Value(f) /\ At(memory, c, Caller)
  BY <1>2 DEF Given, Read, Survives, At
<1>3. CASE f \in ReadyScans /\ \E i \in 1 .. memory[Array(f)].holds : c = Row(f, i)
  BY <1>3, ScanUnchanged DEF Given
<1> QED
  BY <1>1, <1>2, <1>3 DEF Given

\* A step within a call, which the statement does not see.
LEMMA WithinCall ==
  ASSUME IInv, Filling, Filling', UNCHANGED <<open, tuple, call, result>>,
         \A s \in ReadyScans : Undisturbed(s, memory, memory'),
         \A f \in Functions \ Multi :
           At(memory, Value(f), Caller) => Survives(Value(f), memory, memory')
  PROVE  ScansInv' /\ TupleInv' /\ UNCHANGED Promised!vars
<1>1. ReadyScans' = ReadyScans
  BY DEF ReadyScans
<1>2. \A s \in ReadyScans : ScanIn(memory', s) /\ Undelivered(s)' = Undelivered(s)
  BY ScanUnchanged DEF IInv, ScansInv
<1>3. \A f \in Functions : \A c \in tuple[f] : Given(f, c)' /\ Read(c)' = Read(c)
  <2> SUFFICES ASSUME NEW f \in Functions, NEW c \in tuple[f]
               PROVE  Given(f, c)' /\ Read(c)' = Read(c)
    OBVIOUS
  <2> QED
    BY <1>1, GivenUnchanged DEF IInv, TupleInv, ScansInv
<1>4. ScansInv' /\ TupleInv'
  BY <1>1, <1>2, <1>3 DEF ScansInv, TupleInv
<1>5. \A f \in Functions : {Read(c) : c \in tuple[f]}' = {Read(c) : c \in tuple[f]}
  BY <1>3
<1>6. \A s \in Multi : (IF s \in ReadyScans THEN {Undelivered(s)} ELSE {})'
                       = IF s \in ReadyScans THEN {Undelivered(s)} ELSE {}
  BY <1>1, <1>2
<1> QED
  BY <1>4, <1>5, <1>6 DEF Promised!vars

-----------------------------------------------------------------------------
(* The steps within a call *)

LEMMA MemoryUnchanged ==
  ASSUME UNCHANGED memory
  PROVE  /\ \A s : Undisturbed(s, memory, memory')
         /\ \A c : Survives(c, memory, memory')
  BY DEF Undisturbed, Survives

LEMMA CopyTypeNameStep ==
  ASSUME IInv, CopyTypeName
  PROVE  IInv' /\ UNCHANGED Promised!vars
<1> USE DEF IInv, CopyTypeName
<1>1. \A c : c # TypeName(call) => Survives(c, memory, memory')
  BY StoredChunk
<1>2. /\ \A s \in ReadyScans : Undisturbed(s, memory, memory')
      /\ \A f \in Functions \ Multi : Survives(Value(f), memory, memory')
  BY <1>1, LocalChunks DEF Undisturbed
<1>3. TypeOK'
  BY StoredInContexts DEF TypeOK, InContexts, locals
<1>4. Control' /\ CopiedInv' /\ PushInv'
  BY DEF Control, CopiedInv, PushInv, CallContext, Filling, locals
<1>5. Filling /\ Filling' /\ UNCHANGED <<open, tuple, call, result>>
  BY DEF Filling, locals
<1> QED
  BY <1>2, <1>3, <1>4, <1>5, WithinCall

LEMMA CacheHitStep ==
  ASSUME IInv, CacheHit
  PROVE  IInv' /\ UNCHANGED Promised!vars
<1> USE DEF IInv, CacheHit
<1>1. TypeOK'
  BY DEF TypeOK, locals
<1>2. Control' /\ CopiedInv' /\ PushInv'
  BY DEF Control, CopiedInv, PushInv, CallContext, Filling, locals
<1>3. Filling /\ Filling' /\ UNCHANGED <<open, tuple, call, result, memory>>
  BY DEF Filling, locals
<1> QED
  BY <1>1, <1>2, <1>3, MemoryUnchanged, WithinCall

LEMMA SelectStep ==
  ASSUME IInv, Select
  PROVE  IInv' /\ UNCHANGED Promised!vars
<1> USE DEF IInv, Select
<1>1. \A c : c # TupTable => Survives(c, memory, memory')
  BY StoredChunk
<1>2. /\ \A s \in ReadyScans : Undisturbed(s, memory, memory')
      /\ \A f \in Functions \ Multi : Survives(Value(f), memory, memory')
  BY <1>1, LocalChunks DEF Undisturbed
<1>3. TypeOK'
  <2>1. InContexts(memory')
    BY StoredInContexts DEF TypeOK, InContexts, Contexts
  <2> QED
    BY <2>1 DEF TypeOK, InContexts, Contexts
<1>4. Control' /\ CopiedInv' /\ PushInv'
  BY DEF Control, CopiedInv, PushInv, CallContext, Filling
<1>5. Filling /\ Filling' /\ UNCHANGED <<open, tuple, call, result>>
  BY DEF Filling
<1> QED
  BY <1>2, <1>3, <1>4, <1>5, WithinCall

LEMMA SwitchToOuterStep ==
  ASSUME IInv, SwitchToOuter
  PROVE  IInv' /\ UNCHANGED Promised!vars
<1> USE DEF IInv, SwitchToOuter
<1>1. TypeOK'
  BY DEF TypeOK, locals
<1>2. Control' /\ PushInv'
  BY DEF Control, PushInv, CallContext, Filling, locals
<1>3. CopiedInv'
  BY DEF Control, CopiedInv, locals
<1>4. Filling /\ Filling' /\ UNCHANGED <<open, tuple, call, result, memory>>
  BY DEF Filling, locals
<1> QED
  BY <1>1, <1>2, <1>3, <1>4, MemoryUnchanged, WithinCall

LEMMA ReadRowStep ==
  ASSUME IInv, ReadRow
  PROVE  IInv' /\ UNCHANGED Promised!vars
<1> USE DEF IInv, ReadRow
<1>1. \A c : c # Copied(copied') => Survives(c, memory, memory')
  BY StoredChunk
<1>2. /\ \A s \in ReadyScans : Undisturbed(s, memory, memory')
      /\ \A f \in Functions \ Multi : Survives(Value(f), memory, memory')
  BY <1>1, LocalChunks DEF Undisturbed
<1>3. TypeOK'
  <2>1. InContexts(memory')
    BY StoredInContexts DEF TypeOK, InContexts
  <2>2. copied' \in 0 .. MaxTableRows
    BY SqlAssumption DEF TypeOK
  <2> QED
    BY <2>1, <2>2 DEF TypeOK, InContexts, Contexts, Results
<1>4. Control' /\ PushInv'
  BY DEF Control, PushInv, CallContext, Filling
<1>5. CopiedInv'
  <2> SUFFICES ASSUME NEW i \in 1 .. copied'
               PROVE  At(memory', Copied(i), CallContext)
    BY DEF CopiedInv, CallContext
  <2>1. CASE i = copied'
    BY <2>1, StoredChunk DEF At, Control
  <2>2. CASE i # copied'
    <3>1. i \in 1 .. copied
      BY <2>2 DEF TypeOK
    <3>2. Copied(i) # Copied(copied')
      BY <2>2, ChunksDiffer
    <3> QED
      BY <3>1, <3>2, <1>1 DEF CopiedInv, At, Survives
  <2> QED
    BY <2>1, <2>2
<1>6. Filling /\ Filling' /\ UNCHANGED <<open, tuple, call, result>>
  BY DEF Filling
<1> QED
  BY <1>2, <1>3, <1>4, <1>5, <1>6, WithinCall

LEMMA SpiFinishStep ==
  ASSUME IInv, SpiFinish
  PROVE  IInv' /\ UNCHANGED Promised!vars
<1> USE DEF IInv, SpiFinish
<1>1. \A c : c \in DOMAIN memory /\ memory[c].ctx # Proc
               => c \in DOMAIN memory' /\ memory'[c] = memory[c]
  BY ContextGone
<1>2. \A s \in ReadyScans : Undisturbed(s, memory, memory')
  <2> SUFFICES ASSUME NEW s \in ReadyScans
               PROVE  Undisturbed(s, memory, memory')
    OBVIOUS
  <2>1. ScanIn(memory, s) /\ s # Proc
    BY SqlAssumption DEF ScansInv, ReadyScans, TypeOK, Multi
  <2> QED
    BY <2>1, ScanOutlastsContext
<1>3. \A f \in Functions \ Multi :
        At(memory, Value(f), Caller) => Survives(Value(f), memory, memory')
  BY <1>1, SqlAssumption DEF At, Survives
<1>4. TypeOK'
  BY ContextGone DEF TypeOK, locals
<1>5. Control' /\ PushInv'
  BY DEF Control, PushInv, CallContext, Filling, locals
<1>6. CopiedInv'
  <2>1. CallContext # Proc
    BY SqlAssumption DEF CallContext, TypeOK, Multi
  <2> QED
    BY <1>1, <2>1 DEF CopiedInv, CallContext, At, locals
<1>7. Filling /\ Filling' /\ UNCHANGED <<open, tuple, call, result>>
  BY DEF Filling, locals
<1> QED
  BY <1>2, <1>3, <1>4, <1>5, <1>6, <1>7, WithinCall

LEMMA ParseStep ==
  ASSUME IInv, Parse
  PROVE  IInv' /\ UNCHANGED Promised!vars
<1> USE DEF IInv, Parse
<1>1. /\ \A s \in ReadyScans : Undisturbed(s, memory, memory')
      /\ \A f \in Functions \ Multi : Survives(Value(f), memory, memory')
  BY FreedChunks, LocalChunks DEF Undisturbed
<1>2. TypeOK'
  BY FreedChunks, SqlAssumption DEF TypeOK
<1>3. Control' /\ CopiedInv' /\ PushInv'
  BY DEF Control, CopiedInv, PushInv, CallContext, Filling
<1>4. Filling /\ Filling' /\ UNCHANGED <<open, tuple, call, result>>
  BY DEF Filling
<1> QED
  BY <1>1, <1>2, <1>3, <1>4, WithinCall

LEMMA StoredTwice ==
  ASSUME NEW m, NEW ctx, NEW b, NEW x, NEW c, NEW y, b # c
  PROVE  LET n == Stored(Stored(m, ctx, b, x), ctx, c, y) IN
         /\ At(n, b, ctx) /\ n[b].holds = x
         /\ At(n, c, ctx) /\ n[c].holds = y
         /\ \A d : d # b /\ d # c => Survives(d, m, n)
  BY DEF Stored, Survives, At

LEMMA ResultsAreSequences == ASSUME NEW r \in Results PROVE r \in Seq(Rows)
  BY SqlAssumption DEF Results

LEMMA NewStateStep ==
  ASSUME IInv, NewState
  PROVE  IInv' /\ UNCHANGED Promised!vars
<1> USE DEF IInv, NewState
<1>1. StateOf(call) # Array(call)
  BY ChunksDiffer
<1>2. /\ At(memory', StateOf(call), context) /\ memory'[StateOf(call)].holds = 0
      /\ At(memory', Array(call), context) /\ memory'[Array(call)].holds = 0
      /\ \A d : d # StateOf(call) /\ d # Array(call) => Survives(d, memory, memory')
  <2>1. memory' = Stored(Stored(memory, context, StateOf(call), 0), context, Array(call), 0)
    OBVIOUS
  <2> QED
    BY <1>1, <2>1, StoredTwice
<1>3. call \in Functions /\ call \in Multi /\ context = call
  BY DEF TypeOK, Control, CallContext
<1>4. /\ \A s \in ReadyScans : Undisturbed(s, memory, memory')
      /\ \A f \in Functions \ Multi : Survives(Value(f), memory, memory')
  BY <1>2, <1>3, ChunksDiffer DEF Undisturbed, ReadyScans, Filling
<1>5. TypeOK'
  <2>1. InContexts(memory')
    BY StoredInContexts DEF TypeOK, InContexts
  <2> QED
    BY <2>1 DEF TypeOK, InContexts, locals
<1>6. Control' /\ CopiedInv'
  BY DEF Control, CopiedInv, CallContext, Filling, locals
<1>7. PushInv'
  <2>1. ScanIn(memory', call)
    BY <1>2, <1>3 DEF ScanIn
  <2>2. Len(result) \in Nat
    BY ResultsAreSequences DEF TypeOK
  <2> QED
    BY <1>2, <2>1, <2>2 DEF PushInv, locals
<1>8. Filling /\ Filling' /\ UNCHANGED <<open, tuple, call, result>>
  BY DEF Filling, locals
<1> QED
  BY <1>4, <1>5, <1>6, <1>7, <1>8, WithinCall

LEMMA PushStep ==
  ASSUME IInv, Push
  PROVE  IInv' /\ UNCHANGED Promised!vars
<1> USE DEF IInv, Push
<1> DEFINE k == memory[Array(call)].holds
<1>1. Pushed = k /\ k \in Nat /\ k < Len(result) /\ result \in Seq(Rows)
  BY LocalChunks, ResultsAreSequences DEF Pushed, Read, PushInv, ScanIn, At, TypeOK
<1>2. Row(call, k + 1) # Array(call)
  BY ChunksDiffer
<1>3. /\ At(memory', Row(call, k + 1), context) /\ memory'[Row(call, k + 1)].holds = result[k + 1]
      /\ At(memory', Array(call), context) /\ memory'[Array(call)].holds = k + 1
      /\ \A d : d # Row(call, k + 1) /\ d # Array(call) => Survives(d, memory, memory')
  <2>1. memory' = Stored(Stored(memory, context, Row(call, k + 1), result[k + 1]),
                         context, Array(call), k + 1)
    BY <1>1
  <2> HIDE DEF k
  <2> QED
    BY <1>2, <2>1, StoredTwice
<1> HIDE DEF k
<1>4. call \in Functions /\ call \in Multi /\ context = call
  BY DEF TypeOK, Control, CallContext
<1>5. /\ \A s \in ReadyScans : Undisturbed(s, memory, memory')
      /\ \A f \in Functions \ Multi : Survives(Value(f), memory, memory')
  BY <1>3, <1>4, ChunksDiffer DEF Undisturbed, ReadyScans, Filling
<1>6. TypeOK'
  <2>1. InContexts(memory')
    BY StoredInContexts DEF TypeOK, InContexts
  <2> QED
    BY <2>1 DEF TypeOK, InContexts, locals
<1>7. Control' /\ CopiedInv'
  BY DEF Control, CopiedInv, CallContext, Filling, locals
<1>8. PushInv'
  <2>1. /\ At(memory', StateOf(call), call) /\ memory'[StateOf(call)].holds = 0
        /\ At(memory', Array(call), call) /\ memory'[Array(call)].holds = k + 1
    BY <1>3, <1>4, ChunksDiffer DEF PushInv, ScanIn, At, Survives
  <2>2. ASSUME NEW i \in 1 .. k + 1
        PROVE  /\ At(memory', Row(call, i), call)
               /\ memory'[Row(call, i)].holds \in Rows /\ memory'[Row(call, i)].holds = result[i]
    <3>1. CASE i = k + 1
      BY <1>1, <1>3, <1>4, <3>1
    <3>2. CASE i # k + 1
      <4>1. i \in 1 .. k /\ Row(call, i) # Row(call, k + 1) /\ Row(call, i) # Array(call)
        BY <1>1, <3>2, ChunksDiffer
      <4>2. /\ At(memory, Row(call, i), call) /\ memory[Row(call, i)].holds \in Rows
            /\ memory[Row(call, i)].holds = result[i]
        BY <4>1 DEF PushInv, ScanIn, k
      <4> QED
        BY <1>3, <4>1, <4>2 DEF At, Survives
    <3> QED
      BY <3>1, <3>2
  <2>3. ScanIn(memory', call)
    BY <1>1, <2>1, <2>2 DEF ScanIn
  <2> QED
    BY <1>1, <2>1, <2>2, <2>3 DEF PushInv, locals
<1>9. Filling /\ Filling' /\ UNCHANGED <<open, tuple, call, result>>
  BY DEF Filling, locals
<1> QED
  BY <1>5, <1>6, <1>7, <1>8, <1>9, WithinCall

-----------------------------------------------------------------------------
(* The steps between calls, and the beginnings of calls *)

\* One function whose results and whose scan a step leaves alone.
LEMMA Untouched ==
  ASSUME IInv, NEW f \in Functions, tuple'[f] = tuple[f],
         f \in ReadyScans => f \in ReadyScans' /\ Undisturbed(f, memory, memory'),
         f \notin Multi /\ At(memory, Value(f), Caller) => Survives(Value(f), memory, memory')
  PROVE  /\ \A c \in tuple'[f] : Given(f, c)'
         /\ {Read(c) : c \in tuple[f]}' = {Read(c) : c \in tuple[f]}
         /\ f \in ReadyScans => ScanIn(memory', f) /\ Undelivered(f)' = Undelivered(f)
<1>1. f \in ReadyScans => ScanIn(memory, f)
  BY DEF IInv, ScansInv
<1>2. \A c \in tuple[f] : Given(f, c)' /\ Read(c)' = Read(c)
  BY <1>1, GivenUnchanged DEF IInv, TupleInv
<1>3. f \in ReadyScans => ScanIn(memory', f) /\ Undelivered(f)' = Undelivered(f)
  BY <1>1, ScanUnchanged
<1> QED
  BY <1>2, <1>3

LEMMA ScansAreFunctions ==
  ASSUME IInv
  PROVE  /\ ReadyScans \subseteq open /\ open \subseteq Multi /\ Multi \subseteq Functions
         /\ Caller \notin Multi /\ Proc \notin Multi
  BY SqlAssumption DEF IInv, TypeOK, ReadyScans, Multi

LEMMA NextTupleStep ==
  ASSUME IInv, NextTuple
  PROVE  IInv' /\ Promised!NextTuple
<1> USE DEF IInv, NextTuple
<1>1. ReadyScans' = ReadyScans /\ ~Filling /\ ~Filling'
  BY DEF ReadyScans, Filling, locals
<1>2. \A s \in ReadyScans : ScanIn(memory', s) /\ Undelivered(s)' = Undelivered(s)
  BY ScansAreFunctions, ScanOutlastsContext, ScanUnchanged DEF ScansInv
<1>3. TypeOK'
  BY ContextGone DEF TypeOK, locals
<1>4. Control' /\ CopiedInv' /\ PushInv'
  BY DEF Control, CopiedInv, PushInv, CallContext, Filling, locals
<1>5. ScansInv' /\ TupleInv'
  BY <1>1, <1>2 DEF ScansInv, TupleInv
<1>6. Promised!NextTuple
  <2>1. \A s \in Multi : (IF s \in ReadyScans THEN {Undelivered(s)} ELSE {})'
                         = IF s \in ReadyScans THEN {Undelivered(s)} ELSE {}
    BY <1>1, <1>2
  <2>2. \A f \in Functions : {Read(c) : c \in tuple[f]}' = {}
    OBVIOUS
  <2> QED
    BY <1>1, <2>1, <2>2 DEF Promised!NextTuple, Promised!NoTuple
<1> QED
  BY <1>3, <1>4, <1>5, <1>6

LEMMA ShutdownStep ==
  ASSUME IInv, NEW s \in open, Shutdown(s)
  PROVE  IInv' /\ Promised!Close(s)
<1> USE DEF IInv, Shutdown
<1>1. ReadyScans' = ReadyScans \ {s} /\ ~Filling /\ ~Filling' /\ s \in Multi
  BY ScansAreFunctions DEF ReadyScans, Filling, locals
<1>2. \A f \in Functions \ {s} :
        /\ f \in ReadyScans => Undisturbed(f, memory, memory')
        /\ f \notin Multi /\ At(memory, Value(f), Caller) => Survives(Value(f), memory, memory')
  <2>1. \A f \in ReadyScans \ {s} : Undisturbed(f, memory, memory')
    BY ScanOutlastsContext DEF ScansInv
  <2>2. s # Caller
    BY <1>1, ScansAreFunctions
  <2> QED
    BY <2>1, <2>2, ContextGone DEF At, Survives
<1>3. \A f \in Functions \ {s} :
        /\ \A c \in tuple'[f] : Given(f, c)'
        /\ {Read(c) : c \in tuple[f]}' = {Read(c) : c \in tuple[f]}
        /\ f \in ReadyScans => ScanIn(memory', f) /\ Undelivered(f)' = Undelivered(f)
  BY <1>1, <1>2, Untouched
<1>4. TypeOK'
  BY ContextGone DEF TypeOK, locals
<1>5. Control' /\ CopiedInv' /\ PushInv'
  BY DEF Control, CopiedInv, PushInv, CallContext, Filling, locals
<1>6. ScansInv' /\ TupleInv'
  BY <1>1, <1>3, ScansAreFunctions DEF ScansInv, TupleInv
<1>7. Promised!Close(s)
  <2>1. \A r \in Multi : (IF r \in ReadyScans THEN {Undelivered(r)} ELSE {})'
                         = IF r = s THEN {} ELSE IF r \in ReadyScans THEN {Undelivered(r)} ELSE {}
    BY <1>1, <1>3, ScansAreFunctions
  <2>2. \A f \in Functions : {Read(c) : c \in tuple[f]}' = {Read(c) : c \in tuple[f]}
    BY <1>3
  <2>3. {Read(c) : c \in tuple[s]} = {}
    OBVIOUS
  <2> QED
    BY <1>1, <2>1, <2>2, <2>3, ScansAreFunctions DEF Promised!Close
<1> QED
  BY <1>4, <1>5, <1>6, <1>7

LEMMA StatementEndsStep ==
  ASSUME IInv, StatementEnds, cached' \in BOOLEAN
  PROVE  IInv' /\ Promised!End
<1> USE DEF IInv, StatementEnds, Forgotten
<1>1. ReadyScans' = {} /\ ~Filling'
  BY DEF ReadyScans, Filling
<1>2. TypeOK'
  <2>1. result' \in Results
    BY SqlAssumption DEF Results
  <2> QED
    BY <2>1, SqlAssumption DEF TypeOK, NoMemory, Contexts
<1>3. Control' /\ CopiedInv' /\ PushInv'
  BY DEF Control, CopiedInv, PushInv, Filling
<1>4. ScansInv' /\ TupleInv'
  BY <1>1 DEF ScansInv, TupleInv
<1>5. Promised!End
  BY <1>1 DEF Promised!End, Promised!NothingOpen, Promised!NoTuple, Promised!Multi, Multi
<1> QED
  BY <1>2, <1>3, <1>4, <1>5

LEMMA PlainCallStep ==
  ASSUME IInv, NEW f \in Functions, PlainCall(f)
  PROVE  IInv' /\ \E rows \in Results : Promised!Ask(f, rows)
<1> USE DEF IInv, PlainCall, Calls
<1>1. ReadyScans' = ReadyScans /\ ~Filling /\ Filling'
  BY ScansAreFunctions DEF ReadyScans, Filling
<1>2. \A g \in Functions :
        /\ \A c \in tuple'[g] : Given(g, c)'
        /\ {Read(c) : c \in tuple[g]}' = {Read(c) : c \in tuple[g]}
        /\ g \in ReadyScans => ScanIn(memory', g) /\ Undelivered(g)' = Undelivered(g)
  BY <1>1, MemoryUnchanged, Untouched
<1>3. TypeOK'
  BY DEF TypeOK
<1>4. Control' /\ CopiedInv' /\ PushInv'
  BY DEF Control, CopiedInv, PushInv, CallContext, Filling
<1>5. ScansInv' /\ TupleInv'
  BY <1>1, <1>2, ScansAreFunctions DEF ScansInv, TupleInv
<1>6. Promised!Ask(f, result')
  <2>1. \A r \in Multi : (IF r \in ReadyScans THEN {Undelivered(r)} ELSE {})'
                         = IF r \in ReadyScans THEN {Undelivered(r)} ELSE {}
    BY <1>1, <1>2, ScansAreFunctions
  <2>2. {Read(c) : c \in tuple[f]} = {} /\ f \notin Multi
    OBVIOUS
  <2>3. f \notin Promised!Multi
    BY <2>2 DEF Promised!Multi, Multi
  <2> QED
    BY <1>1, <1>2, <2>1, <2>2, <2>3 DEF Promised!Ask
<1> QED
  BY <1>3, <1>4, <1>5, <1>6

LEMMA FirstCallStep ==
  ASSUME IInv, NEW s \in Functions, FirstCall(s)
  PROVE  IInv' /\ \E rows \in Results : Promised!Ask(s, rows)
<1> USE DEF IInv, FirstCall, Calls
<1>1. ReadyScans' = ReadyScans /\ ~Filling /\ Filling' /\ s \notin ReadyScans /\ s \in Multi
  BY ScansAreFunctions DEF ReadyScans, Filling
<1>2. \A g \in Functions :
        /\ \A c \in tuple'[g] : Given(g, c)'
        /\ {Read(c) : c \in tuple[g]}' = {Read(c) : c \in tuple[g]}
        /\ g \in ReadyScans => ScanIn(memory', g) /\ Undelivered(g)' = Undelivered(g)
  BY <1>1, MemoryUnchanged, Untouched
<1>3. TypeOK'
  BY DEF TypeOK, Contexts
<1>4. Control' /\ CopiedInv' /\ PushInv'
  BY <1>1 DEF Control, CopiedInv, PushInv, CallContext, Filling, Multi
<1>5. ScansInv' /\ TupleInv'
  BY <1>1, <1>2, ScansAreFunctions DEF ScansInv, TupleInv
<1>6. Promised!Ask(s, result')
  <2>1. \A r \in Multi : (IF r \in ReadyScans THEN {Undelivered(r)} ELSE {})'
                         = IF r \in ReadyScans THEN {Undelivered(r)} ELSE {}
    BY <1>1, <1>2, ScansAreFunctions
  <2>2. {Read(c) : c \in tuple[s]} = {}
    OBVIOUS
  <2> QED
    BY <1>1, <1>2, <2>1, <2>2 DEF Promised!Ask
<1> QED
  BY <1>3, <1>4, <1>5, <1>6

LEMMA LaterCallStep ==
  ASSUME IInv, NEW s \in Functions, LaterCall(s)
  PROVE  IInv' /\ UNCHANGED Promised!vars
<1> USE DEF IInv, LaterCall, Calls
<1>1. ReadyScans' = ReadyScans /\ ~Filling /\ ~Filling' /\ s \in Multi
  BY ScansAreFunctions DEF ReadyScans, Filling
<1>2. \A g \in Functions :
        /\ \A c \in tuple'[g] : Given(g, c)'
        /\ {Read(c) : c \in tuple[g]}' = {Read(c) : c \in tuple[g]}
        /\ g \in ReadyScans => ScanIn(memory', g) /\ Undelivered(g)' = Undelivered(g)
  BY <1>1, MemoryUnchanged, Untouched
<1>3. TypeOK'
  BY DEF TypeOK
<1>4. Control' /\ CopiedInv' /\ PushInv'
  BY <1>1 DEF Control, CopiedInv, PushInv, CallContext, Filling
<1>5. ScansInv' /\ TupleInv'
  BY <1>1, <1>2, ScansAreFunctions DEF ScansInv, TupleInv
<1>6. \A r \in Multi : (IF r \in ReadyScans THEN {Undelivered(r)} ELSE {})'
                       = IF r \in ReadyScans THEN {Undelivered(r)} ELSE {}
  BY <1>1, <1>2, ScansAreFunctions
<1> QED
  BY <1>1, <1>2, <1>3, <1>4, <1>5, <1>6 DEF Promised!vars

-----------------------------------------------------------------------------
(* The ends of calls *)

\* A function that is not set-returning answers with a chunk of the caller's.
LEMMA Replies ==
  ASSUME IInv, NEW f \in Functions, f = call, pc = "Run", f \notin Multi,
         NEW rows, rows = result, NEW chunk, Return(chunk),
         UNCHANGED <<context, open, cached>>, InContexts(memory'),
         \A s \in ReadyScans : Undisturbed(s, memory, memory'),
         \A g \in Functions : g # f => Survives(Value(g), memory, memory'),
         chunk = Nothing \/ (chunk = Value(f) /\ At(memory', chunk, Caller)),
         Read(chunk)' = Promised!Answer(f, rows)
  PROVE  IInv' /\ Promised!Reply(f, rows)
<1> USE DEF Return, Forgotten
<1>1. /\ ReadyScans' = ReadyScans /\ Filling /\ ~Filling' /\ rows \in Results
      /\ DOMAIN tuple = Functions /\ tuple' = [tuple EXCEPT ![f] = {chunk}]
  BY ScansAreFunctions DEF IInv, ReadyScans, Filling, TypeOK
<1>2. \A g \in Functions : g # f =>
        /\ \A c \in tuple'[g] : Given(g, c)'
        /\ {Read(c) : c \in tuple[g]}' = {Read(c) : c \in tuple[g]}
  BY <1>1, Untouched
<1>3. \A s \in ReadyScans : ScanIn(memory', s) /\ Undelivered(s)' = Undelivered(s)
  BY ScanUnchanged DEF IInv, ScansInv
<1>4. TypeOK'
  <2>1. result' \in Results
    BY SqlAssumption DEF Results
  <2> QED
    BY <1>1, <2>1, SqlAssumption DEF IInv, TypeOK, InContexts, Contexts
<1>5. Control' /\ CopiedInv' /\ PushInv'
  BY <1>1 DEF IInv, Control, CopiedInv, PushInv, CallContext, Filling
<1>6. ScansInv' /\ TupleInv'
  <2>1. tuple'[f] = {chunk}
    BY <1>1
  <2>2. Given(f, chunk)'
    BY DEF Given
  <2> QED
    BY <1>1, <1>2, <1>3, <2>1, <2>2 DEF ScansInv, TupleInv
<1>7. Promised!Reply(f, rows)
  <2>1. \A r \in Multi : (IF r \in ReadyScans THEN {Undelivered(r)} ELSE {})'
                         = IF r \in ReadyScans THEN {Undelivered(r)} ELSE {}
    BY <1>1, <1>3
  <2>2. {Read(c) : c \in tuple[f]}' = {Promised!Answer(f, rows)}
    BY <1>1
  <2>3. f \notin Promised!Multi
    BY DEF Promised!Multi, Multi
  <2> QED
    BY <1>1, <1>2, <2>1, <2>2, <2>3 DEF Promised!Reply
<1> QED
  BY <1>4, <1>5, <1>6, <1>7 DEF IInv

\* Storing the value in the memory of the caller leaves all else alone.
LEMMA ValueStored ==
  ASSUME IInv, pc = "Run", NEW f \in Functions, f = call, f \notin Multi, NEW holds
  PROVE  LET m == Stored(memory, context, Value(f), holds) IN
         /\ InContexts(m)
         /\ At(m, Value(f), Caller) /\ m[Value(f)].holds = holds
         /\ \A s \in ReadyScans : Undisturbed(s, memory, m)
         /\ \A g \in Functions : g # f => Survives(Value(g), memory, m)
<1> DEFINE m == Stored(memory, context, Value(f), holds)
<1>1. context = Caller /\ context \in Contexts
  BY DEF IInv, Control, CallContext, Contexts
<1>2. InContexts(m)
  BY <1>1, StoredInContexts DEF IInv, TypeOK, InContexts
<1>3. At(m, Value(f), Caller) /\ m[Value(f)].holds = holds
  BY <1>1, StoredChunk
<1>4. \A c : c # Value(f) => Survives(c, memory, m)
  BY StoredChunk
<1> HIDE DEF m
<1>5. \A s \in ReadyScans : Undisturbed(s, memory, m)
  BY <1>4, ChunksDiffer DEF Undisturbed
<1>6. \A g \in Functions : g # f => Survives(Value(g), memory, m)
  BY <1>4, ChunksDiffer
<1> QED
  BY <1>2, <1>3, <1>5, <1>6 DEF m

LEMMA ReturnFirstRowStep ==
  ASSUME IInv, NEW f \in Functions, f = call, NEW rows, rows = result, ReturnFirstRow
  PROVE  IInv' /\ Promised!Reply(f, rows)
<1>1. /\ pc = "Run" /\ f \notin Multi /\ Kind[f] = "query"
      /\ UNCHANGED <<context, open, cached>>
  BY DEF ReturnFirstRow, Multi
<1>2. CASE rows = <<>>
  <2>1. Return(Nothing) /\ UNCHANGED memory
    BY <1>2 DEF ReturnFirstRow
  <2>2. InContexts(memory') /\ Read(Nothing)' = Null /\ Promised!Answer(f, rows) = Null
    BY <1>1, <1>2, <2>1 DEF IInv, TypeOK, InContexts, Read, Promised!Answer
  <2>3. /\ \A s \in ReadyScans : Undisturbed(s, memory, memory')
        /\ \A g \in Functions : g # f => Survives(Value(g), memory, memory')
    BY <2>1, MemoryUnchanged
  <2> QED
    BY <1>1, <2>1, <2>2, <2>3, Replies
<1>3. CASE rows # <<>>
  <2>1. Return(Value(f)) /\ memory' = Stored(memory, context, Value(f), Head(rows))
    BY <1>3 DEF ReturnFirstRow
  <2>2. /\ InContexts(memory')
        /\ At(memory', Value(f), Caller) /\ memory'[Value(f)].holds = Head(rows)
        /\ \A s \in ReadyScans : Undisturbed(s, memory, memory')
        /\ \A g \in Functions : g # f => Survives(Value(g), memory, memory')
    BY <1>1, <2>1, ValueStored
  <2>3. Read(Value(f))' = Head(rows)
    BY <2>2, LocalChunks DEF Read, At
  <2>4. Promised!Answer(f, rows) = Head(rows)
    BY <1>1, <1>3 DEF Promised!Answer
  <2> QED
    BY <1>1, <2>1, <2>2, <2>3, <2>4, Replies
<1> QED
  BY <1>2, <1>3

LEMMA ReturnArrayStep ==
  ASSUME IInv, NEW f \in Functions, f = call, NEW rows, rows = result, ReturnArray
  PROVE  IInv' /\ Promised!Reply(f, rows)
<1>1. /\ pc = "Run" /\ f \notin Multi /\ Kind[f] = "array"
      /\ UNCHANGED <<context, open, cached>>
  BY DEF ReturnArray, Multi
<1>2. Return(Value(f)) /\ memory' = Stored(memory, context, Value(f), rows)
  BY DEF ReturnArray
<1>3. /\ InContexts(memory')
      /\ At(memory', Value(f), Caller) /\ memory'[Value(f)].holds = rows
      /\ \A s \in ReadyScans : Undisturbed(s, memory, memory')
      /\ \A g \in Functions : g # f => Survives(Value(g), memory, memory')
  BY <1>1, <1>2, ValueStored
<1>4. Read(Value(f))' = rows
  BY <1>3, LocalChunks DEF Read, At
<1>5. Promised!Answer(f, rows) = rows
  BY <1>1 DEF Promised!Answer
<1> QED
  BY <1>1, <1>2, <1>3, <1>4, <1>5, Replies

LEMMA ReturnConvertedStep ==
  ASSUME IInv, NEW f \in Functions, f = call, NEW rows, rows = result, ReturnConverted
  PROVE  IInv' /\ Promised!Reply(f, rows)
<1>1. /\ pc = "Run" /\ f \notin Multi /\ Kind[f] = "json" /\ rows # <<>>
      /\ UNCHANGED <<context, open, cached>>
  BY DEF ReturnConverted, Multi, IInv, Control, Filling
<1> DEFINE m == Stored(memory, context, Value(f), Head(rows))
<1>2. Return(Value(f)) /\ memory' = Without(m, {TypeName(f)})
  BY DEF ReturnConverted
<1>3. /\ InContexts(m)
      /\ At(m, Value(f), Caller) /\ m[Value(f)].holds = Head(rows)
      /\ \A s \in ReadyScans : Undisturbed(s, memory, m)
      /\ \A g \in Functions : g # f => Survives(Value(g), memory, m)
  BY <1>1, ValueStored
<1> HIDE DEF m
<1>4. /\ \A c : c # TypeName(f) => Survives(c, m, memory')
      /\ \A c \in DOMAIN memory' : c \in DOMAIN m /\ memory'[c] = m[c]
  BY <1>2, FreedChunks
<1>5. \A s : Undisturbed(s, m, memory')
  BY <1>4, LocalChunks DEF Undisturbed
<1>6. \A s \in ReadyScans : Undisturbed(s, memory, memory')
  <2> SUFFICES ASSUME NEW s \in ReadyScans
               PROVE  Undisturbed(s, memory, memory')
    OBVIOUS
  <2>1. ScanIn(memory, s)
    BY DEF IInv, ScansInv
  <2>2. /\ Undisturbed(s, memory, m) /\ Undisturbed(s, m, memory')
        /\ m[Array(s)] = memory[Array(s)]
    BY <1>3, <1>5, <2>1, ScanKept
  <2> QED
    BY <2>2 DEF Undisturbed, Survives
<1>7. \A g \in Functions : g # f => Survives(Value(g), memory, memory')
  BY <1>3, <1>4, LocalChunks DEF Survives
<1>8. /\ InContexts(memory')
      /\ At(memory', Value(f), Caller) /\ memory'[Value(f)].holds = Head(rows)
  BY <1>3, <1>4, LocalChunks DEF InContexts, At, Survives
<1>9. Read(Value(f))' = Head(rows)
  BY <1>8, LocalChunks DEF Read, At
<1>10. Promised!Answer(f, rows) = Head(rows)
  BY <1>1 DEF Promised!Answer
<1> QED
  BY <1>1, <1>2, <1>6, <1>7, <1>8, <1>9, <1>10, Replies

\* The rows that a scan has been filled with are those that its query selects.
LEMMA FilledStep ==
  ASSUME IInv, NEW s \in Functions, s = call, NEW rows, rows = result, Filled
  PROVE  IInv' /\ Promised!Open(s, rows)
<1> USE DEF Filled
<1>1. /\ s \in Multi /\ s \in open /\ rows \in Results
      /\ Filling /\ ~Filling' /\ ReadyScans' = ReadyScans \cup {s} /\ s \notin ReadyScans
  BY DEF IInv, TypeOK, Control, Filling, ReadyScans
<1>2. \A g \in Functions :
        /\ \A c \in tuple'[g] : Given(g, c)'
        /\ {Read(c) : c \in tuple[g]}' = {Read(c) : c \in tuple[g]}
        /\ g \in ReadyScans => ScanIn(memory', g) /\ Undelivered(g)' = Undelivered(g)
  BY <1>1, MemoryUnchanged, Untouched
<1>3. TypeOK'
  <2>1. result' \in Results
    BY SqlAssumption DEF Results
  <2> QED
    BY <2>1 DEF IInv, TypeOK
<1>4. Control' /\ CopiedInv' /\ PushInv'
  BY <1>1 DEF IInv, Control, CopiedInv, PushInv, CallContext, Filling
<1>5. ScanIn(memory', s)
  BY DEF IInv, PushInv
<1>6. ScansInv' /\ TupleInv'
  BY <1>1, <1>2, <1>5, ScansAreFunctions DEF ScansInv, TupleInv
<1>7. Undelivered(s)' = rows
  <2>1. /\ Read(StateOf(s)) = 0 /\ Read(Array(s)) = Len(rows)
        /\ rows \in Seq(Rows) /\ Len(rows) \in Nat
    BY <1>1, LocalChunks, ResultsAreSequences DEF IInv, PushInv, ScanIn, At, Read, Pushed
  <2>2. \A i \in 1 .. Len(rows) : Read(Row(s, i)) = rows[i]
    BY <2>1, LocalChunks DEF IInv, PushInv, ScanIn, At, Read
  <2>3. Undelivered(s) = [i \in 1 .. Len(rows) |-> rows[i]]
    BY <2>1, <2>2 DEF Undelivered
  <2>4. Undelivered(s)' = Undelivered(s)
    BY DEF Undelivered, Read
  <2> QED
    BY <2>1, <2>3, <2>4
<1>8. Promised!Open(s, rows)
  <2>1. \A r \in Multi : (IF r \in ReadyScans THEN {Undelivered(r)} ELSE {})'
                         = IF r = s THEN {rows}
                           ELSE IF r \in ReadyScans THEN {Undelivered(r)} ELSE {}
    BY <1>1, <1>2, <1>7, ScansAreFunctions
  <2> QED
    BY <1>1, <1>2, <2>1 DEF Promised!Open
<1> QED
  BY <1>3, <1>4, <1>6, <1>8 DEF IInv

\* What a scan has left is a sequence, and its first row is next.
LEMMA NextRow ==
  ASSUME IInv, NEW s \in ReadyScans
  PROVE  LET index == memory[StateOf(s)].holds
             size == memory[Array(s)].holds IN
         /\ Read(StateOf(s)) = index /\ Read(Array(s)) = size
         /\ size \in Nat /\ index \in 0 .. size
         /\ Undelivered(s) \in Seq(Rows)
         /\ Len(Undelivered(s)) = size - index
         /\ \A i \in 1 .. size - index : Undelivered(s)[i] = memory[Row(s, index + i)].holds
<1> DEFINE index == memory[StateOf(s)].holds
           size == memory[Array(s)].holds
<1>1. ScanIn(memory, s)
  BY DEF IInv, ScansInv
<1>2. Read(StateOf(s)) = index /\ Read(Array(s)) = size /\ size \in Nat /\ index \in 0 .. size
  BY <1>1, LocalChunks DEF ScanIn, At, Read
<1>3. \A i \in 1 .. size : Read(Row(s, i)) = memory[Row(s, i)].holds /\ memory[Row(s, i)].holds \in Rows
  BY <1>1, LocalChunks DEF ScanIn, At, Read
<1> HIDE DEF index, size
<1>4. \A i \in 1 .. size - index : index + i \in 1 .. size
  BY <1>2
<1>5. Undelivered(s) = [i \in 1 .. size - index |-> memory[Row(s, index + i)].holds]
  BY <1>2, <1>3, <1>4 DEF Undelivered
<1>6. size - index \in Nat
  BY <1>2
<1>7. \A i \in 1 .. size - index : memory[Row(s, index + i)].holds \in Rows
  BY <1>3, <1>4
<1>8. Undelivered(s) \in Seq(Rows) /\ Len(Undelivered(s)) = size - index
  BY <1>5, <1>6, <1>7
<1> QED
  BY <1>2, <1>5, <1>8 DEF index, size

\* What is behind the first row.
LEMMA TailOfRows ==
  ASSUME NEW rows \in Seq(Rows), rows # <<>>
  PROVE  Tail(rows) = [i \in 1 .. Len(rows) - 1 |-> rows[i + 1]]
<1>1. /\ Tail(rows) \in Seq(Rows) /\ Len(Tail(rows)) = Len(rows) - 1
      /\ \A i \in 1 .. Len(Tail(rows)) : Tail(rows)[i] = rows[i + 1]
  BY HeadTailProperties
<1>2. Tail(rows) \in [1 .. Len(Tail(rows)) -> Rows]
  BY <1>1, LenProperties
<1> QED
  BY <1>1, <1>2

LEMMA BehindIndex ==
  ASSUME NEW size \in Nat, NEW index \in Nat, index < size,
         NEW i \in 1 .. size - (index + 1)
  PROVE  /\ (index + 1) + i \in 1 .. size
         /\ i + 1 \in 1 .. size - index
         /\ index + (i + 1) = (index + 1) + i
  OBVIOUS

\* A scan hands out its next row and goes on to the one behind it.
LEMMA NextRowStep ==
  ASSUME IInv, NEW s \in Functions, s = call, pc = "PerCall",
         NEW rows, rows = Undelivered(s),
         NEW index, index = Read(StateOf(s)), index < Read(Array(s)),
         Return(Row(s, index + 1)),
         memory' = Stored(memory, memory[StateOf(s)].ctx, StateOf(s), index + 1),
         UNCHANGED <<open, context, cached>>
  PROVE  IInv' /\ Promised!Fetch(s, rows)
<1>1. /\ s \in Multi /\ s \in ReadyScans /\ tuple[s] = {} /\ DOMAIN tuple = Functions
      /\ ReadyScans' = ReadyScans /\ ~Filling /\ ~Filling'
      /\ tuple' = [tuple EXCEPT ![s] = {Row(s, index + 1)}]
  BY DEF IInv, TypeOK, Control, Filling, ReadyScans, Return
<1> DEFINE size == memory[Array(s)].holds
<1>2. /\ index = memory[StateOf(s)].holds /\ size \in Nat /\ index \in 0 .. size /\ index < size
      /\ rows \in Seq(Rows) /\ Len(rows) = size - index
      /\ \A i \in 1 .. size - index : rows[i] = memory[Row(s, index + i)].holds
  <2>1. /\ Read(StateOf(s)) = memory[StateOf(s)].holds /\ Read(Array(s)) = size
        /\ size \in Nat /\ memory[StateOf(s)].holds \in 0 .. size
        /\ Undelivered(s) \in Seq(Rows)
        /\ Len(Undelivered(s)) = size - memory[StateOf(s)].holds
        /\ \A i \in 1 .. size - memory[StateOf(s)].holds :
             Undelivered(s)[i] = memory[Row(s, memory[StateOf(s)].holds + i)].holds
    BY <1>1, NextRow
  <2> HIDE DEF size
  <2> QED
    BY <2>1
<1>3. ScanIn(memory, s) /\ memory[StateOf(s)].ctx = s
  BY <1>1 DEF IInv, ScansInv, ScanIn, At
<1>4. /\ At(memory', StateOf(s), s) /\ memory'[StateOf(s)].holds = index + 1
      /\ \A c : c # StateOf(s) => Survives(c, memory, memory')
  BY <1>3, StoredChunk
<1>5. /\ At(memory', Array(s), s) /\ memory'[Array(s)].holds = size
      /\ \A i \in 1 .. size : At(memory', Row(s, i), s) /\ memory'[Row(s, i)] = memory[Row(s, i)]
  BY <1>3, <1>4, ChunksDiffer DEF ScanIn, At, Survives
<1> HIDE DEF size
<1>6. ScanIn(memory', s)
  <2>1. memory'[StateOf(s)].holds \in 0 .. memory'[Array(s)].holds
    BY <1>2, <1>4, <1>5
  <2>2. \A i \in 1 .. size : memory'[Row(s, i)].holds \in Rows
    BY <1>3, <1>5 DEF ScanIn, size
  <2> QED
    BY <1>2, <1>4, <1>5, <2>1, <2>2 DEF ScanIn
<1>7. \A g \in Functions : g # s =>
        /\ \A c \in tuple'[g] : Given(g, c)'
        /\ {Read(c) : c \in tuple[g]}' = {Read(c) : c \in tuple[g]}
        /\ g \in ReadyScans => ScanIn(memory', g) /\ Undelivered(g)' = Undelivered(g)
  <2>1. \A g \in Functions : g # s => Undisturbed(g, memory, memory')
    BY <1>4, ChunksDiffer DEF Undisturbed
  <2>2. \A g : Survives(Value(g), memory, memory')
    BY <1>4, ChunksDiffer
  <2> QED
    BY <1>1, <2>1, <2>2, Untouched
<1>8. TypeOK'
  <2>1. result' \in Results
    BY SqlAssumption DEF Results, Return, Forgotten
  <2>2. s \in Contexts
    BY DEF Contexts
  <2>3. InContexts(memory')
    BY <1>3, <2>2, StoredInContexts DEF IInv, TypeOK, InContexts
  <2> QED
    BY <1>1, <2>1, <2>3, SqlAssumption DEF IInv, TypeOK, InContexts, Contexts, Return, Forgotten
<1>9. Control' /\ CopiedInv' /\ PushInv'
  BY <1>1 DEF IInv, Control, CopiedInv, PushInv, CallContext, Filling, Return, Forgotten
<1>10. index + 1 \in 1 .. size
  BY <1>2
<1>11. ScansInv' /\ TupleInv'
  <2>1. tuple'[s] = {Row(s, index + 1)} /\ Given(s, Row(s, index + 1))'
    BY <1>1, <1>5, <1>10 DEF Given
  <2> QED
    BY <1>1, <1>6, <1>7, <2>1, ScansAreFunctions DEF ScansInv, TupleInv
<1>12. Undelivered(s)' = Tail(rows)
  <2>1. Read(StateOf(s))' = index + 1 /\ Read(Array(s))' = size
    BY <1>4, <1>5, LocalChunks DEF Read, At
  <2>2. \A i \in 1 .. size - (index + 1) :
          /\ (index + 1) + i \in 1 .. size
          /\ i + 1 \in 1 .. size - index
          /\ index + (i + 1) = (index + 1) + i
    <3>1. size \in Nat /\ index \in Nat /\ index < size
      BY <1>2
    <3> HIDE <1>2
    <3> QED
      BY <3>1, BehindIndex
  <2>3. \A i \in 1 .. size - (index + 1) : Read(Row(s, (index + 1) + i))' = rows[i + 1]
    <3>1. \A i \in 1 .. size - (index + 1) :
            rows[i + 1] = memory[Row(s, (index + 1) + i)].holds
      BY <1>2, <2>2
    <3>2. \A i \in 1 .. size : Read(Row(s, i))' = memory[Row(s, i)].holds
      BY <1>5, LocalChunks DEF Read, At
    <3> QED
      BY <2>2, <3>1, <3>2
  <2>4. Undelivered(s)' = [i \in 1 .. size - (index + 1) |-> rows[i + 1]]
    BY <2>1, <2>3 DEF Undelivered
  <2>5. Tail(rows) = [i \in 1 .. Len(rows) - 1 |-> rows[i + 1]]
    <3>1. Len(rows) # 0 /\ Len(<<>>) = 0
      BY <1>2
    <3>2. rows \in Seq(Rows) /\ rows # <<>>
      BY <1>2, <3>1
    <3> QED
      BY <3>2, TailOfRows
  <2>6. Len(rows) - 1 = size - (index + 1)
    BY <1>2
  <2> QED
    BY <2>4, <2>5, <2>6
<1>13. {Read(c) : c \in tuple[s]}' = {Head(rows)} /\ rows # <<>>
  <2>1. Read(Row(s, index + 1))' = memory[Row(s, index + 1)].holds
    BY <1>5, <1>10, LocalChunks DEF Read, At
  <2>2. Head(rows) = memory[Row(s, index + 1)].holds /\ rows # <<>>
    BY <1>2
  <2> QED
    BY <1>1, <2>1, <2>2
<1>14. Promised!Fetch(s, rows)
  <2>1. \A r \in Multi : (IF r \in ReadyScans THEN {Undelivered(r)} ELSE {})'
                         = IF r = s THEN {Tail(rows)}
                           ELSE IF r \in ReadyScans THEN {Undelivered(r)} ELSE {}
    BY <1>1, <1>7, <1>12, ScansAreFunctions
  <2> QED
    BY <1>1, <1>7, <1>13, <2>1 DEF Promised!Fetch
<1> QED
  BY <1>8, <1>9, <1>11, <1>14 DEF IInv

\* The end of a scan takes its memory with it, and nobody else's.
LEMMA LastRowStep ==
  ASSUME IInv, NEW s \in Functions, s = call, pc = "PerCall",
         NEW rows, rows = Undelivered(s),
         ~(Read(StateOf(s)) < Read(Array(s))),
         Return(Nothing), memory' = WithoutContext(memory, s), open' = open \ {s},
         UNCHANGED <<context, cached>>
  PROVE  IInv' /\ Promised!Fetch(s, rows)
<1> USE DEF Return, Forgotten
<1>1. /\ s \in Multi /\ s \in ReadyScans /\ tuple[s] = {} /\ DOMAIN tuple = Functions
      /\ ReadyScans' = ReadyScans \ {s} /\ ~Filling /\ ~Filling'
      /\ tuple' = [tuple EXCEPT ![s] = {Nothing}]
  BY DEF IInv, TypeOK, Control, Filling, ReadyScans
<1>2. rows = <<>>
  BY <1>1, NextRow
<1>3. \A g \in Functions : g # s =>
        /\ \A c \in tuple'[g] : Given(g, c)'
        /\ {Read(c) : c \in tuple[g]}' = {Read(c) : c \in tuple[g]}
        /\ g \in ReadyScans => ScanIn(memory', g) /\ Undelivered(g)' = Undelivered(g)
  <2>1. \A g \in ReadyScans : g # s => Undisturbed(g, memory, memory')
    BY ScanOutlastsContext DEF IInv, ScansInv
  <2>2. \A g : At(memory, Value(g), Caller) => Survives(Value(g), memory, memory')
    BY <1>1, ScansAreFunctions, ContextGone DEF At, Survives
  <2> QED
    BY <1>1, <2>1, <2>2, Untouched
<1>4. TypeOK'
  <2>1. result' \in Results
    BY SqlAssumption DEF Results
  <2> QED
    BY <1>1, <2>1, ContextGone, SqlAssumption DEF IInv, TypeOK, Contexts
<1>5. Control' /\ CopiedInv' /\ PushInv'
  BY <1>1 DEF IInv, Control, CopiedInv, PushInv, CallContext, Filling
<1>6. ScansInv' /\ TupleInv'
  BY <1>1, <1>3, ScansAreFunctions DEF ScansInv, TupleInv, Given
<1>7. Promised!Fetch(s, rows)
  <2>1. \A r \in Multi : (IF r \in ReadyScans THEN {Undelivered(r)} ELSE {})'
                         = IF r = s THEN {} ELSE IF r \in ReadyScans THEN {Undelivered(r)} ELSE {}
    BY <1>1, <1>3, ScansAreFunctions
  <2>2. {Read(c) : c \in tuple[s]}' = {Null}
    BY <1>1 DEF Read
  <2> QED
    BY <1>1, <1>2, <1>3, <2>1, <2>2 DEF Promised!Fetch
<1> QED
  BY <1>4, <1>5, <1>6, <1>7 DEF IInv

LEMMA PerCallStep ==
  ASSUME IInv, NEW s \in Functions, s = call, NEW rows, rows = Undelivered(s), PerCall
  PROVE  IInv' /\ Promised!Fetch(s, rows)
<1> DEFINE index == Read(StateOf(s))
<1>1. CASE index < Read(Array(s))
  <2>1. /\ Return(Row(s, index + 1))
        /\ memory' = Stored(memory, memory[StateOf(s)].ctx, StateOf(s), index + 1)
        /\ UNCHANGED <<open, context, cached>> /\ pc = "PerCall"
    BY <1>1 DEF PerCall
  <2> QED
    BY <1>1, <2>1, NextRowStep
<1>2. CASE ~(index < Read(Array(s)))
  <2>1. /\ Return(Nothing) /\ memory' = WithoutContext(memory, s) /\ open' = open \ {s}
        /\ UNCHANGED <<context, cached>> /\ pc = "PerCall"
    BY <1>2 DEF PerCall
  <2> QED
    BY <1>2, <2>1, LastRowStep
<1> QED
  BY <1>1, <1>2

-----------------------------------------------------------------------------
(* All steps *)

LEMMA InitOK ==
  ASSUME Init
  PROVE  IInv /\ Promised!Init
<1> USE DEF Init
<1>1. ~Filling /\ ReadyScans = {}
  BY DEF Filling, ReadyScans
<1>2. TypeOK
  <2>1. result \in Results
    BY SqlAssumption DEF Results
  <2>2. cached \in BOOLEAN
    OBVIOUS
  <2> HIDE DEF Init
  <2>3. pc = "Executor" /\ call = Null /\ copied = 0 /\ memory = NoMemory /\ open = {}
    BY DEF Init
  <2>4. context = Caller /\ old_context = Caller /\ outer_mctx = Caller /\ DOMAIN tuple = Functions
    BY DEF Init
  <2> QED
    BY <2>1, <2>2, <2>3, <2>4, SqlAssumption DEF TypeOK, NoMemory, Contexts
<1>3. Control /\ CopiedInv /\ PushInv
  BY <1>1 DEF Control, CopiedInv, PushInv
<1>4. ScansInv /\ TupleInv
  BY <1>1 DEF ScansInv, TupleInv
<1>5. Promised!Init
  BY <1>1 DEF Promised!Init, Promised!NothingOpen, Promised!NoTuple, Promised!Multi, Multi
<1> QED
  BY <1>2, <1>3, <1>4, <1>5 DEF IInv

LEMMA CallStepOK ==
  ASSUME IInv, CallStep
  PROVE  IInv' /\ (Promised!Next \/ UNCHANGED Promised!vars)
<1>1. pc # "Executor"
  BY DEF CallStep, CopyTypeName, CacheHit, Select, SwitchToOuter, ReadRow, SpiFinish, Parse,
         ReturnFirstRow, ReturnArray, ReturnConverted, NewState, Push, Filled, PerCall
<1>2. call \in Functions /\ result \in Results
  BY <1>1 DEF IInv, TypeOK
<1>3. PICK f \in Functions : f = call
  BY <1>2
<1>4. PICK rows \in Results : rows = result
  BY <1>2
<1>5. CASE ReturnFirstRow \/ ReturnArray \/ ReturnConverted
  BY <1>3, <1>4, <1>5, ReturnFirstRowStep, ReturnArrayStep, ReturnConvertedStep DEF Promised!Next
<1>6. CASE Filled
  <2>1. f \in Promised!Multi
    BY <1>3, <1>6 DEF IInv, Control, Filled, Multi, Promised!Multi
  <2> QED
    BY <1>3, <1>4, <1>6, <2>1, FilledStep DEF Promised!Next
<1>7. CASE PerCall
  <2>1. PICK left : left = Undelivered(f)
    OBVIOUS
  <2>2. IInv' /\ Promised!Fetch(f, left)
    BY <1>3, <1>7, <2>1, PerCallStep
  <2>3. f \in Promised!Multi /\ f \in Multi /\ f \in ReadyScans
    BY <1>3, <1>7 DEF IInv, Control, PerCall, Multi, Promised!Multi, ReadyScans, Filling
  <2>4. [s \in Multi |-> IF s \in ReadyScans THEN {Undelivered(s)} ELSE {}][f] = {left}
    BY <2>1, <2>3
  <2> QED
    BY <2>2, <2>3, <2>4 DEF Promised!Next
<1>8. CASE \/ CopyTypeName \/ CacheHit \/ Select \/ SwitchToOuter \/ ReadRow \/ SpiFinish \/ Parse
           \/ NewState \/ Push
  BY <1>8, CopyTypeNameStep, CacheHitStep, SelectStep, SwitchToOuterStep, ReadRowStep,
     SpiFinishStep, ParseStep, NewStateStep, PushStep
<1> QED
  BY <1>5, <1>6, <1>7, <1>8 DEF CallStep

LEMMA StepOK ==
  ASSUME IInv, [Next]_vars
  PROVE  IInv' /\ [Promised!Next]_(Promised!vars)
<1>1. ASSUME NEW f \in Functions, PlainCall(f) \/ FirstCall(f) \/ LaterCall(f)
      PROVE  IInv' /\ (Promised!Next \/ UNCHANGED Promised!vars)
  BY <1>1, PlainCallStep, FirstCallStep, LaterCallStep DEF Promised!Next
<1>2. CASE CallStep
  BY <1>2, CallStepOK
<1>3. CASE Error \/ Terminate \/ TransactionEnds
  <2>1. StatementEnds /\ cached' \in BOOLEAN
    BY <1>3 DEF Error, Terminate, TransactionEnds, IInv, TypeOK
  <2> QED
    BY <2>1, StatementEndsStep DEF Promised!Next
<1>4. CASE NextTuple
  BY <1>4, NextTupleStep DEF Promised!Next
<1>5. ASSUME NEW s \in open, Shutdown(s)
      PROVE  IInv' /\ Promised!Next
  <2>1. s \in Promised!Multi
    BY ScansAreFunctions DEF Multi, Promised!Multi
  <2> QED
    BY <1>5, <2>1, ShutdownStep DEF Promised!Next
<1>6. CASE UNCHANGED vars
  <2> USE <1>6 DEF vars, locals
  <2>1. IInv'
    BY DEF IInv, TypeOK, Control, CopiedInv, ScansInv, PushInv, TupleInv, CallContext,
           Filling, ReadyScans, Given
  <2>2. UNCHANGED Promised!vars
    BY DEF Promised!vars, Filling, ReadyScans, Undelivered, Read
  <2> QED
    BY <2>1, <2>2
<1> QED
  BY <1>1, <1>2, <1>3, <1>4, <1>5, <1>6 DEF Next

-----------------------------------------------------------------------------
(* Theorems *)

LEMMA IInvHolds == Spec => []IInv
<1>1. Init => IInv
  BY InitOK
<1>2. IInv /\ [Next]_vars => IInv'
  BY StepOK
<1> QED
  BY <1>1, <1>2, PTL DEF Spec

\* Every variable stays in its type, and every chunk in a context there is.
THEOREM TypeCorrect == Spec => []TypeOK
<1>1. IInv => TypeOK
  BY DEF IInv
<1> QED
  BY <1>1, IInvHolds, PTL

\* Whatever the number of rows of the table and the context of the call,
\* GetOrCreateCached parses rows that SPI_finish has not freed.
THEOREM RowsThere == Spec => []RowsOutlastSpi
<1>1. IInv => RowsOutlastSpi
  BY DEF IInv, CopiedInv, RowsOutlastSpi, At
<1> QED
  BY <1>1, IInvHolds, PTL

\* No call returns in another memory context than it was called in, whether it
\* reads the descriptor sets through SPI, begins a scan or ends in an error.
THEOREM ContextGivenBack == Spec => []ContextRestored
<1>1. IInv => ContextRestored
  BY DEF IInv, Control, ContextRestored
<1> QED
  BY <1>1, IInvHolds, PTL

\* However many scans with protobuf_query_multi there are, each has its state and
\* rows in its own context, so that no reset of another context takes them.
THEOREM ScansKept == Spec => []ScansOwnTheirMemory
<1>1. ASSUME IInv, NEW s \in ReadyScans
      PROVE  LET kept == {StateOf(s), Array(s)} \cup {Row(s, i) : i \in 1 .. Read(Array(s))} IN
             \A c \in kept : c \in DOMAIN memory /\ memory[c].ctx = s
  <2>1. ScanIn(memory, s) /\ Read(Array(s)) = memory[Array(s)].holds
    BY <1>1, NextRow DEF IInv, ScansInv
  <2> QED
    BY <2>1 DEF ScanIn, At
<1>2. IInv => ScansOwnTheirMemory
  BY <1>1 DEF ScansOwnTheirMemory
<1> QED
  BY <1>2, IInvHolds, PTL

\* The SQL functions implement ResultSets: what the statement reads behind the
\* pointers it is given are the rows that its queries select, each once and in
\* order, for any calls, numbers of rows and interleaving of scans.
THEOREM ResultsHandedOut == Spec => HandsOutResults
<1>1. Init => Promised!Init
  BY InitOK
<1>2. IInv /\ [Next]_vars => [Promised!Next]_(Promised!vars)
  BY StepOK
<1> QED
  BY <1>1, <1>2, IInvHolds, PTL DEF Spec, HandsOutResults, Promised!Spec

=============================================================================
