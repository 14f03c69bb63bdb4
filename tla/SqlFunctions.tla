----------------------------- MODULE SqlFunctions -----------------------------
(***************************************************************************)
(* The functions of postgres_protobuf.cpp as a statement calls them, and   *)
(* where what they allocate lives: in the memory context that is current,  *)
(* until Postgres resets or deletes it.  DescDb::GetOrCreateCached reads   *)
(* the descriptor sets through SPI, which has a context of its own.        *)
(*                                                                         *)
(* A tuple of the statement calls each function at most once.  The context *)
(* of the calls, Caller, is reset before the next tuple; a scan with       *)
(* protobuf_query_multi has a context, named after it, that is not.        *)
(***************************************************************************)
EXTENDS Naturals, Sequences, FiniteSets

CONSTANTS
  Functions,     \* calls of SQL functions in the statement
  Kind,          \* which function each is: "query", "array", "json" or "multi"
  Rows,          \* values of a row
  MaxRows,       \* bound on the rows a query selects
  MaxTableRows,  \* bound on the rows of protobuf_file_descriptor_sets
  Caller,        \* the memory context that the functions are called in
  Proc,          \* the memory context of SPI
  Null,          \* the SQL null
  Freed          \* what is read from memory that has been freed

ASSUME SqlAssumption ==
  /\ Kind \in [Functions -> {"query", "array", "json", "multi"}]
  /\ Caller \notin Functions /\ Proc \notin Functions /\ Caller # Proc
  /\ MaxRows \in Nat /\ MaxTableRows \in Nat

Multi == {f \in Functions : Kind[f] = "multi"}

VARIABLES
  pc,           \* the step of the running call that is next, or "Executor"
  call,         \* the running call
  result,       \* the rows its query selects
  context,      \* CurrentMemoryContext
  old_context,  \* old_context of protobuf_query_multi
  outer_mctx,   \* outer_mctx of GetOrCreateCached
  copied,       \* how many rows of the table are in its rows
  memory,       \* chunk -> the context it is in and what it holds
  open,         \* scans that have a FuncCallContext
  cached,       \* whether cached_ is set
  tuple         \* function -> {}, or {the chunk it has returned for this tuple}

locals == <<call, result, old_context, outer_mctx, copied>>
vars == <<pc, locals, context, memory, open, cached, tuple>>

Results == UNION {[1 .. n -> Rows] : n \in 0 .. MaxRows}

-----------------------------------------------------------------------------
(* Chunks of memory *)

Chunk(what, of, at) == [what |-> what, of |-> of, at |-> at]

TypeName(f) == Chunk("type name", f, 0)    \* protobuf_type_str
TupTable == Chunk("tuptable", Proc, 0)     \* SPI_tuptable
Copied(i) == Chunk("copied", Proc, i)      \* a pstring pair of the rows of the table
Value(f) == Chunk("value", f, 0)           \* what a function returns
StateOf(s) == Chunk("state", s, 0)         \* the MultiQueryState of a scan
Array(s) == Chunk("array", s, 0)           \* the elements of its rows
Row(s, i) == Chunk("row", s, i)            \* a text* among them
Nothing == Chunk("nothing", Caller, 0)     \* returned for the SQL null

NoMemory == [c \in {} |-> [ctx |-> Caller, holds |-> Null]]

\* palloc in a context.
Stored(m, ctx, chunk, holds) ==
  [c \in DOMAIN m \cup {chunk} |-> IF c = chunk THEN [ctx |-> ctx, holds |-> holds] ELSE m[c]]

\* pfree.
Without(m, chunks) == [c \in DOMAIN m \ chunks |-> m[c]]

\* What a reset or deleted context takes with it.
WithoutContext(m, ctx) == Without(m, {c \in DOMAIN m : m[c].ctx = ctx})

Read(chunk) ==
  IF chunk = Nothing THEN Null ELSE IF chunk \in DOMAIN memory THEN memory[chunk].holds ELSE Freed

-----------------------------------------------------------------------------
Init ==
  /\ pc = "Executor"
  /\ call = Null /\ result = <<>> /\ old_context = Caller /\ outer_mctx = Caller /\ copied = 0
  /\ context = Caller
  /\ memory = NoMemory
  /\ open = {}
  /\ cached = FALSE
  /\ tuple = [f \in Functions |-> {}]

\* The locals of a call go out of scope.
Forgotten ==
  /\ call' = Null /\ result' = <<>> /\ old_context' = Caller /\ outer_mctx' = Caller /\ copied' = 0

\* The call returns a chunk.
Return(chunk) ==
  /\ pc' = "Executor"
  /\ tuple' = [tuple EXCEPT ![call] = {chunk}]
  /\ Forgotten

\* Nothing is left of the statement.
StatementEnds ==
  /\ pc' = "Executor"
  /\ Forgotten
  /\ context' = Caller
  /\ memory' = NoMemory
  /\ open' = {}
  /\ tuple' = [f \in Functions |-> {}]

-----------------------------------------------------------------------------
(* The executor *)

NextTuple ==
  /\ pc = "Executor"
  /\ memory' = WithoutContext(memory, Caller)
  /\ tuple' = [f \in Functions |-> {}]
  /\ UNCHANGED <<pc, locals, context, open, cached>>

\* A scan is shut down before its end: by a LIMIT, or to be started again.
Shutdown(s) ==
  /\ pc = "Executor"
  /\ s \in open /\ tuple[s] = {}
  /\ memory' = WithoutContext(memory, s)
  /\ open' = open \ {s}
  /\ UNCHANGED <<pc, locals, context, cached, tuple>>

TransactionEnds ==
  /\ pc = "Executor"
  /\ StatementEnds
  /\ cached' = FALSE

Calls(f) == pc = "Executor" /\ tuple[f] = {} /\ call' = f

-----------------------------------------------------------------------------
(* The functions up to the descriptors of the query *)

\* protobuf_query, protobuf_query_array and the JSON functions.
PlainCall(f) ==
  /\ Calls(f) /\ f \notin Multi
  /\ result' \in Results
  /\ Kind[f] = "json" => result' # <<>>
  /\ pc' = IF Kind[f] = "json" THEN "Name" ELSE "Descriptors"
  /\ UNCHANGED <<old_context, outer_mctx, copied, context, memory, open, cached, tuple>>

CopyTypeName ==
  /\ pc = "Name"
  /\ memory' = Stored(memory, context, TypeName(call), Null)
  /\ pc' = "Descriptors"
  /\ UNCHANGED <<locals, context, open, cached, tuple>>

\* Mutant: the memory context is not switched.
FirstCallInCaller(s) ==
  /\ Calls(s) /\ s \in Multi \ open
  /\ result' \in Results
  /\ open' = open \cup {s}
  /\ pc' = "Descriptors"
  /\ UNCHANGED <<old_context, outer_mctx, copied, context, memory, cached, tuple>>

\* protobuf_query_multi, SRF_IS_FIRSTCALL
FirstCall(s) ==
  /\ Calls(s) /\ s \in Multi \ open
  /\ result' \in Results
  /\ open' = open \cup {s}
  /\ old_context' = context
  /\ context' = s
  /\ pc' = "Descriptors"
  /\ UNCHANGED <<outer_mctx, copied, memory, cached, tuple>>

LaterCall(s) ==
  /\ Calls(s) /\ s \in open
  /\ pc' = "PerCall"
  /\ UNCHANGED <<result, old_context, outer_mctx, copied, context, memory, open, cached, tuple>>

-----------------------------------------------------------------------------
(* GetOrCreateCached *)

CacheHit ==
  /\ pc = "Descriptors" /\ cached
  /\ pc' = "Run"
  /\ UNCHANGED <<locals, context, memory, open, cached, tuple>>

\* SPI_connect and SPI_execute leave SPI's context current.
Select ==
  /\ pc = "Descriptors" /\ ~cached
  /\ outer_mctx' = context
  /\ context' = Proc
  /\ memory' = Stored(memory, Proc, TupTable, Null)
  /\ pc' = "Select"
  /\ UNCHANGED <<call, result, old_context, copied, open, cached, tuple>>

\* Mutant: the rows are read into SPI's context.
StaysInProc ==
  /\ pc = "Select"
  /\ pc' = "ReadRows"
  /\ UNCHANGED <<locals, context, memory, open, cached, tuple>>

SwitchToOuter ==
  /\ pc = "Select"
  /\ context' = outer_mctx
  /\ pc' = "ReadRows"
  /\ UNCHANGED <<locals, memory, open, cached, tuple>>

\* Mutant: a row is read past the last one.
ReadRowPastEnd ==
  /\ pc = "ReadRows" /\ copied <= MaxTableRows
  /\ copied' = copied + 1
  /\ memory' = Stored(memory, context, Copied(copied'), Read(TupTable))
  /\ UNCHANGED <<pc, call, result, old_context, outer_mctx, context, open, cached, tuple>>

ReadRow ==
  /\ pc = "ReadRows" /\ copied < MaxTableRows
  /\ copied' = copied + 1
  /\ memory' = Stored(memory, context, Copied(copied'), Read(TupTable))
  /\ UNCHANGED <<pc, call, result, old_context, outer_mctx, context, open, cached, tuple>>

\* SPI_finish deletes SPI's context and goes back to the one before SPI_connect.
SpiFinish ==
  /\ pc = "ReadRows"
  /\ memory' = WithoutContext(memory, Proc)
  /\ context' = outer_mctx
  /\ pc' = "Parse"
  /\ UNCHANGED <<locals, open, cached, tuple>>

\* The descriptor sets are made from the rows, and the rows freed.
Parse ==
  /\ pc = "Parse"
  /\ cached' = TRUE
  /\ memory' = Without(memory, {Copied(i) : i \in 1 .. copied})
  /\ copied' = 0
  /\ pc' = "Run"
  /\ UNCHANGED <<call, result, old_context, outer_mctx, context, open, tuple>>

-----------------------------------------------------------------------------
(* Behind them: the query has run, or JSON has been converted *)

\* protobuf_query: the first row, if there is one.
ReturnFirstRow ==
  /\ pc = "Run" /\ Kind[call] = "query"
  /\ IF result = <<>> THEN Return(Nothing) /\ UNCHANGED memory
     ELSE Return(Value(call)) /\ memory' = Stored(memory, context, Value(call), Head(result))
  /\ UNCHANGED <<context, open, cached>>

\* protobuf_query_array: construct_array copies the rows.
ReturnArray ==
  /\ pc = "Run" /\ Kind[call] = "array"
  /\ Return(Value(call))
  /\ memory' = Stored(memory, context, Value(call), result)
  /\ UNCHANGED <<context, open, cached>>

\* protobuf_to_json_text and protobuf_from_json_text
ReturnConverted ==
  /\ pc = "Run" /\ Kind[call] = "json"
  /\ Return(Value(call))
  /\ memory' = Without(Stored(memory, context, Value(call), Head(result)), {TypeName(call)})
  /\ UNCHANGED <<context, open, cached>>

\* protobuf_query_multi: pnew<MultiQueryState>
NewState ==
  /\ pc = "Run" /\ call \in Multi
  /\ memory' = Stored(Stored(memory, context, StateOf(call), 0), context, Array(call), 0)
  /\ pc' = "Push"
  /\ UNCHANGED <<locals, context, open, cached, tuple>>

Pushed == Read(Array(call))      \* state->rows.size()

\* Mutant: the rows are pushed to the front.
PushFront ==
  /\ pc = "Push" /\ Pushed < Len(result)
  /\ memory' = LET n == Pushed + 1 IN
       Stored(Stored(memory, context, Row(call, n), result[Len(result) - Pushed]), context, Array(call), n)
  /\ UNCHANGED <<pc, locals, context, open, cached, tuple>>

\* Mutant: the size of the array is not counted up.
PushUncounted ==
  /\ pc = "Push" /\ Pushed < Len(result)
  /\ memory' = Stored(memory, context, Row(call, Pushed + 1), result[Pushed + 1])
  /\ UNCHANGED <<pc, locals, context, open, cached, tuple>>

\* state->rows.push_back, with the array in the context that is current.
Push ==
  /\ pc = "Push" /\ Pushed < Len(result)
  /\ memory' = LET n == Pushed + 1 IN
       Stored(Stored(memory, context, Row(call, n), result[n]), context, Array(call), n)
  /\ UNCHANGED <<pc, locals, context, open, cached, tuple>>

\* Mutant: old_context is forgotten.
FilledInMulti ==
  /\ pc = "Push" /\ Pushed = Len(result)
  /\ result' = <<>>
  /\ pc' = "PerCall"
  /\ UNCHANGED <<context, call, old_context, outer_mctx, copied, memory, open, cached, tuple>>

Filled ==
  /\ pc = "Push" /\ Pushed = Len(result)
  /\ context' = old_context
  /\ result' = <<>>
  /\ pc' = "PerCall"
  /\ UNCHANGED <<call, old_context, outer_mctx, copied, memory, open, cached, tuple>>

\* SRF_RETURN_NEXT, or SRF_RETURN_DONE, which deletes the context of the scan.
PerCall ==
  /\ pc = "PerCall"
  /\ LET index == Read(StateOf(call)) IN
     IF index < Read(Array(call))
     THEN /\ Return(Row(call, index + 1))
          /\ memory' = Stored(memory, memory[StateOf(call)].ctx, StateOf(call), index + 1)
          /\ UNCHANGED open
     ELSE /\ Return(Nothing)
          /\ memory' = WithoutContext(memory, call)
          /\ open' = open \ {call}
  /\ UNCHANGED <<context, cached>>

-----------------------------------------------------------------------------
(* Errors *)

\* A Postgres error, or a C++ exception that the function turns into one, ends
\* the statement.  cached_ is cleared if the (sub)transaction that set it is
\* rolled back.
Error ==
  /\ pc \notin {"Executor", "PerCall"}
  /\ StatementEnds
  /\ cached' \in {cached, FALSE}

\* The JSON functions copy the name of the type outside their try block: without
\* memory for it, std::bad_alloc terminates the backend.
Terminate ==
  /\ pc = "Name"
  /\ StatementEnds
  /\ cached' = FALSE

CallStep ==
  \/ CopyTypeName
  \/ CacheHit \/ Select \/ SwitchToOuter \/ ReadRow \/ SpiFinish \/ Parse
  \/ ReturnFirstRow \/ ReturnArray \/ ReturnConverted
  \/ NewState \/ Push \/ Filled \/ PerCall

Next ==
  \/ \E f \in Functions : PlainCall(f) \/ FirstCall(f) \/ LaterCall(f)
  \/ CallStep \/ Error \/ Terminate
  \/ NextTuple \/ (\E s \in open : Shutdown(s)) \/ TransactionEnds

\* A call that runs is not interrupted for ever; which calls there are is up to
\* the statement.
Fairness == WF_vars(CallStep)

Spec == Init /\ [][Next]_vars /\ Fairness

-----------------------------------------------------------------------------
(* Properties *)

Filling == pc \notin {"Executor", "PerCall"}

ReadyScans == {s \in open : ~(Filling /\ call = s)}

Contexts == Functions \cup {Caller, Proc}

TypeOK ==
  /\ pc \in {"Executor", "Name", "Descriptors", "Select", "ReadRows", "Parse", "Run", "Push", "PerCall"}
  /\ call \in Functions \cup {Null}
  /\ pc # "Executor" => call \in Functions
  /\ result \in Results
  /\ {context, old_context, outer_mctx} \subseteq Contexts
  /\ copied \in 0 .. MaxTableRows
  /\ \A c \in DOMAIN memory : memory[c].ctx \in Contexts
  /\ open \subseteq Multi
  /\ cached \in BOOLEAN
  /\ DOMAIN tuple = Functions

\* descriptor_db.cpp: the rows of the table are allocated in the context of the
\* caller, which outlasts SPI_finish: all are there when they are parsed.
RowsOutlastSpi == pc = "Parse" => \A i \in 1 .. copied : Copied(i) \in DOMAIN memory

\* A function that returns has switched back to the context it was called in.
ContextRestored == pc = "Executor" => context = Caller

\* What a scan keeps from call to call, its state and its rows, is there, and in
\* the context that goes when the scan does: not earlier and not later.
ScansOwnTheirMemory ==
  \A s \in ReadyScans :
    LET kept == {StateOf(s), Array(s)} \cup {Row(s, i) : i \in 1 .. Read(Array(s))} IN
    \A c \in kept : c \in DOMAIN memory /\ memory[c].ctx = s

\* The rows that a scan has not handed out.
Undelivered(s) ==
  LET index == Read(StateOf(s)) IN
  [i \in 1 .. Read(Array(s)) - index |-> Read(Row(s, index + i))]

\* The statement gets the rows that its queries select, in order, from memory
\* that is still there when it looks at them.
Promised == INSTANCE ResultSets WITH
  asked <- IF Filling THEN {[f |-> call, rows |-> result]} ELSE {},
  remaining <- [s \in Multi |-> IF s \in ReadyScans THEN {Undelivered(s)} ELSE {}],
  tuple <- [f \in Functions |-> {Read(c) : c \in tuple[f]}]

HandsOutResults == Promised!Spec

\* A call that has begun comes to an end.
CallsEnd == pc # "Executor" ~> pc = "Executor"

=============================================================================
