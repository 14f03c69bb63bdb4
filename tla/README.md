# A model of postgres-protobuf

TLA+ specifications of the query engine, the query compiler, the schema cache and the SQL
functions of the PostgreSQL extension postgres-protobuf, checked with TLC; all safety properties
but one are also proved with TLAPS. Paths below are relative to the repository; line numbers are those of the commit
modelled.

## The system

| Component | State | Operations | Who calls it |
|---|---|---|---|
| Query traversal, `querying.cpp:40-920, 974-994` | `visitor_stack_` and `depth_` of each `ProtobufTraverser`, the fields of the visitors, position, limit and recursion budget of each `CodedInputStream`, `rows` of the emitter | `Run`, `ScanField`, `ScanMessage`, `ReadPacked`, the callbacks of the visitors | the SQL functions, once per column value |
| Query compiler, `querying.cpp:922-1338` | `query_start`, the loop over the path and `part_buf`, `desc_ptrs`, `visitors_` | `GetDescSet`, `GetDesc`, `CompileQuery`, `CompileQueryPart`, `ParseNumericMapKey` | constructor of `Query` |
| Descriptor cache, `descriptor_db.cpp` | `cached_`, the callback in a transaction's memory context | `GetOrCreateCached`, `ClearCache` | constructor of `Query`, JSON functions; PostgreSQL, when it deletes the context |
| SQL functions, `postgres_protobuf.cpp` | `MultiQueryState` across the calls of `protobuf_query_multi`; whatever has been allocated in a memory context | one per function | PostgreSQL's executor |
| Memory helpers, `postgres_utils.hpp` | the current memory context | `palloc0_or_throw_bad_alloc`, `pnew`, `PostgresAllocator` | everything that allocates |
| Row formatting, `querying.cpp:428-575`, `postgres_utils.cpp` | none | conversions to text | emitters |
| Public query interface, `querying.hpp` | the `QueryImpl` it owns | `Query`, `Run` | SQL functions |

A backend is one thread: there is no interleaving within a call. What is hard is elsewhere:

* The traverser calls visitors, and what they return makes it push other visitors, in four
  places (`BeginField`, `BeginMessage`, `ReadLengthDelimitedField`, and the second traverser
  that `MapFilter::EndField` starts). The visitors are a state machine each, reused for every
  element, and rely on the exact sequence of callbacks.
* Columns are bytes: sizes, tags and wire types need not agree with the schema.
* Schemas, columns and queries multiply; a test sees a few of each. The characters of a query
  that mean something may turn up in the names and keys it contains.
* A key of a map exists in four forms (text, parsed number, union of two integers, bytes on
  the wire), for twelve types.
* The cache lives in a process that goes through transactions, subtransactions, errors and
  rollbacks, while other sessions change the table it was read from.
* Memory is freed by the context it was allocated in, which is the one that happens to be
  current: the executor's between calls, SPI's while a table is read, a scan's own. A scan
  keeps pointers from call to call, while other calls are made.

What makes each component correct:

* traversal: selects exactly the values the query means, in order; rejects what it cannot
  read; never reads beyond a field; ends; leaves visitors as it found them;
* compiler: a text is understood as documented or rejected; the visitors fit the schema and
  one another; a numeric key selects its entries and no others;
* cache: not older than the transaction, never from a part of it that was rolled back;
* SQL functions: a statement gets the rows its queries select, once and in order; nothing is
  read after it was freed; a function leaves the memory context as it found it.

## Modules

| Module | Contents |
|---|---|
| `CodedStream` | External: reads of `CodedInputStream` and wire types of field types |
| `Traversal` | `ProtobufTraverser`, visitors, `QueryImpl::Run`; the safety properties, `StepsMoveOn` and `Termination` |
| `QuerySpec` | Abstract: a query emits its selection, row by row, or rejects the column |
| `ReferenceQuery` | What a query selects, by recursion on messages, and how messages are encoded. TLC only |
| `QueryCompiler` | `CompileQueryPart` and `CompileQuery` as operators on paths |
| `QueryCompilation` | `CompileQuery` as a state machine, one part per step; `Leads`, what visitors mean on a schema |
| `QueryText` | The text of a query: `GetDescSet`, `GetDesc`, the loop over characters, the split of a part; extends `QueryCompilation`, whose actions it calls. Also `GetProtobufInfoOrThrow`, and `Documents`: the form of a query that `README.md` describes |
| `VisitorChain` | What the compiler promises of the visitors of a query and the traverser assumes: `IsChain`, `IsUnlimited` |
| `MapKeys` | Numeric keys: `ParseNumericMapKey`, `FieldInfo::ValueEquals`, `PrimitiveEmitter` |
| `DescriptorCache` | `GetOrCreateCached` among the (sub)transactions of a backend |
| `ResultSets` | Abstract: calls are answered by the rows their queries select; scans hand them out one by one |
| `SqlFunctions` | The SQL functions, step by step, and the memory contexts of what they allocate |
| `MC*` | Instances: schemas, messages, paths, texts, keys, rows |
| `TraversalTypes`, `TraversalProofs`, `VisitorProofs` | Proofs about `Traversal`, each extending the one before |
| `QueryCompilationProofs`, `QueryTextProofs` | Proofs about `QueryText`, and thereby `QueryCompilation` and `QueryCompiler` |
| `MapKeysProofs`, `DescriptorCacheProofs`, `SqlFunctionsProofs` | Proofs about these modules |

`Traversal` runs the visitors that `QueryCompiler` compiles (`MCTraversal` composes the two with
`ReferenceQuery`); what the proofs about `Traversal` assume of them is what is proved of the
compiler, in the words of `VisitorChain`. `QueryText` drives `QueryCompilation`; `SqlFunctions` has the steps of
`GetOrCreateCached` again, with the memory that `DescriptorCache` leaves out, and takes the
rows a query selects as an input. `Init`s and inputs are what the program can be in.

### Traversal

A step is one call of the traverser into a visitor with the traverser's reaction to it, or
one read from the stream. `pc` is the next call; the loops of the C++ code that push and pop
visitors are loops of steps. `call` holds an activation record for each `Run`,
`ScanMessage`, `ReadPacked` and `ForwardBufferedValue` under way; the record keeps what the
caller needs again (`gotNew` is `got_new_visitor`). `sel`, `scope` and `entry` are the members
of the visitors, by position in the chain, whatever traverser uses them.

Abstractions:

* Bytes are bytes. Varints have at most two of them and fixed-width values `Width32` = 2 and
  `Width64` = 3, so that columns stay short; the code compares, copies and skips them only.
* A row is the value it is made from. Conversions that can fail do: an emitter for strings
  rejects primitives, and `Unconvertible` byte strings are no message.
* A varint field stands for all types of wire type 0 but enums and bools (a bool is a key of its
  own: `[true]`).
* `Frame` replaces the C++ stack; its depth is bounded by the recursion budget and the
  number of visitors.
* The buffered value of a map entry is a span of the column. It is a copy in the code.
* Uninitialized buffers of a `MapFilter` hold `garbage`, an input of the run.

`QuerySpec` says less of worse columns, by `damage`: `none` (all rows, never rejected),
`unreadable` (a field that is no message, or nested too deep: a prefix of the rows and a rejection,
or all rows), `cut` (a prefix of the rows of the whole column), `any` (rows are only added, and
the run ends once).

### Query compiler

`QueryText` reads a text, a sequence of character codes, as the code does: the descriptor
set in front of the first `:` if there are two, the message in front of the next, then one step
per character of the path. A part is split at the first `[` or `|` and compiled when its `.` or
the end of the text is met. `QueryCompilation` has a step for each part; its history variable
`places` says what the visitors compiled so far lead to on the schema. `QueryCompilation!Spec`
takes any parts from its constants and `TextSpec` takes them from the text, which is why
`InnerParts` and `LastParts` are empty in `MCQueryText.cfg`. The schema maps message types
to field descriptors; a descriptor set maps names to message types.

What stands between brackets is a number if `std::stol` or `ParseNum` takes all of it, which
they also do with blanks and a `+` or `-` in front (`[ +1]`, but not `[1 ]`); on a map with bool
keys only `true` and `false` are keys. `IsNumeral`, `NumeralValue` and `IsKey` say so. The number
of a field has neither blanks nor sign: what does not begin with a digit is taken for a name.

`MapKeys` scales 2^32 down to `Half` and keeps what depends on it: the union of `as_uint32`
and `as_uint64`, the casts, sign extension, ZigZag, varints and fixed widths.

### DescriptorCache

`levels` is the stack of the transaction and its subtransactions, each with its changes to
the table and the number of callbacks in its memory context. PostgreSQL's side (external):
a context is deleted on rollback, handed to the parent on release, deleted at the end.
`cached` is `{}` for the null pointer and `{table}` for schemas made from `table`.
`Read`, `Parse` and `Register` are the steps of `GetOrCreateCached`; each can fail
(`ReadFails`, malformed rows, `AllocFails`), which leaves the (sub)transaction failed until
it is rolled back. The read is one step here, as its snapshot is. `read` (the tables read under
a level) and `orphaned` (the callback could not be allocated once) are history variables.

### SqlFunctions

`memory` maps each chunk to the context it is in and what it holds; `context` is
`CurrentMemoryContext`. `Stored` is `palloc` in a context, `WithoutContext` a reset or deletion, and
`Read` of a chunk that is gone gives `Freed`. `pc` is the next step of the running call: the copied
type name of the JSON functions, `SPI_connect` and `SPI_execute`, the switch to `outer_mctx`, the rows
one by one, `SPI_finish`, the parse, then what each function returns. A scan is opened by
`FirstCall` (`SRF_IS_FIRSTCALL`), filled row by row, and hands out a row in `PerCall`.
`MapKeys`, `Traversal` and `QueryText` say what the rows are; here they are any.

External: the executor resets `Caller` before each tuple (`NextTuple`), may end a scan early
(`Shutdown`: a `LIMIT`, a rescan) and end the statement; an error drops all of the statement;
SPI has a context of its own, current after `SPI_execute` and deleted by `SPI_finish`.

## Runs

Runs that pass (wall time with two workers):

| Run | Instance | Properties | States, time |
|---|---|---|---|
| `query` | 211 messages of up to two fields of a schema with every sort of field, each with 30 paths, and eleven longer ones with 41; columns whose submessage is no message or is nested too deep; every proper prefix of six columns; the same columns with any one byte replaced by 0, 2, 8, 58 or 255 | `SelectsMatchingFields` (refines `QuerySpec`), `ReadsOwnBytes`, `StacksDisjoint`, `DepthCountsOpenFields`, `IdleVisitorsAreClean`, `RecursionIsBounded`, `StepsMoveOn`, `Termination`, `TypeOK` | 509,000; 2 min |
| `compile` | two message types that contain each other, maps, enums and packed fields, two descriptor sets; the documented queries of up to three parts, by number and by name; all texts of up to four tokens behind several prefixes, among them `M:3[` and `M:6[` with what may stand in a number or behind it | `UnderstandsQueries`, `RejectsOtherTexts`, `NamedAlikeForJson`, `CompilesChains`, `VisitorsFitSchema`, `EmitterKnowsItsType` | 573,000; 1 min |
| `values` | every key type, with columns of two keys, every numeral from one too few to one too many and some that are none, every content of an uninitialized union | `PrintsKeys`, `SelectsNoOtherKey`, `KeysFindTheirEntries` | 1.6 million; 1 min |
| `cache` | two good rows and a malformed one, three levels, failing reads and allocations | `CacheBounded`, `CacheIsLive`, `AtMostOneCallback`, `TypeOK` | 1.5 million; 1.5 min |
| `sql` | a statement with one call of each kind and a second scan; up to two rows per query and in the table | `HandsOutResults` (refines `ResultSets`), `RowsOutlastSpi`, `ContextRestored`, `ScansOwnTheirMemory`, `CallsEnd`, `TypeOK` | 772,000; 2.5 min |

Runs that end with a violation, each a disagreement of the code with its own documentation:

| Run | What happens |
|---|---|
| `packed_among_strings` | With a packed field wanted, every string of the message is read as packed; well-formed columns are rejected |
| `packed_in_two_chunks` | The end of a packed chunk counts as an element: `[2]` misses the third element of a field in two chunks |
| `map_entry_without_value` | An entry without value gives a row made from an unset buffer |
| `dotted_key` | A key with a `.` (or, without a descriptor set, a `:`) in it cannot be selected: the query is taken apart there |
| `int32_key` | A negative `int32` key does not select its entry; other 32-bit varint keys depend on memory that is not initialized |
| `enum_map` | The values of a map to an enum have no enum descriptor: an assertion fails |
| `out_of_memory` | With the callback's allocation failing, the cache outlives the transaction |

The passing instances leave out what these show (`Misread` of MCTraversal and MCQueryText,
`ComparedAsSet`, `WithoutEnumMap`, `orphaned`), and what else came up on the way:

* a path that goes on behind `|keys` is accepted; it is compiled against the entry, where
  `desc_ptrs->desc` is left (1196-1200), and applied to the key; a path that ends with `.` is
  accepted, as an empty last part is not compiled (1044). Neither has a documented meaning:
  `Accepted` leaves them out, and `RejectsOtherTexts` holds of everything else;
* a negative index is accepted and selects nothing; an index or field number that does not fit
  an `int` wraps around (1129, 1260);
* the first entry a `MapFilter` sees is not matched if it leaves out its key, the wanted one
  being the default: the buffer is uninitialized until the first `Reset` (830, 847);
* the limit on rows that `protobuf_query` gives is dropped by the constructor of `Emitter`
  (421-436). The rows are right all the same, as `protobuf_query` takes the first;
* `[*]` always means all entries, so that a key `*` cannot be selected.

**Bounds.** Messages of two fields bring every visitor together with every other sort of
field, wanted or not, before and after; the long ones are for indexes, and for the state that
visitors carry to a third occurrence. Paths have up to three parts (five in the deep one),
enough for each visitor behind each other. `RecursionLimit` is 4. In `compile`, the two
parts of a path are any two of all fields and filters, and three those of the fields that lead
somewhere; `MaxVisitors` is beyond what these compile to. Texts of four tokens behind
`M:`, `M:5` or `o:M:` put each special character before, between and behind each other; those
behind `M:3[` and `M:6[` do so with the digits, signs and blanks of an index and of a key.
`NumeralsAssumption` compares `IsNumeral` and `NumeralValue` with their definition, on all texts of up to five such
characters. `Half` = 4
gives integers of 2 and 4 bits: both halves of a 64-bit integer have a sign bit and others.
`MaxLevels` is 3: a level with a callback, one above and one below. Two scans with two rows
can each be filled, advanced, ended and begun again while the other is at every stage, and
two rows of the table tell the last one from the others. Rows that differ are needed to tell
tables and results apart.

**Fairness.** `Traversal` has WF on its next-state relation and `SqlFunctions` on the steps of a
call: a call runs on the backend's thread until it returns or throws, and nothing else is
scheduled within it. That is all that `Termination` and `CallsEnd` need. Nothing obliges a client
to send a statement or the executor to ask for another tuple, so there is no fairness for
those; `DescriptorCache`, `QueryText` and `MapKeys` have safety properties only.

**Deadlock** is checked in all runs; runs that have finished stutter explicitly (`Returned`,
`Compiled`, `Done`).

## Proofs

Every theorem is about any values of the constants. Assumed of them is only what the named
`ASSUME`s say, which TLC evaluates for each instance.

**TraversalProofs**, for every set of queries and columns, recursion limit and widths:
`TypeCorrect`, `VisitorsNotShared`, `DepthIsBalanced`, `NestedReadsStayWithin`.
Assumed are `InputsAssumption` (a query is a chain of visitors, `IsChain`; columns are bytes),
`RecursionLimitAssumption` and `WidthAssumption`.
None of the four is inductive alone. `IInv` (TraversalTypes) is their conjunction with
`Control`: a step that pops visitors must know that the field it ends was begun by a loop or
handed over (`gotNew`), and which activation that was. The stack of activations makes most
steps alike: `SameCall`, `BeginCall` and `EndCall` show once what is preserved when the stack
is left alone, grows or shrinks, from the relation `Called` between an activation and it called. There is one lemma per action. More theorems rest on `IInv`:

* `RecursionEnds`: the calls of a run nest no deeper than the recursion budgets allow and, where
  map values are forwarded, than there are visitors. `Nested` relates any two activations, not
  only neighbours, because a forwarded value has a budget of its own. `PackedAtStep` is
  needed as `ReadPacked` takes nothing from the budget: it must not lead to another call but one
  that forwards.
* `RunsKeepTheirRows`: `Traversal` implements what `QuerySpec` promises of any column, however
  damaged: rows are only added, and a run ends once. It is for visitors without a limit
  (`NoLimits`), which is all there are: the constructor of `Emitter` drops it (421-436).
* `RunsMoveOn`: every step of a run leaves a lower measure (`StepsMoveOn`). For one traverser that
  is a tuple of five numbers: the bytes not yet read; whether the value at hand is still on its way
  down the visitors, and then how many are ahead; otherwise the calls to return from, the fields
  to be ended, the visitors to be popped and the step with the last of them. But a
  forwarded map value is a second reading of bytes that have been read, so that no such tuple
  will do for a whole run. `Measure` has one for each visitor, that of the traverser that begins with
  it, and is compared from the first visitor on: a traverser that forwards
  a value takes a step itself, whatever those behind it then have to do. That
  the traversers that wait begin further in front than those they wait for is
  `WaitingInFront`, from `Nested`.
* `MeasuresAreWellFounded`: such measures do not fall for ever, however many visitors there are. By
  these two theorems no run takes steps for ever; what is left of `Termination` is that a
  run can always take one, which is about `ENABLED`.

That a compiled query is a chain, and without a limit, is `CompiledQueriesAreChains` below, so that
what is assumed of the one component is proved of the other.

**VisitorProofs**: `IdleVisitorsAreAsNew`. `FieldSelector` and `MapFilter` forget what they know
in `Popped()`; `AllMapEntries` has none, and relies on `BeginField` and `EndField` being called
in turns. `VInv` says how far its `scope_` can be from `Outermost`, given the fields that are open
and the depth at which it was pushed: when it is popped at that depth, it is back. A nested
traverser is dropped with its visitors, without `Popped()`; `VInv` says that what is
below a visitor pushed at depth 0 is a `DescendIntoSubmessage`, which has no state.

**QueryCompilationProofs**, for every schema: `CompiledQueriesFitSchema` (any
path), `QueriesFitSchema` (any text and descriptor sets) and, for schemas without maps to enums
(`NoEnumMaps`; the run `enum_map` shows why), `EmittersKnowTheirType`. Assumed is `SchemaAssumption`: types
that fields refer to exist, map entries have a key and a value, keys are neither messages nor
enums, and fields have a number. `CompiledPathsAreChains` and `CompiledQueriesAreChains` are for every
schema, whether or not the path keeps to what is documented: what is not rejected is a chain that
begins at the root message, that goes on behind each visitor with a kind that can follow it, and
that ends with its only emitter, which has no limit. `CompilationInv` says that as long as the path has kept to what is documented, the
visitors lead to the one place that `desc_ptrs` describes; it names that place and the last
visitors, on which the next part depends. `TextInv` adds that the loop over the characters
keeps it, whatever part each text stands for.

**QueryTextProofs**, for every schema, any names and texts of any length:

* `MessagesAreNamedAlike`: `GetProtobufInfoOrThrow`, which splits a name itself, finds the
  same message as `GetDescSet` and `GetDesc` do one after the other. `NameInv` keeps, between
  the two, where the first `:` was; that a part of a text has the `:` the text has there is
  what it takes.
* `TextImplementsParts`: reading character by character does nothing to what is compiled but
  name a root and compile parts: `QueryText` implements `QueryCompilation`. Its constants have to
  allow what is read: `AnyRoot` and `AnyPart` say that `RootTypes` holds all types with a name,
  and `InnerParts` and `LastParts` all that a text is parsed as.
* `QueriesAreUnderstood`: a query is compiled to what its path says. That a text and a path
  belong together is `Documents`, which is the form `README.md` gives of a query, written without
  the parser: a part stands between two dots, and is a name or a numeral with a filter behind
  it. The theorem's hypothesis is that each query's meaning is so documented; MCQueryText
  checks it of its queries (`MisreadAssumption`, which also says that the queries left out as
  `Misread` are exactly those whose text, with a `.` or `:` in a key, is not of that form).
  `FieldNameAssumption` is what the language of protobuf allows as a name. `Progress` is the
  inductive invariant: where each `:` and `.` is (`Read`), how much of the name or which parts
  are behind `position`, and that these are compiled (`UpTo`). `PartRead` says that `ParsePart`
  undoes `WritesPart`. `UpTo` is a fold, which the provers cannot expand: it is first
  shown to be a function on sets of positions (`FoldLeftFolds`), and induction on the number of
  parts is replaced by the least counterexample (`FoldsExist`, `FoldsAgree`). A part that is
  rejected ends the loop early; that the rest of the path changes nothing is `ThrownStays`.
* `AcceptedQueriesAreDocumented`, the converse: a text that is accepted has a path of which it is
  the documented form. The path is read off the text, part by part; what is to be shown is that
  each part compiled is one that `README.md` describes, which a numeral need not be: one that
  does not fit an `int` names the field it is congruent to (1129). `NumbersFit` excludes
  just that: it speaks of numerals in the texts that turn into the number of a field.
* `OtherTextsAreRejected` puts it in terms of what queries mean, if they mean all that is so documented
  (`ReadingsAreMeant`). MCQueryText checks both hypotheses (`NumbersFitAssumption`,
  `MeaningsAssumption`). Three sorts of text are left out: those that end with `.` or go on behind
  `|keys`, which the code accepts (`Accepted`), and those with a numeral that wraps around to the number of a
  field (`NumbersFit`). What is a number between brackets is up to `std::stol` in the theorem, too: `README.md`
  does not say how numbers are written, so `[ +1]` is a form of `[1]` and `[1 ]` is rejected.

**MapKeysProofs**, for words of any width, all key types, columns and selectors: `KeysArePrinted`,
`OtherKeysAreNotSelected`, `KeysAreFound`. Assumed are `HalfAssumption` (a word is even and
positive), `KeyTypesAssumption`, `ColumnsAssumption` and `TextsAssumption`. Numbers that differ by a
multiple of a word are `Same`, which is all that a cast, or the union with one half set, leaves
of a key; the keys of a type that are the `Same` are equal.

**DescriptorCacheProofs**: `TypeCorrect`, `OneCallback`, `CacheBound` and `CacheCurrent`, for any rows
and nesting. The invariant `Held` says that a cache with its callback has been read under the
level that holds the callback, or under one released into it, so that the deletion of a
context drops exactly what it should; it is void once the callback could not be allocated
(`orphaned`; the run `out_of_memory` shows why).

**SqlFunctionsProofs**, for any calls, kinds, rows and numbers of rows: `TypeCorrect`, `RowsThere`,
`ContextGivenBack`, `ScansKept`, and `ResultsHandedOut`, that `SqlFunctions` implements `ResultSets`. Assumed is
`SqlAssumption`: the contexts differ from one another. The invariant has five parts besides the types: `Control`
(which context is current at each step and which one the call has yet to go back to),
`CopiedInv` (the rows of the table are in the context of the call), `ScansInv` (all of a scan that
is ready is in its context), `PushInv` (a scan that is being filled has a prefix of its result) and
`TupleInv` (what the statement was given for this tuple is in the caller's context or a row of a
scan). A step that frees something leaves all chunks of other contexts alone (`ScanOutlastsContext`);
a step that the statement does not see leaves alone all it can read (`WithinCall`), and every
other one is a step of `ResultSets`.

Only model-checked:

* `SelectsMatchingFields`, beyond `RunsKeepTheirRows`: which rows a query selects is defined by
  recursion on messages, and what a recursive definition computes for every message is out of
  the provers' reach;
* `Termination` and `CallsEnd`, which are liveness properties under fairness. `RecursionEnds`,
  `RunsMoveOn` and `MeasuresAreWellFounded` are what can be proved of the former: no endless recursion and no
  endless loop. That a run does not stop before its end, without a result, is left to TLC.

## Not modelled

* The text of floating-point numbers, of bytes (a byte of 0x80 or more is printed with
  eight digits, 512) and of enum values (528), and JSON: conversions without state, of PostgreSQL or the
  protobuf library, or that a test of one value shows.
* Indexes and field numbers beyond the range of an `int`, and numerals that do not fit 64 bits,
  which the code rejects (1249-1253, 1280-1284) and `IsNumeral` takes; of keys, `MapKeys` has the ranges.
* C++ memory: what is not from a memory context, `longjmp` out of frames with destructors, the
  exception object that `ereport` in a `catch` block leaves behind. The run
  `sql` has errors at every step of a call, but not what the heap loses by them. `palloc` of more than 1 GB.
* Which error message an exception becomes: that the JSON functions report `BadProto` as an
  unknown exception does not change what they do.
* The content of descriptor sets, which the protobuf library checks, and fields of a map entry
  that are neither key nor value, except those that corrupted columns have.
* `_PG_fini`, which runs when the backend unloads the library; build files, packaging, and the generator of tests.
