--------------------------- MODULE DescriptorCache ---------------------------
(***************************************************************************)
(* DescDb::GetOrCreateCached of descriptor_db.cpp: a backend reads the     *)
(* table protobuf_file_descriptor_sets once and keeps the schemas in       *)
(* cached_ until a callback, registered in the memory context of the       *)
(* (sub)transaction that read them, clears it again.                       *)
(*                                                                         *)
(* The (sub)transactions of the backend are a stack; Postgres deletes the  *)
(* context of a subtransaction when it is rolled back, hands it to the     *)
(* parent when it is released, and deletes all at the end.  An error in a  *)
(* call leaves its (sub)transaction failed, to be rolled back.             *)
(***************************************************************************)
EXTENDS Naturals, Sequences, SequencesExt

CONSTANTS
  Rows,       \* possible rows of protobuf_file_descriptor_sets
  Malformed,  \* those that are no FileDescriptorSet
  MaxLevels   \* bound on nested subtransactions

ASSUME CacheAssumption ==
  /\ Malformed \subseteq Rows
  /\ MaxLevels \in Nat

VARIABLES
  committed,  \* the table as other sessions see it
  levels,     \* the open transaction and its subtransactions, innermost last
  failed,     \* whether the innermost one has had an error
  pc,         \* the step of GetOrCreateCached that is next
  rows,       \* the rows it has read
  cached,     \* cached_: {table} for schemas made from table, {} for null
  orphaned    \* (history) whether the callback could not be allocated once

vars == <<committed, levels, failed, pc, rows, cached, orphaned>>

\* Changes of a (sub)transaction to the table, the callbacks registered in its
\* memory context, and (history) the tables that its queries have read.
NewLevel == [inserted |-> {}, deleted |-> {}, callbacks |-> 0, read |-> {}]

\* A row is as the innermost of those that changed it left it.
Changing(row) == {i \in DOMAIN levels : row \in levels[i].inserted \cup levels[i].deleted}

Visible ==
  {row \in Rows : IF Changing(row) = {} THEN row \in committed
                  ELSE row \in levels[Max(Changing(row))].inserted}

Innermost == Len(levels)

Init ==
  /\ committed \in SUBSET Rows
  /\ levels = <<>>
  /\ failed = FALSE
  /\ pc = "Idle"
  /\ rows = {}
  /\ cached = {}
  /\ orphaned = FALSE

-----------------------------------------------------------------------------
(* Transactions *)

Between == pc = "Idle" /\ ~failed      \* between two statements

Begin ==
  /\ Between
  /\ levels = <<>>
  /\ levels' = <<NewLevel>>
  /\ UNCHANGED <<committed, failed, pc, rows, cached, orphaned>>

Savepoint ==
  /\ Between
  /\ levels # <<>> /\ Len(levels) < MaxLevels
  /\ levels' = Append(levels, NewLevel)
  /\ UNCHANGED <<committed, failed, pc, rows, cached, orphaned>>

Insert(row) ==
  /\ Between
  /\ levels # <<>> /\ row \notin Visible
  /\ levels' = [levels EXCEPT ![Innermost].inserted = @ \cup {row},
                              ![Innermost].deleted = @ \ {row}]
  /\ UNCHANGED <<committed, failed, pc, rows, cached, orphaned>>

Delete(row) ==
  /\ Between
  /\ levels # <<>> /\ row \in Visible
  /\ levels' = [levels EXCEPT ![Innermost].inserted = @ \ {row},
                              ![Innermost].deleted = @ \cup {row}]
  /\ UNCHANGED <<committed, failed, pc, rows, cached, orphaned>>

\* What the parent is left with: its child's changes on top of its own, and the
\* child's memory context, deleted together with its own from now on.
Absorb(parent, child) ==
  [inserted  |-> (parent.inserted \ child.deleted) \cup child.inserted,
   deleted   |-> (parent.deleted \ child.inserted) \cup child.deleted,
   callbacks |-> parent.callbacks + child.callbacks,
   read      |-> parent.read \cup child.read]

Release ==
  /\ Between
  /\ Len(levels) > 1
  /\ levels' = Append(SubSeq(levels, 1, Len(levels) - 2),
                      Absorb(levels[Len(levels) - 1], levels[Len(levels)]))
  /\ UNCHANGED <<committed, failed, pc, rows, cached, orphaned>>

\* ClearCacheCallback, for each of the callbacks of the deleted contexts.
ClearCache(deletedLevels) ==
  cached' = IF \E level \in deletedLevels : level.callbacks > 0 THEN {} ELSE cached

RollbackTo ==
  /\ pc = "Idle"
  /\ Len(levels) > 1
  /\ levels' = Front(levels)
  /\ ClearCache({Last(levels)})
  /\ failed' = FALSE
  /\ UNCHANGED <<committed, pc, rows, orphaned>>

Commit ==
  /\ Between
  /\ Len(levels) = 1
  /\ committed' = Visible
  /\ levels' = <<>>
  /\ ClearCache({levels[1]})
  /\ UNCHANGED <<failed, pc, rows, orphaned>>

\* Mutant: the error outlives its transaction.
RollbackKeepsError ==
  /\ pc = "Idle"
  /\ levels # <<>>
  /\ levels' = <<>>
  /\ ClearCache({levels[i] : i \in DOMAIN levels})
  /\ UNCHANGED <<committed, failed, pc, rows, orphaned>>

Rollback ==
  /\ pc = "Idle"
  /\ levels # <<>>
  /\ levels' = <<>>
  /\ ClearCache({levels[i] : i \in DOMAIN levels})
  /\ failed' = FALSE
  /\ UNCHANGED <<committed, pc, rows, orphaned>>

OtherSessionCommits ==
  /\ committed' \in (SUBSET Rows) \ {committed}
  /\ UNCHANGED <<levels, failed, pc, rows, cached, orphaned>>

-----------------------------------------------------------------------------
(* GetOrCreateCached, in a call of one of the SQL functions.  A hit, while *)
(* cached_ is set, changes nothing.                                        *)

\* ereport(ERROR), or a C++ exception that the SQL function turns into one.
Fail ==
  /\ failed' = TRUE
  /\ pc' = "Idle"
  /\ rows' = {}
  /\ UNCHANGED <<committed, levels>>

\* Mutant: cached_ is not looked at.
ReadAlways ==
  /\ Between
  /\ levels # <<>>
  /\ rows' = Visible
  /\ levels' = [levels EXCEPT ![Innermost].read = @ \cup {Visible}]
  /\ pc' = "Parse"
  /\ UNCHANGED <<committed, failed, cached, orphaned>>

\* SPI_execute, with the snapshot of the calling statement, and the copying of
\* its rows into the caller's memory.
Read ==
  /\ Between
  /\ levels # <<>>
  /\ cached = {}
  /\ rows' = Visible
  /\ levels' = [levels EXCEPT ![Innermost].read = @ \cup {Visible}]
  /\ pc' = "Parse"
  /\ UNCHANGED <<committed, failed, cached, orphaned>>

\* The query is cancelled, memory runs out, or a value cannot be detoasted.
ReadFails ==
  /\ Between
  /\ levels # <<>>
  /\ cached = {}
  /\ Fail
  /\ UNCHANGED <<cached, orphaned>>

Parse ==
  /\ pc = "Parse"
  /\ IF rows \cap Malformed # {} THEN Fail /\ UNCHANGED <<cached, orphaned>>
     ELSE /\ cached' = {rows}
          /\ rows' = {}
          /\ pc' = "Register"
          /\ UNCHANGED <<committed, levels, failed, orphaned>>

\* Mutant: the callback is registered in TopTransactionContext.
RegisterAtTop ==
  /\ pc = "Register"
  /\ levels' = [levels EXCEPT ![1].callbacks = @ + 1]
  /\ pc' = "Idle"
  /\ UNCHANGED <<committed, failed, rows, cached, orphaned>>

\* Mutant: the callback is allocated but not registered.
RegisterNothing ==
  /\ pc = "Register"
  /\ pc' = "Idle"
  /\ UNCHANGED <<committed, levels, failed, rows, cached, orphaned>>

Register ==
  /\ pc = "Register"
  /\ levels' = [levels EXCEPT ![Innermost].callbacks = @ + 1]
  /\ pc' = "Idle"
  /\ UNCHANGED <<committed, failed, rows, cached, orphaned>>

\* Memory for the schemas or, with cached_ already set, for the callback cannot
\* be allocated: std::bad_alloc.
AllocFails ==
  /\ pc \in {"Parse", "Register"}
  /\ Fail
  /\ orphaned' = (orphaned \/ pc = "Register")
  /\ UNCHANGED cached

-----------------------------------------------------------------------------
Next ==
  \/ Begin \/ Savepoint \/ Release \/ RollbackTo \/ Commit \/ Rollback
  \/ \E row \in Rows : Insert(row) \/ Delete(row)
  \/ OtherSessionCommits
  \/ Read \/ ReadFails \/ Parse \/ Register \/ AllocFails

\* Nothing has to happen: statements come from a client, sessions come and go.
Spec == Init /\ [][Next]_vars

-----------------------------------------------------------------------------
(* Properties *)

Tables == SUBSET Rows

Levels == [inserted : Tables, deleted : Tables, callbacks : Nat, read : SUBSET Tables]

\* Calls and errors happen within a transaction; a failed one does nothing more.
TypeOK ==
  /\ committed \in Tables
  /\ levels \in Seq(Levels)
  /\ failed \in BOOLEAN
  /\ pc \in {"Idle", "Parse", "Register"}
  /\ rows \in Tables
  /\ cached \in SUBSET Tables
  /\ orphaned \in BOOLEAN
  /\ failed \/ pc # "Idle" => levels # <<>>
  /\ failed => pc = "Idle"

\* The open (sub)transactions whose memory context has a callback.
Registered == {i \in DOMAIN levels : levels[i].callbacks > 0}

\* No callback is left over that would clear a cache it was not registered for:
\* there is one at most, and none while there is no cache to clear.
AtMostOneCallback ==
  /\ cached = {} \/ pc = "Register" => Registered = {}
  /\ \A i, j \in Registered : i = j /\ levels[i].callbacks = 1

\* README "Performance": schemas are cached only for the duration of a single
\* transaction.
CacheDiesWithTransaction == levels = <<>> => cached = {}

\* It is so however transactions nest, fail and end, unless memory has run out
\* between filling the cache and registering its callback.
CacheBounded == ~orphaned => CacheDiesWithTransaction

\* The cache holds what a query of a (sub)transaction that is still open, or
\* was released into one that is, has read: never the table as a subtransaction
\* that was rolled back had left it, nor as an earlier transaction saw it.
CacheIsLive ==
  ~orphaned => \A table \in cached : \E i \in DOMAIN levels : table \in levels[i].read

=============================================================================
