------------------------------ MODULE ResultSets ------------------------------
(***************************************************************************)
(* What the SQL functions promise to a statement that calls them: each call*)
(* is answered by the rows its query selects from its protobuf, and a scan *)
(* with protobuf_query_multi hands out these rows one by one, in order,    *)
(* whatever else the statement calls in between.                           *)
(***************************************************************************)
EXTENDS Sequences

CONSTANTS
  Functions,  \* calls of SQL functions in the statement
  Kind,       \* which function each is: "query", "array", "json" or "multi"
  Results,    \* sequences of rows that a query can select
  Null        \* the SQL null, and the end of a scan

VARIABLES
  asked,      \* {} or the call that is being answered, with the rows it selects
  remaining,  \* multi -> {}, or the rows that the scan is still to hand out
  tuple       \* function -> {}, or its value in the current tuple

vars == <<asked, remaining, tuple>>

Multi == {f \in Functions : Kind[f] = "multi"}

\* What the functions that are not set-returning make of the rows.
Answer(f, rows) ==
  CASE Kind[f] = "array" -> rows
    [] Kind[f] # "array" /\ rows = <<>> -> Null
    [] Kind[f] # "array" /\ rows # <<>> -> Head(rows)

NothingOpen == [s \in Multi |-> {}]
NoTuple == [f \in Functions |-> {}]

Init == asked = {} /\ remaining = NothingOpen /\ tuple = NoTuple

Ask(f, rows) ==
  /\ asked = {} /\ tuple[f] = {}
  /\ f \in Multi => remaining[f] = {}
  /\ asked' = {[f |-> f, rows |-> rows]}
  /\ UNCHANGED <<remaining, tuple>>

Reply(f, rows) ==
  /\ asked = {[f |-> f, rows |-> rows]} /\ f \notin Multi
  /\ tuple' = [tuple EXCEPT ![f] = {Answer(f, rows)}]
  /\ asked' = {}
  /\ UNCHANGED remaining

Open(s, rows) ==
  /\ asked = {[f |-> s, rows |-> rows]}
  /\ remaining' = [remaining EXCEPT ![s] = {rows}]
  /\ asked' = {}
  /\ UNCHANGED tuple

Fetch(s, rows) ==
  /\ asked = {} /\ tuple[s] = {} /\ remaining[s] = {rows}
  /\ tuple' = [tuple EXCEPT ![s] = {IF rows = <<>> THEN Null ELSE Head(rows)}]
  /\ remaining' = [remaining EXCEPT ![s] = IF rows = <<>> THEN {} ELSE {Tail(rows)}]
  /\ UNCHANGED asked

NextTuple ==
  /\ asked = {}
  /\ tuple' = NoTuple
  /\ UNCHANGED <<asked, remaining>>

\* Nothing more is wanted of a scan.
Close(s) ==
  /\ asked = {} /\ tuple[s] = {}
  /\ remaining' = [remaining EXCEPT ![s] = {}]
  /\ UNCHANGED <<asked, tuple>>

\* The end of the statement, with or without an error.
End == asked' = {} /\ remaining' = NothingOpen /\ tuple' = NoTuple

Next ==
  \/ \E f \in Functions : \E rows \in Results : Ask(f, rows) \/ Reply(f, rows)
  \/ \E s \in Multi : \E rows \in Results : Open(s, rows)
  \/ \E s \in Multi : \E rows \in remaining[s] : Fetch(s, rows)
  \/ \E s \in Multi : Close(s)
  \/ NextTuple \/ End

Spec == Init /\ [][Next]_vars

=============================================================================
