------------------------------ MODULE QuerySpec ------------------------------
(***************************************************************************)
(* What running a query over a column promises: the values the query       *)
(* selects are emitted as rows, one by one and in the order of the column, *)
(* and the run ends when it has emitted them all; a column that cannot be  *)
(* read or converted is rejected instead, at any point.                    *)
(*                                                                         *)
(* Less is promised of a column that its writer did not finish: its rows   *)
(* are rows of the whole column, in the same order.  Of a column with any  *)
(* other damage nothing is promised but that no row is taken back and that *)
(* the run ends once.                                                      *)
(***************************************************************************)
EXTENDS Sequences, Naturals

VARIABLES
  selection,   \* the rows of the values the query selects
  damage,      \* "none", "unreadable", "cut" or "any"
  rows,        \* the rows emitted so far
  result       \* "running", "ok", or why the column was rejected

vars == <<selection, damage, rows, result>>

Init ==
  /\ rows = <<>>
  /\ result = "running"

IsNextRow(row) == Len(rows) < Len(selection) /\ row = selection[Len(rows) + 1]

Emit ==
  /\ result = "running"
  /\ Len(rows') = Len(rows) + 1
  /\ rows = SubSeq(rows', 1, Len(rows))
  /\ damage # "any" => IsNextRow(rows'[Len(rows')])
  /\ UNCHANGED <<selection, damage, result>>

Finish ==
  /\ result = "running"
  /\ damage \in {"none", "unreadable"} => rows = selection
  /\ result' = "ok"
  /\ UNCHANGED <<selection, damage, rows>>

Reject ==
  /\ result = "running"
  /\ damage # "none"
  /\ result' \in {"BadProto", "RecursionDepthExceeded"}
  /\ UNCHANGED <<selection, damage, rows>>

Next == Emit \/ Finish \/ Reject

Spec == Init /\ [][Next]_vars

=============================================================================
