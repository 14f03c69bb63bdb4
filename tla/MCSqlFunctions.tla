---------------------------- MODULE MCSqlFunctions ----------------------------
(***************************************************************************)
(* Instances of SqlFunctions: a statement with one call of each of the     *)
(* functions that return one value, and two scans.                         *)
(***************************************************************************)
EXTENDS SqlFunctions, TLC

MCKind == ("q" :> "query") @@ ("a" :> "array") @@ ("j" :> "json") @@ ("m" :> "multi") @@ ("n" :> "multi")

MCFunctions == DOMAIN MCKind

=============================================================================
