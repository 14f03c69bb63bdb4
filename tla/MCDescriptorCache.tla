-------------------------- MODULE MCDescriptorCache --------------------------
(***************************************************************************)
(* Instances of DescriptorCache: two rows, one of which cannot be parsed,  *)
(* and a transaction with up to two nested subtransactions.                *)
(***************************************************************************)
EXTENDS DescriptorCache, TLC

CONSTANTS good, alsoGood, broken

MCRows == {good, alsoGood, broken}
MCMalformed == {broken}

\* The well-formed rows can be exchanged.
Symmetry == Permutations({good, alsoGood})

=============================================================================
