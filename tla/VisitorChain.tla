---------------------------- MODULE VisitorChain ----------------------------
(***************************************************************************)
(* What QueryImpl::CompileQuery and the ProtobufTraverser agree on: the    *)
(* visitors of a query, each the next_ of the one in front of it.  The     *)
(* compiler is shown to make such chains, the traverser relies on them.    *)
(***************************************************************************)
EXTENDS Naturals, Sequences

\* Only the emitter has no next_, and it is the last.
IsChain(visitors) ==
  /\ Len(visitors) \in Nat \ {0} /\ DOMAIN visitors = 1 .. Len(visitors)
  /\ \A v \in DOMAIN visitors : visitors[v].kind = "Emitter" <=> v = Len(visitors)

\* The constructor of Emitter drops the limit it is given.
IsUnlimited(visitors) ==
  \A v \in DOMAIN visitors : visitors[v].kind = "Emitter" => visitors[v].limit = {}

=============================================================================
