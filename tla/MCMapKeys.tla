------------------------------ MODULE MCMapKeys ------------------------------
(***************************************************************************)
(* Instances of MapKeys: words of two and four bits, every numeral up to   *)
(* one that has too many, and columns of up to two entries.                *)
(***************************************************************************)
EXTENDS MapKeys

MCKeyTypes == SignedTypes \cup UnsignedTypes \cup ZigZagTypes \cup {"bool"}

MCTexts ==
  {[kind |-> "numeral", n |-> n] : n \in -(Full + 1) .. Full + 1}
    \cup {[kind |-> kind, n |-> 0] : kind \in {"true", "false", "other"}}

\* One entry, or two with different keys or the same one.
MCColumns ==
  [type \in MCKeyTypes |->
     {<<key>> : key \in Keys(type)} \cup {keys \in [1 .. 2 -> Keys(type)] : keys[1] <= keys[2]}]

=============================================================================
