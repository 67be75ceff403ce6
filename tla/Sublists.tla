------------------------------ MODULE Sublists ------------------------------
(***************************************************************************)
(* A list without some of its items, as list_for_each_safe with list_del   *)
(* leaves it, or the items themselves, as the same walk copies them.       *)
(***************************************************************************)
EXTENDS Integers, Sequences

(* The items of s that are in T, in their order.                           *)
Only(s, T) ==
  LET upto[i \in 0 .. Len(s)] ==
        IF i = 0 THEN << >>
        ELSE IF s[i] \in T THEN Append(upto[i - 1], s[i]) ELSE upto[i - 1]
  IN  upto[Len(s)]
=============================================================================
