---------------------------- MODULE Subsequences ----------------------------
(***************************************************************************)
(* Array.prototype.filter as the code uses it, on sequences: a recursive   *)
(* function, which proofs can expand, where SelectSeq takes an operator.   *)
(***************************************************************************)
EXTENDS Naturals, Sequences

\* The elements of s at the given positions, in their order.
SelectAt(s, positions) ==
  LET kept[i \in 0 .. Len(s)] ==
        IF i = 0 THEN <<>>
        ELSE IF i \in positions THEN Append(kept[i - 1], s[i])
        ELSE kept[i - 1]
  IN kept[Len(s)]

\* The elements of s other than null.
Without(s, null) == SelectAt(s, {i \in DOMAIN s : s[i] # null})
=============================================================================
