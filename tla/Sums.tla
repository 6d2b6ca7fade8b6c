-------------------------------- MODULE Sums --------------------------------
(***************************************************************************)
(* Array.prototype.reduce with +, on the values of a function over a       *)
(* finite set: a recursive function, which proofs can expand, where the    *)
(* folds take an operator.                                                 *)
(***************************************************************************)
EXTENDS Naturals

SumOver(f, S) ==
  LET sum[T \in SUBSET S] ==
        IF T = {} THEN 0 ELSE LET x == CHOOSE x \in T : TRUE IN f[x] + sum[T \ {x}]
  IN sum[S]
=============================================================================
