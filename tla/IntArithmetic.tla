----------------------------- MODULE IntArithmetic -----------------------------
(***************************************************************************)
(* The arithmetic on int with which compare.c counts the comparisons: the  *)
(* product wraps around, as in the build, before it is halved.             *)
(***************************************************************************)
EXTENDS Integers

CONSTANT IntMax     \* INT_MAX

ASSUME IntAssumption == IntMax \in Nat \ {0}

\* What is left of a result in the bits of an int; the quotient is truncated
\* towards zero.
Wrap(n) == ((n + IntMax + 1) % (2 * IntMax + 2)) - (IntMax + 1)
Half(n) == IF n >= 0 THEN n \div 2 ELSE 0 - ((0 - n) \div 2)

\* wf_stack->size * (wf_stack->size - 1) / 2
TotalComparisons(n) == Half(Wrap(n * (n - 1)))
=============================================================================
