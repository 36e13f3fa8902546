------------------------------- MODULE MCAcI -------------------------------
(* A small AcI for TLC: reservations and shadow schedules as model values. *)
EXTENDS AcI, TLC

CONSTANTS r1, r2, s1, s2

Symmetry == Permutations(Feasible) \union Permutations(ShadowIds)

=============================================================================
