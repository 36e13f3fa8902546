----------------------------- MODULE MCSlurmRms -----------------------------
(* Small clusters for TLC: ids and jobs are model values.                  *)
EXTENDS SlurmRms, TLC

CONSTANTS r1, e1, e2, j1, j2, n1

Symmetry == Permutations(Reservations) \union Permutations(Externals)
            \union Permutations(Jobs)

=============================================================================
