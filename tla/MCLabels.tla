------------------------------ MODULE MCLabels ------------------------------
(* Small instances of Labels for TLC.                                      *)
EXTENDS Labels, TLC

CONSTANTS m1, m2, L1, L2, w1, w2, Work, Home

\* Labels, their names, messages and workers are interchangeable.
Symmetry ==
    Permutations({L1, L2}) \union Permutations({Work, Home})
        \union Permutations({m1, m2}) \union Permutations({w1, w2})
=============================================================================
