----------------------------- MODULE MCHistory -----------------------------
(* Small instances of History for TLC.                                     *)
EXTENDS History, TLC

CONSTANTS m1, m2, A, B

\* The two labels are interchangeable; the messages are not.
LabelSymmetry == Permutations({A, B})
=============================================================================
