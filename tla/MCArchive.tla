----------------------------- MODULE MCArchive -----------------------------
(* Small instances of Archive for TLC.                                     *)
EXTENDS Archive, TLC

CONSTANTS m1, m2, w1, w2

\* The listing moved between two pages: m1 is on both.
TwiceListed == <<m1, m2, m1>>
=============================================================================
