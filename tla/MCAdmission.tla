---------------------------- MODULE MCAdmission -----------------------------
(***************************************************************************)
(* Small instances of Admission for TLC.                                   *)
(***************************************************************************)
EXTENDS Admission, TLC

CONSTANTS th1, th2, k1, k2, h1, h2, s1, s2

ThreadSymmetry == Permutations({th1, th2})

=============================================================================
