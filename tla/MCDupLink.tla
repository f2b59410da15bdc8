----------------------------- MODULE MCDupLink -----------------------------
(* Instances of DupLink for TLC.                                            *)
EXTENDS DupLink, TLC

CONSTANTS f1, f2

FrameSymmetry == Permutations({f1, f2})
=============================================================================
