----------------------------- MODULE MCDetector -----------------------------
(* Detector for TLC.                                                        *)
EXTENDS Detector, TLC
CONSTANTS r1, r2
=============================================================================
