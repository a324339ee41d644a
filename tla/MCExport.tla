------------------------------ MODULE MCExport ------------------------------
(* Export for TLC: the workers of an old and a new process.                  *)
EXTENDS Export, TLC

CONSTANTS w1, w2

=============================================================================
