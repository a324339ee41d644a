------------------------------ MODULE MCOutbox ------------------------------
(* Outbox for TLC: two rows, one of them with a key, and two workers.        *)
EXTENDS Outbox, TLC
CONSTANTS j1, j2, k1

MCKeyOf == (j1 :> k1) @@ (j2 :> NoKey)
MCBackoff == <<1>>
=============================================================================
