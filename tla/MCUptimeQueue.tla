--------------------------- MODULE MCUptimeQueue ---------------------------
(* The check pipeline with a local runner and a probe of one region. *)
EXTENDS UptimeQueue, TLC

CONSTANTS w1, p1, h1

MCProbeRegion == p1 :> LocalRegion

=============================================================================
