---------------------------- MODULE MCTelemetry ----------------------------
(* TelemetryPurge, with the Batcher it composes, for TLC.                   *)
EXTENDS TelemetryPurge
CONSTANTS p1, p2, w1, w2

Feed(kinds, projects) ==
    [i \in DOMAIN kinds |-> [kind |-> kinds[i], project |-> projects[i]]]

\* Poison among good rows; a row that is never taken and one over the ceiling; two projects.
MCFeeds ==
    {Feed(<<"good", "poison", "poison", "good">>, <<p1, p1, p1, p1>>),
     Feed(<<"odd", "good", "heavy", "good">>, <<p1, p1, p1, p1>>),
     Feed(<<"poison", "good", "good">>, <<p1, p1, p2>>)}
=============================================================================
