-------------------------- MODULE MCIncidentGroup --------------------------
(* IncidentGroup for TLC: a host behind a gateway, which may fall silent in  *)
(* any order, and an alert on a metric of a third host behind both.          *)
EXTENDS IncidentGroup, TLC
CONSTANTS gw, app, box

MCEdges == { <<app, gw>>, <<box, app>> }
MCRank == (gw :> 1) @@ (app :> 2) @@ (box :> 3)
MCIncidents == { <<"silent", gw, 1>>, <<"silent", app, 1>>, <<"metric", box, 1>> }

\* Two hosts behind each other: what concurrent Creates or labels leave behind.
RingEdges == { <<app, gw>>, <<gw, app>> }
RingRank == (gw :> 1) @@ (app :> 2)
RingIncidents ==
    { <<"silent", gw, 1>>, <<"silent", app, 1>>, <<"silent", gw, 2>>, <<"metric", app, 1>> }
=============================================================================
