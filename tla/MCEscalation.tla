---------------------------- MODULE MCEscalation ----------------------------
(* Escalation for TLC: two steps, the second a channel of the first again.  *)
EXTENDS Escalation, TLC
CONSTANTS c1, c2

MCLadder == << [delay |-> 0, channels |-> {c1, c2}], [delay |-> 1, channels |-> {c2}] >>

\* No maintenance and no dependency: the races of the replicas.
Ungated == { <<FALSE, "none">> }

\* Both gates, and a parent that is up, for which the evaluator leaves the first step to
\* the scheduler.
Gated == { <<FALSE, "none">>, <<TRUE, "up">>, <<FALSE, "down">> }

Replicas == Permutations(Schedulers)
=============================================================================
