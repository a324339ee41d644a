----------------------------- MODULE Escalation -----------------------------
(***************************************************************************)
(* internal/escalation with one of its sources (internal/host): the ladder *)
(* of one incident.  Schedulers (scheduler.go) and evaluators              *)
(* (host/evaluator.go) of several replicas send its steps through          *)
(* SendStepIfDue (step.go) and close it; they share the incident's row and *)
(* its rows in incident_escalations, and every statement is a step of its  *)
(* own.  Incidents do not share state, so one is enough.                   *)
(***************************************************************************)
EXTENDS Integers, FiniteSets, Sequences

CONSTANTS
    Schedulers,     \* escalation.Scheduler of each replica
    Evaluators,     \* host.Evaluator of each replica
    Channels,
    Ladder,         \* the severity's ladder: a sequence of [delay, channels]
    SettleGrace,    \* how long step 0 is held below a live parent
    Gates,          \* what the gates may read: a set of <<maint, parent>>
    MaxElapsed,     \* bound: the age of an incident is told apart up to this
    MaxFaults       \* bound: crashes, failed statements, undeliverable channels

Procs == Schedulers \cup Evaluators

ASSUME EscalationAssumption ==
    /\ Ladder \in Seq([delay : Nat, channels : SUBSET Channels])
    /\ SettleGrace \in Nat
    /\ Gates \subseteq BOOLEAN \X {"none", "up", "down"}
    /\ MaxElapsed \in Nat
    /\ MaxFaults \in Nat
    /\ Schedulers \cap Evaluators = {}

VARIABLES
    (* the incident's row *)
    status,      \* "none", "open" or "resolved"
    acked,       \* acknowledged_at is set
    level,       \* escalation_level: the next step, counted from 0
    suppressed,  \* suppressed_by_dep
    elapsed,     \* now - GREATEST(started_at, dep_released_at)
    (* incident_escalations *)
    log,         \* rows <<step, channel>>
    oldRows,     \* rows sent before the retention's cutoff
    resolvedOld, \* the incident was resolved before the cutoff
    (* what the gates read *)
    maint,       \* the project is in a maintenance window
    parent,      \* the host's parent in the dependency graph: "none", "up" or "down"
    (* the processes' memory *)
    pc, seen, won, todo, enqueued, failed,
    (* observations *)
    alarms,      \* alarms[step, channel]: how often the step was enqueued
    recovered,   \* channels the recovery was enqueued to
    early,       \* channels that saw the recovery before any alarm
    excused,     \* steps of channels hit by a fault
    doubtful,    \* steps of channels whose enqueue failed after it took effect
    released,    \* claims taken back by ReleaseStepChannels
    ackedAt,     \* level at the acknowledgement
    faults

incident == <<status, acked, level, suppressed, elapsed>>
journal == <<log, oldRows, resolvedOld>>
gates == <<maint, parent>>
memory == <<pc, seen, won, todo, enqueued, failed>>
observed == <<alarms, recovered, early, excused, doubtful, released, ackedAt, faults>>
vars == <<incident, journal, gates, memory, observed>>

Levels == 0 .. Len(Ladder)
Steps == 0 .. Len(Ladder) - 1
StepChannels(s) == Ladder[s + 1].channels
Rows(s, S) == {<<s, c>> : c \in S}

\* The variables and the processes' memory have their types.
TypeOK ==
    /\ status \in {"none", "open", "resolved"}
    /\ acked \in BOOLEAN /\ suppressed \in BOOLEAN
    /\ level \in Levels /\ elapsed \in 0 .. MaxElapsed
    /\ log \subseteq Steps \X Channels /\ oldRows \subseteq Steps \X Channels
    /\ resolvedOld \in BOOLEAN
    /\ <<maint, parent>> \in Gates
    /\ pc \in [Procs -> {"idle", "clear", "gate", "suppress", "claim", "notify", "bump",
                         "recover", "recovering"}]
    /\ seen \in [Procs -> [level : Levels, elapsed : 0 .. MaxElapsed]]
    /\ won \in [Procs -> SUBSET Channels] /\ todo \in [Procs -> SUBSET Channels]
    /\ enqueued \in [Procs -> SUBSET Channels] /\ failed \in [Procs -> BOOLEAN]
    /\ alarms \in [Steps \X Channels -> Nat]
    /\ recovered \subseteq Channels /\ early \subseteq Channels
    /\ excused \subseteq Steps \X Channels /\ doubtful \subseteq Steps \X Channels
    /\ released \subseteq Steps \X Channels
    /\ ackedAt \in Levels /\ faults \in 0 .. MaxFaults

Nothing == [level |-> 0, elapsed |-> 0]

Init ==
    /\ status = "none" /\ acked = FALSE /\ level = 0 /\ suppressed = FALSE /\ elapsed = 0
    /\ log = {} /\ oldRows = {} /\ resolvedOld = FALSE
    /\ \E g \in Gates : maint = g[1] /\ parent = g[2]
    /\ pc = [p \in Procs |-> "idle"] /\ seen = [p \in Procs |-> Nothing]
    /\ won = [p \in Procs |-> {}] /\ todo = [p \in Procs |-> {}]
    /\ enqueued = [p \in Procs |-> {}] /\ failed = [p \in Procs |-> FALSE]
    /\ alarms = [r \in Steps \X Channels |-> 0]
    /\ recovered = {} /\ early = {} /\ excused = {} /\ doubtful = {} /\ released = {}
    /\ ackedAt = 0 /\ faults = 0

Goto(p, l) == pc' = [pc EXCEPT ![p] = l]

\* p is done with the incident.
Finish(p) ==
    /\ Goto(p, "idle")
    /\ seen' = [seen EXCEPT ![p] = Nothing]
    /\ won' = [won EXCEPT ![p] = {}]
    /\ todo' = [todo EXCEPT ![p] = {}]
    /\ enqueued' = [enqueued EXCEPT ![p] = {}]
    /\ failed' = [failed EXCEPT ![p] = FALSE]

Move(p, l) ==
    /\ Goto(p, l)
    /\ UNCHANGED <<seen, won, todo, enqueued, failed>>

Fault == faults < MaxFaults /\ faults' = faults + 1

----------------------------------------------------------------------------
(* The head of SendStepIfDue: nothing, only the bump, or the claim          *)

Due(p) ==
    /\ seen[p].level < Len(Ladder)
    /\ seen[p].elapsed >= Ladder[seen[p].level + 1].delay

SendStepIfDue(p) ==
    IF ~ Due(p) THEN Finish(p)
    ELSE IF StepChannels(seen[p].level) = {} THEN Move(p, "bump") ELSE Move(p, "claim")

----------------------------------------------------------------------------
(* Evaluator: the incident opens                                            *)

\* Step 0 at once, with elapsed 0, unless a gate holds it.
Open(e) ==
    /\ pc[e] = "idle" /\ status = "none"
    /\ status' = "open"
    /\ IF ~ maint /\ parent = "none" THEN SendStepIfDue(e) ELSE UNCHANGED memory
    /\ UNCHANGED <<acked, level, suppressed, elapsed, journal, gates, observed>>

\* InMaintenance or HasParent fails: the incident is notified as if ungated.
OpenUngated(e) ==
    /\ pc[e] = "idle" /\ status = "none" /\ (maint \/ parent # "none")
    /\ Fault
    /\ status' = "open"
    /\ SendStepIfDue(e)
    /\ UNCHANGED <<acked, level, suppressed, elapsed, journal, gates, alarms, recovered, early,
                   excused, doubtful, released, ackedAt>>

----------------------------------------------------------------------------
(* Scheduler.Tick                                                           *)

Pending == status = "open" /\ ~ acked

\* releaseSuppressed: a suppressed incident whose parent is not down ...
ReleaseSuppressed(s) ==
    /\ pc[s] = "idle" /\ Pending /\ suppressed /\ parent # "down"
    /\ Move(s, "clear")
    /\ UNCHANGED <<incident, journal, gates, observed>>

\* ... is cleared, and the ladder's clock starts again (dep_released_at).
ClearSuppressed(s) ==
    /\ pc[s] = "clear"
    /\ suppressed' = FALSE
    /\ elapsed' = IF suppressed THEN 0 ELSE elapsed
    /\ Finish(s)
    /\ UNCHANGED <<status, acked, level, journal, gates, observed>>

\* OpenUnacked: the snapshot the rest of the tick works from.
OpenUnacked(s) ==
    /\ pc[s] = "idle" /\ Pending /\ ~ suppressed
    /\ Goto(s, "gate")
    /\ seen' = [seen EXCEPT ![s] = [level |-> level, elapsed |-> elapsed]]
    /\ UNCHANGED <<incident, journal, gates, won, todo, enqueued, failed, observed>>

Held(s) == parent = "up" /\ seen[s].level = 0 /\ seen[s].elapsed < SettleGrace

\* tickOne: the maintenance gate, the dependency gate, then the step.
Gate(s) ==
    /\ pc[s] = "gate"
    /\ \/ maint /\ Finish(s)
       \/ ~ maint /\ parent = "down" /\ Move(s, "suppress")
       \/ ~ maint /\ parent # "down" /\ Held(s) /\ Finish(s)
       \/ ~ maint /\ parent # "down" /\ ~ Held(s) /\ SendStepIfDue(s)
    /\ UNCHANGED <<incident, journal, gates, observed>>

\* CheckIncident fails: the incident escalates as if it had no parent.  (A failed
\* maintenance check or Ladder ends the attempt, which Crash covers.)
GateError(s) ==
    /\ pc[s] = "gate" /\ ~ maint
    /\ Fault
    /\ SendStepIfDue(s)
    /\ UNCHANGED <<incident, journal, gates, alarms, recovered, early, excused, doubtful,
                   released, ackedAt>>

\* MarkSuppressed looks at no other column.
MarkSuppressed(s) ==
    /\ pc[s] = "suppress"
    /\ suppressed' = TRUE
    /\ Finish(s)
    /\ UNCHANGED <<status, acked, level, elapsed, journal, gates, observed>>

----------------------------------------------------------------------------
(* SendStepIfDue                                                            *)

\* A claim that does not look at the rows of other replicas.
WinnableAll(p) == StepChannels(seen[p].level)

\* INSERT ... ON CONFLICT DO NOTHING: the rows this call added.
Winnable(p) == {c \in StepChannels(seen[p].level) : <<seen[p].level, c>> \notin log}

\* A tick that leaves a step alone when somebody else has claimed all of it.
AfterClaimWaiting(p) == IF Winnable(p) = {} THEN "idle" ELSE "notify"

\* Nothing won: the step is another replica's, or lost with a crash.  Bump only.
AfterClaim(p) == IF Winnable(p) = {} THEN "bump" ELSE "notify"

ClaimStepChannels(p) ==
    /\ pc[p] = "claim"
    /\ log' = log \cup Rows(seen[p].level, Winnable(p))
    /\ won' = [won EXCEPT ![p] = Winnable(p)]
    /\ todo' = [todo EXCEPT ![p] = Winnable(p)]
    /\ Goto(p, AfterClaim(p))
    /\ UNCHANGED <<incident, oldRows, resolvedOld, gates, seen, enqueued, failed, observed>>

\* The INSERT fails, or its answer is lost and the rows are nobody's.
ClaimError(p, applied) ==
    /\ pc[p] = "claim"
    /\ Fault
    /\ log' = IF applied THEN log \cup Rows(seen[p].level, Winnable(p)) ELSE log
    /\ excused' = IF applied THEN excused \cup Rows(seen[p].level, Winnable(p)) ELSE excused
    /\ Finish(p)
    /\ UNCHANGED <<incident, oldRows, resolvedOld, gates, alarms, recovered, early, doubtful,
                   released, ackedAt>>

\* Dispatch, one channel: the alarm enters the outbox.
NotifyStep(p, c) ==
    /\ pc[p] = "notify" /\ c \in todo[p]
    /\ todo' = [todo EXCEPT ![p] = @ \ {c}]
    /\ enqueued' = [enqueued EXCEPT ![p] = @ \cup {c}]
    /\ alarms' = [alarms EXCEPT ![<<seen[p].level, c>>] = @ + 1]
    /\ UNCHANGED <<incident, journal, gates, pc, seen, won, failed, recovered, early, excused,
                   doubtful, released, ackedAt, faults>>

\* Dispatch skips a channel that is disabled, broken or an email without SMTP ...
NotifySkips(p, c) ==
    /\ pc[p] = "notify" /\ c \in todo[p]
    /\ Fault
    /\ todo' = [todo EXCEPT ![p] = @ \ {c}]
    /\ excused' = excused \cup {<<seen[p].level, c>>}
    /\ UNCHANGED <<incident, journal, gates, pc, seen, won, enqueued, failed, alarms, recovered,
                   early, doubtful, released, ackedAt>>

\* ... and reports one whose Enqueue fails, with or without effect.
NotifyError(p, c, applied) ==
    /\ pc[p] = "notify" /\ c \in todo[p]
    /\ Fault
    /\ todo' = [todo EXCEPT ![p] = @ \ {c}]
    /\ failed' = [failed EXCEPT ![p] = TRUE]
    /\ excused' = excused \cup {<<seen[p].level, c>>}
    /\ IF applied
       THEN /\ alarms' = [alarms EXCEPT ![<<seen[p].level, c>>] = @ + 1]
            /\ doubtful' = doubtful \cup {<<seen[p].level, c>>}
       ELSE UNCHANGED <<alarms, doubtful>>
    /\ UNCHANGED <<incident, journal, gates, pc, seen, won, enqueued, recovered, early, released,
                   ackedAt>>

\* Nothing enqueued and an error: the step stays due.  Otherwise it is done.
AfterNotify(p) ==
    IF failed[p] /\ enqueued[p] = {} THEN Finish(p) ELSE Move(p, "bump")

\* A release of the whole claim instead of the channels that were not sent.
UnsentAll(p) == Rows(seen[p].level, won[p])

Unsent(p) == Rows(seen[p].level, won[p] \ enqueued[p])

ReleaseStepChannels(p) ==
    /\ pc[p] = "notify" /\ todo[p] = {}
    /\ log' = log \ Unsent(p)
    /\ released' = released \cup Unsent(p)
    /\ AfterNotify(p)
    /\ UNCHANGED <<incident, oldRows, resolvedOld, gates, alarms, recovered, early, excused,
                   doubtful, ackedAt, faults>>

ReleaseError(p) ==
    /\ pc[p] = "notify" /\ todo[p] = {} /\ Unsent(p) # {}
    /\ Fault
    /\ AfterNotify(p)
    /\ UNCHANGED <<incident, journal, gates, alarms, recovered, early, excused, doubtful,
                   released, ackedAt>>

\* An increment that does not compare the level with the one that was sent.
BumpedBlindly(p) == level + 1

\* BumpEscalation: UPDATE ... WHERE escalation_level = from.
Bumped(p) == IF level = seen[p].level THEN level + 1 ELSE level

BumpEscalation(p) ==
    /\ pc[p] = "bump"
    /\ level' = Bumped(p)
    /\ Finish(p)
    /\ UNCHANGED <<status, acked, suppressed, elapsed, journal, gates, observed>>

BumpError(p) ==
    /\ pc[p] = "bump"
    /\ Fault
    /\ Finish(p)
    /\ UNCHANGED <<incident, journal, gates, alarms, recovered, early, excused, doubtful,
                   released, ackedAt>>

\* The process dies or gives up; what it had claimed and not enqueued stays claimed.
Crash(p) ==
    /\ pc[p] # "idle"
    /\ Fault
    /\ excused' = excused \cup Unsent(p)
    /\ Finish(p)
    /\ UNCHANGED <<incident, journal, gates, alarms, recovered, early, doubtful, released,
                   ackedAt>>

----------------------------------------------------------------------------
(* The incident ends                                                        *)

Acknowledge ==
    /\ status = "open" /\ ~ acked
    /\ acked' = TRUE
    /\ ackedAt' = level
    /\ UNCHANGED <<status, level, suppressed, elapsed, journal, gates, memory, alarms, recovered,
                   early, excused, doubtful, released, faults>>

\* Resolve by the evaluator, which then notifies of the recovery ...
Resolve(e) ==
    /\ pc[e] = "idle" /\ status = "open"
    /\ status' = "resolved"
    /\ Move(e, "recover")
    /\ UNCHANGED <<acked, level, suppressed, elapsed, journal, gates, observed>>

\* ... or ResolveOpenByHostKind, when the kind of alert is switched off: it does not.
ResolveQuietly ==
    /\ status = "open"
    /\ status' = "resolved"
    /\ UNCHANGED <<acked, level, suppressed, elapsed, journal, gates, memory, observed>>

RecoveryChannels == {c \in Channels : \E s \in Steps : <<s, c>> \in log}

ReadRecovery(e) ==
    /\ pc[e] = "recover"
    /\ IF RecoveryChannels = {} THEN Finish(e)
       ELSE /\ Goto(e, "recovering")
            /\ todo' = [todo EXCEPT ![e] = RecoveryChannels]
            /\ UNCHANGED <<seen, won, enqueued, failed>>
    /\ UNCHANGED <<incident, journal, gates, observed>>

Alarmed(c) == \E s \in Steps : alarms[<<s, c>>] > 0

NotifyRecovery(e, c) ==
    /\ pc[e] = "recovering" /\ c \in todo[e]
    /\ recovered' = recovered \cup {c}
    /\ early' = IF Alarmed(c) THEN early ELSE early \cup {c}
    /\ IF todo[e] = {c} THEN Finish(e)
       ELSE /\ todo' = [todo EXCEPT ![e] = @ \ {c}]
            /\ UNCHANGED <<pc, seen, won, enqueued, failed>>
    /\ UNCHANGED <<incident, journal, gates, alarms, excused, doubtful, released, ackedAt, faults>>

----------------------------------------------------------------------------
(* The janitor and the environment                                          *)

\* PurgeOldEscalations as it would be without its look at the incident.
KeepNothing == FALSE

\* incident_keep: the incident is open or resolved after the cutoff.
Keep == status = "open" \/ (status = "resolved" /\ ~ resolvedOld)

PurgeOldEscalations ==
    /\ ~ Keep /\ oldRows \cap log # {}
    /\ log' = log \ oldRows
    /\ UNCHANGED <<incident, oldRows, resolvedOld, gates, memory, observed>>

Idle == \A p \in Procs : pc[p] = "idle"

\* A retention (days) passes while no process is at work (seconds).
RetentionPasses ==
    /\ Idle
    /\ oldRows' = log
    /\ resolvedOld' = (status = "resolved")
    /\ UNCHANGED <<incident, log, gates, memory, observed>>

Tick ==
    /\ status = "open" /\ elapsed < MaxElapsed
    /\ elapsed' = elapsed + 1
    /\ UNCHANGED <<status, acked, level, suppressed, journal, gates, memory, observed>>

GatesChange ==
    /\ \E g \in Gates : maint' = g[1] /\ parent' = g[2]
    /\ UNCHANGED <<incident, journal, memory, observed>>

----------------------------------------------------------------------------

SendStep(p) ==
    \/ ClaimStepChannels(p) \/ \E applied \in BOOLEAN : ClaimError(p, applied)
    \/ \E c \in Channels : NotifyStep(p, c) \/ NotifySkips(p, c)
    \/ \E c \in Channels, applied \in BOOLEAN : NotifyError(p, c, applied)
    \/ ReleaseStepChannels(p) \/ ReleaseError(p)
    \/ BumpEscalation(p) \/ BumpError(p)

SchedulerStep(s) ==
    \/ ReleaseSuppressed(s) \/ ClearSuppressed(s) \/ OpenUnacked(s)
    \/ Gate(s) \/ GateError(s) \/ MarkSuppressed(s) \/ SendStep(s)

EvaluatorStep(e) == SendStep(e) \/ ReadRecovery(e) \/ \E c \in Channels : NotifyRecovery(e, c)

Next ==
    \/ \E s \in Schedulers : SchedulerStep(s)
    \/ \E e \in Evaluators : Open(e) \/ OpenUngated(e) \/ Resolve(e) \/ EvaluatorStep(e)
    \/ \E p \in Procs : Crash(p)
    \/ Acknowledge \/ ResolveQuietly
    \/ PurgeOldEscalations \/ RetentionPasses \/ Tick \/ GatesChange

\* Schedulers tick for ever, calls return, time passes.
Fairness ==
    /\ \A s \in Schedulers : WF_vars(SchedulerStep(s))
    /\ \A e \in Evaluators : WF_vars(EvaluatorStep(e))
    /\ WF_vars(Tick)

Spec == Init /\ [][Next]_vars /\ Fairness

----------------------------------------------------------------------------
(* Properties                                                               *)

\* Claim before notify: however many replicas tick at once, a step reaches a
\* channel once (twice only if an enqueue failed after taking effect).
NoDoubleAlarm ==
    \A r \in Steps \X Channels : alarms[r] <= 1 \/ r \in doubtful

\* Whoever was alarmed is found by RecoveryChannels until the incident is long
\* closed: no release and no purge takes away the row of an alarm.
AlarmedCanRecover ==
    \A r \in Steps \X Channels :
        alarms[r] > 0 => r \in log \/ r \in doubtful \/ resolvedOld

\* The ladder does not pass a step that nobody was told of, unless the step has
\* no channels, a fault hit it, or a process is at it right now.
NoStepSkipped ==
    \A s \in Steps : s < level =>
        \/ StepChannels(s) = {}
        \/ \E c \in Channels : alarms[<<s, c>>] > 0 \/ <<s, c>> \in excused
        \/ \E p \in Procs : pc[p] = "notify" /\ seen[p].level = s

\* After an acknowledgement at most the step that was due then is still sent,
\* by ticks under way, and the level moves by one at most.
AckStopsLadder ==
    acked =>
        /\ level <= ackedAt + 1
        /\ \A s \in Steps, c \in Channels : s > ackedAt => alarms[<<s, c>>] = 0

Undisturbed == status = "open" /\ ~ acked /\ ~ maint /\ parent # "down"

\* An incident that stays open, unacknowledged, out of maintenance and below no
\* failed parent climbs its ladder to the end; a suppression does not outlive its cause.
LadderCompletes == <>[]Undisturbed => <>(level = Len(Ladder))

\* What the comment on RecoveryChannels asks for: a channel that has not seen the
\* alarm does not see "the incident is closed" first.
RecoveryNeverFirst == early = {}

\* What the comments on SendStepIfDue and ReleaseStepChannels say of a channel whose
\* claim was released: the next tick finds its step free and repeats it.
ReleasedIsRepeated ==
    \A r \in released : r[1] >= level \/ alarms[r] > 0
=============================================================================
