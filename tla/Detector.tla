------------------------------ MODULE Detector ------------------------------
(***************************************************************************)
(* internal/uptime: the incidents of one monitor (detector.go,             *)
(* incident.go) and the first alarm and the recovery of each (notifier.go).*)
(* A region's results are handled one after another, in any process, by    *)
(* OnResult; handlers of different regions run at the same time.           *)
(* UptimeQueue has the results before OnResult, Escalation the later steps *)
(* of the ladder.                                                          *)
(***************************************************************************)
EXTENDS Integers, FiniteSets

CONSTANTS
    Regions,
    Channels,       \* ids of the monitor's channels
    Consensus,      \* Monitor.Consensus: "any", "all" or "majority"
    Parents,        \* the monitor's parent may be: a subset of {"none", "up", "down"}
    MaxAttempts,    \* maxNotifyOpenAttempts
    MaxUpsets       \* bound: crashes, failed statements, outlived claims, and edits by the operator

ASSUME DetectorAssumption ==
    /\ IsFiniteSet(Regions) /\ Regions # {}
    /\ Channels \subseteq Nat /\ Channels # {}
    /\ Consensus \in {"any", "all", "majority"}
    /\ Parents \subseteq {"none", "up", "down"} /\ Parents # {}
    /\ MaxAttempts \in Nat /\ MaxUpsets \in Nat

VARIABLES
    (* the database *)
    config,     \* monitor_regions
    st,         \* monitor_state.status of each region
    incidents,  \* the rows of incidents, by id
    log,        \* incident_escalations: rows <<id, channel>> of step 0
    fresh,      \* those whose claim is younger than notifyOpenLease
    late,       \* <<r, n>>: a check of r may be under way from before an edit, with RegionCount n
    (* what the detector asks of others *)
    maint,      \* a maintenance window is open
    parent,     \* "none", "up" or "down"
    deliverable,\* the channels that are enabled and not broken
    (* the handler of each region *)
    pc, want, agg, id, todo, won, sent, err,
    (* observations *)
    alarms,     \* alarms[<<id, channel>>]: rows of the outbox
    recoveries,
    owed,       \* incidents whose resolver found their alarm gone out
    excused,    \* <<id, channel>> whose handler was cut short, or that handlers of the incident
                \* treated at cross purposes
    upsets

db == <<config, st, incidents, log, fresh, late>>
world == <<maint, parent, deliverable>>
memory == <<want, agg, id, todo, won, sent, err>>
observed == <<alarms, recoveries, owed, excused>>
vars == <<db, world, pc, memory, observed, upsets>>

\* A resolved incident that no handler works on is of no interest any more: its number is
\* taken by the next one, so that there are never more than one for each handler.
Ids == 1 .. Cardinality(Regions)
Status == {"unknown", "up", "down"}

NewIncident(inMaintenance) ==
    [open |-> TRUE, old |-> FALSE, maint |-> inMaintenance, notified |-> FALSE, failed |-> FALSE,
     attempts |-> 0, channels |-> {}, suppressed |-> FALSE]

NoIncident == [NewIncident(FALSE) EXCEPT !.open = FALSE]

Init ==
    /\ config = Regions /\ st \in [Regions -> {"up", "down"}] /\ late = {}
    /\ incidents = [i \in Ids |-> NoIncident] /\ log = {} /\ fresh = {}
    /\ maint = FALSE /\ parent \in Parents /\ deliverable = Channels
    /\ pc = [r \in Regions |-> "idle"] /\ want = [r \in Regions |-> 0]
    /\ agg = [r \in Regions |-> "unknown"] /\ id = [r \in Regions |-> 0]
    /\ todo = [r \in Regions |-> {}] /\ won = [r \in Regions |-> {}]
    /\ sent = [r \in Regions |-> {}] /\ err = [r \in Regions |-> FALSE]
    /\ alarms = [x \in Ids \X Channels |-> 0] /\ recoveries = [x \in Ids \X Channels |-> 0]
    /\ owed = {} /\ excused = {} /\ upsets = 0

Goto(r, l) == pc' = [pc EXCEPT ![r] = l]

\* The handler returns.
Return(r) ==
    /\ Goto(r, "idle")
    /\ want' = [want EXCEPT ![r] = 0] /\ agg' = [agg EXCEPT ![r] = "unknown"]
    /\ id' = [id EXCEPT ![r] = 0] /\ todo' = [todo EXCEPT ![r] = {}]
    /\ won' = [won EXCEPT ![r] = {}] /\ sent' = [sent EXCEPT ![r] = {}]
    /\ err' = [err EXCEPT ![r] = FALSE]

\* The handler goes on to l, or returns.
Proceed(r, l) == IF l = "idle" THEN Return(r) ELSE Goto(r, l) /\ UNCHANGED memory

Upset == upsets < MaxUpsets /\ upsets' = upsets + 1

\* The channel that is next in the list, which is ordered by id.
NextOf(S, c) == c \in S /\ \A d \in S : c <= d

At(i, S) == {<<i, c>> : c \in S}
Working(i) == \E r \in Regions : id[r] = i
Opened == {i \in Ids : incidents[i].open}

\* Resolved, and nobody works on it.
Finished == {i \in Ids : ~ incidents[i].open /\ ~ Working(i)}

\* The rows and observations of the incidents of S start again, with rows.
Forget(S, rows) ==
    /\ incidents' = rows
    /\ log' = {x \in log : x[1] \notin S} /\ fresh' = {x \in fresh : x[1] \notin S}
    /\ alarms' = [x \in DOMAIN alarms |-> IF x[1] \in S THEN 0 ELSE alarms[x]]
    /\ recoveries' = [x \in DOMAIN recoveries |-> IF x[1] \in S THEN 0 ELSE recoveries[x]]
    /\ owed' = owed \ S /\ excused' = {x \in excused : x[1] \notin S}

----------------------------------------------------------------------------
(* A result                                                                 *)

\* ApplyResult of a check that began when the monitor had n regions (RegionCount); it moves
\* a status as the thresholds allow, which UptimeQueue has.  The row of a region that was
\* removed meanwhile is inserted again.  Incidents that are finished are forgotten here.
ApplyResult(r, n, s) ==
    /\ pc[r] = "idle"
    /\ (r \in config /\ n = Cardinality(config)) \/ <<r, n>> \in late
    /\ st' = [st EXCEPT ![r] = s]
    /\ late' = {x \in late : x[1] # r}
    /\ Goto(r, "states") /\ want' = [want EXCEPT ![r] = n]
    /\ Forget(Finished, [i \in Ids |-> IF i \in Finished THEN NoIncident ELSE incidents[i]])
    /\ UNCHANGED <<config, world, agg, id, todo, won, sent, err, upsets>>

\* States without the JOIN on monitor_regions.
AllStates == Regions

\* States: the rows of the regions the monitor has.
States == config

Larger(a, b) == IF a > b THEN a ELSE b

\* aggregate over the rows of S, for a monitor that had n regions.
Aggregate(S, n) ==
    LET down == Cardinality({r \in S : st[r] = "down"})
        decided == Cardinality({r \in S : st[r] # "unknown"})
        total == Larger(decided, n)
        isDown == CASE Consensus = "any" -> down > 0
                    [] Consensus = "all" -> down = total
                    [] OTHER -> 2 * down >= total
    IN  IF decided = 0 THEN "unknown" ELSE IF isDown THEN "down" ELSE "up"

\* detectIncident: first the states ...
ReadStates(r) ==
    /\ pc[r] = "states"
    /\ IF Aggregate(States, want[r]) = "unknown" THEN Return(r)
       ELSE /\ Goto(r, "find") /\ agg' = [agg EXCEPT ![r] = Aggregate(States, want[r])]
            /\ UNCHANGED <<want, id, todo, won, sent, err>>
    /\ UNCHANGED <<db, world, observed, upsets>>

\* settleHeldIncident up to its first statement: where the row of i leads.
Settle(i) ==
    LET inc == incidents[i]
    IN  CASE inc.notified -> IF inc.channels = {} THEN "idle" ELSE "log"
          [] ~ inc.notified /\ inc.failed -> IF inc.attempts >= MaxAttempts THEN "idle" ELSE "claim"
          [] ~ inc.notified /\ ~ inc.failed /\ inc.maint -> "idle"
          [] OTHER -> IF inc.suppressed THEN "held" ELSE "gate"

\* ... then the open incident, whose row is read once.
OpenIncidentFor(r) ==
    /\ pc[r] = "find"
    /\ \/ Opened = {} /\ Proceed(r, IF agg[r] = "down" THEN "open" ELSE "idle")
       \/ Opened # {} /\ agg[r] = "up" /\ Proceed(r, "resolve")
       \/ \E i \in Opened :
            /\ agg[r] = "down"
            /\ IF Settle(i) = "idle" THEN Return(r)
               ELSE /\ Goto(r, Settle(i)) /\ id' = [id EXCEPT ![r] = i]
                    /\ todo' = [todo EXCEPT ![r] = IF Settle(i) = "log" THEN incidents[i].channels ELSE {}]
                    /\ UNCHANGED <<want, agg, won, sent, err>>
    /\ UNCHANGED <<db, world, observed, upsets>>

----------------------------------------------------------------------------
(* openIncident and settleHeldIncident                                      *)

\* Another handler opened the incident: created is false.
Conflict(r) == Return(r)

\* INSERT ... ON CONFLICT DO NOTHING on the open incident of the monitor.  The one who
\* created it alarms at once, unless a window or a parent holds the alarm.  With fails,
\* the questions about them failed and hold nothing.
OpenIncident(r, fails) ==
    /\ pc[r] = "open"
    /\ IF fails THEN Upset ELSE UNCHANGED upsets
    /\ IF Opened # {}
       THEN Conflict(r) /\ UNCHANGED <<incidents, log, fresh, observed>>
       ELSE LET new == CHOOSE i \in Finished : TRUE
            IN  /\ Forget({new}, [incidents EXCEPT ![new] = NewIncident(maint /\ ~ fails)])
                /\ IF (maint \/ parent # "none") /\ ~ fails THEN Return(r)
                   ELSE /\ Goto(r, "claim") /\ id' = [id EXCEPT ![r] = new]
                        /\ UNCHANGED <<want, agg, todo, won, sent, err>>
    /\ UNCHANGED <<config, st, late, world>>

\* Is the parent of a suppressed incident still down?  A failed answer says so.
Held(r, fails) ==
    /\ pc[r] = "held"
    /\ IF fails THEN Upset ELSE UNCHANGED upsets
    /\ Proceed(r, IF parent = "down" \/ fails THEN "idle" ELSE "clear")
    /\ UNCHANGED <<db, world, observed>>

ClearSuppressedByDep(r) ==
    /\ pc[r] = "clear"
    /\ incidents' = [incidents EXCEPT ![id[r]].suppressed = FALSE]
    /\ Proceed(r, "gate")
    /\ UNCHANGED <<config, st, log, fresh, late, world, observed, upsets>>

\* Is the parent of the others down?  A failed answer says no.  The alarm waits for
\* SettleGrace, so that a parent that falls with its child has time to.
Gate(r, fails) ==
    /\ pc[r] = "gate"
    /\ IF fails THEN Upset ELSE UNCHANGED upsets
    /\ Proceed(r, IF parent = "down" /\ ~ fails THEN "suppress"
                  ELSE IF incidents[id[r]].old THEN "claim" ELSE "idle")
    /\ UNCHANGED <<db, world, observed>>

MarkSuppressedByDep(r) ==
    /\ pc[r] = "suppress"
    /\ incidents' = [incidents EXCEPT ![id[r]].suppressed = TRUE]
    /\ Return(r)
    /\ UNCHANGED <<config, st, log, fresh, late, world, observed, upsets>>

----------------------------------------------------------------------------
(* notifyOpen                                                               *)

\* A claim that is never given up.
WinnableOnce(i) == {c \in Channels : <<i, c>> \notin log}

\* ClaimStepChannelsWithLease: the rows this call inserted, or took over.
Winnable(i) == {c \in Channels : <<i, c>> \notin fresh}

\* OpenStep0Channels and the claim.  Dispatch will see the channels that are deliverable
\* when it starts.  A claim on an incident that was resolved meanwhile is an alarm after the
\* end.
ClaimStepChannelsWithLease(r) ==
    /\ pc[r] = "claim"
    /\ LET w == Winnable(id[r])
       IN  /\ log' = log \cup At(id[r], w) /\ fresh' = fresh \cup At(id[r], w)
           /\ IF w = {} THEN Return(r)
              ELSE /\ Goto(r, "send")
                   /\ won' = [won EXCEPT ![r] = w]
                   /\ todo' = [todo EXCEPT ![r] = w \cap deliverable]
                   /\ UNCHANGED <<want, agg, id, sent, err>>
           /\ excused' = excused \cup {x \in At(id[r], w) : ~ incidents[id[r]].open}
    /\ UNCHANGED <<config, st, incidents, late, world, alarms, recoveries, owed, upsets>>

\* Either fails: MarkNotifyOpenFailed.
ClaimError(r) ==
    /\ pc[r] = "claim"
    /\ Upset
    /\ Goto(r, "send") /\ err' = [err EXCEPT ![r] = TRUE]
    /\ UNCHANGED <<db, world, want, agg, id, todo, won, sent, observed>>

\* EnqueueIdempotent with the key uptime:open:<id>:<channel>.
Alarmed(i, c) == Larger(alarms[<<i, c>>], 1)

\* Dispatch: one channel.
NotifyOpenStep0(r, c) ==
    /\ pc[r] = "send" /\ NextOf(todo[r], c)
    /\ alarms' = [alarms EXCEPT ![<<id[r], c>>] = Alarmed(id[r], c)]
    /\ todo' = [todo EXCEPT ![r] = @ \ {c}] /\ sent' = [sent EXCEPT ![r] = @ \cup {c}]
    /\ UNCHANGED <<db, world, pc, want, agg, id, won, err, recoveries, owed, excused, upsets>>

\* Its Enqueue fails, with or without effect.
NotifyError(r, c, applied) ==
    /\ pc[r] = "send" /\ NextOf(todo[r], c)
    /\ Upset
    /\ IF applied THEN /\ alarms' = [alarms EXCEPT ![<<id[r], c>>] = Alarmed(id[r], c)]
                       /\ excused' = excused \cup {<<id[r], c>>}
       ELSE UNCHANGED <<alarms, excused>>
    /\ todo' = [todo EXCEPT ![r] = @ \ {c}] /\ err' = [err EXCEPT ![r] = TRUE]
    /\ UNCHANGED <<db, world, pc, want, agg, id, won, sent, recoveries, owed>>

Unsent(r) == At(id[r], won[r] \ sent[r])

\* ReleaseStepChannels for the channels that were not enqueued, when there are any.  It also
\* takes the row of a channel that an earlier attempt has alarmed.
Release(r, fails) ==
    /\ pc[r] = "send" /\ todo[r] = {} /\ Unsent(r) # {}
    /\ IF fails THEN Upset /\ excused' = excused \cup Unsent(r) /\ UNCHANGED <<log, fresh>>
       ELSE /\ log' = log \ Unsent(r) /\ fresh' = fresh \ Unsent(r)
            /\ excused' = excused \cup {x \in Unsent(r) : alarms[x] > 0}
            /\ UNCHANGED upsets
    /\ won' = [won EXCEPT ![r] = sent[r]]
    /\ UNCHANGED <<config, st, incidents, late, world, pc, want, agg, id, todo, sent, err,
                   alarms, recoveries, owed>>

\* SetNotifyOpenChannels with the channels of this call alone, when there are any.
Saved(r) == IF sent[r] = {} THEN incidents[id[r]].channels ELSE sent[r]

\* SetNotifyOpenChannels and then MarkNotifyOpenFailed after an error, MarkNotified(true)
\* without, MarkNotifyOpenFailed when that fails.  Failing are "none", "save", "mark" or
\* "both" marks; nobody acts on the channels of an incident that is not marked.
MarkNotified(r, failing) ==
    /\ pc[r] = "send" /\ todo[r] = {} /\ Unsent(r) = {}
    /\ IF failing = "none" THEN UNCHANGED upsets ELSE Upset
    /\ LET row == [incidents[id[r]] EXCEPT !.channels = IF failing = "save" THEN @ ELSE Saved(r)]
       IN  incidents' = [incidents EXCEPT ![id[r]] =
             IF failing = "both" \/ (failing = "mark" /\ err[r]) THEN row
             ELSE IF failing = "mark" \/ err[r]
             THEN [row EXCEPT !.failed = TRUE, !.attempts = @ + 1]
             ELSE [row EXCEPT !.notified = TRUE, !.failed = FALSE]]
    /\ Return(r)
    /\ UNCHANGED <<config, st, log, fresh, late, world, observed>>

----------------------------------------------------------------------------
(* resolveIncident                                                          *)

\* retryStepZeroLog: LogStepChannels for the channels read with the incident, which may
\* be repeated, then ClearNotifyOpenChannels.  maxLogFailureAttempts is out of the bounds.
RetryStepZeroLog(r, fails) ==
    /\ pc[r] = "log"
    /\ IF fails THEN Upset /\ UNCHANGED <<log, fresh, incidents>>
       ELSE /\ log' = log \cup At(id[r], todo[r])
            /\ fresh' = fresh \cup (At(id[r], todo[r]) \ log)
            /\ incidents' = [incidents EXCEPT ![id[r]].channels = {}]
            /\ UNCHANGED upsets
    /\ Proceed(r, IF agg[r] = "up" THEN "channels" ELSE "idle")
    /\ UNCHANGED <<config, st, late, world, observed>>

\* A recovery is owed when the alarm went out.
Owed(inc) == ~ inc.maint /\ inc.notified

\* An UPDATE that also takes an incident already resolved.
ResolvableAgain == {i \in Ids : incidents[i] # NoIncident}

\* ResolveIncident: UPDATE ... WHERE resolved_at IS NULL RETURNING the row.
Resolvable == Opened

ResolveIncident(r) ==
    /\ pc[r] = "resolve"
    /\ \/ Resolvable = {} /\ Return(r) /\ UNCHANGED <<incidents, owed>>
       \/ \E i \in Resolvable :
            /\ owed' = IF Owed(incidents[i]) THEN owed \cup {i} ELSE owed
            /\ incidents' = [incidents EXCEPT ![i].open = FALSE]
            /\ IF ~ Owed(incidents[i]) THEN Return(r)
               ELSE /\ Goto(r, IF incidents[i].channels = {} THEN "channels" ELSE "log")
                    /\ id' = [id EXCEPT ![r] = i]
                    /\ todo' = [todo EXCEPT ![r] = incidents[i].channels]
                    /\ UNCHANGED <<want, agg, won, sent, err>>
    /\ UNCHANGED <<config, st, log, fresh, late, world, alarms, recoveries, excused, upsets>>

\* The channels of the row, which each attempt overwrites and retryStepZeroLog clears.
RecoverySaved(i) == incidents[i].channels

\* escalation.RecoveryChannels: the channels with a claim that was not released.
RecoveryChannels(i) == {c \in Channels : <<i, c>> \in log}

\* RecoveryChannels, and NotifyRecovery to those of them that are deliverable now.  A claim
\* that another handler has yet to send is taken for an alarm.
ReadRecoveryChannels(r) ==
    /\ pc[r] = "channels"
    /\ LET chs == RecoveryChannels(id[r]) \cap deliverable
       IN  IF chs = {} THEN Return(r)
           ELSE /\ Goto(r, "recover") /\ todo' = [todo EXCEPT ![r] = chs]
                /\ UNCHANGED <<want, agg, id, won, sent, err>>
    /\ excused' = excused \cup At(id[r], RecoveryChannels(id[r]) \ deliverable)
                          \cup UNION {Unsent(q) : q \in {q \in Regions : id[q] = id[r]}}
    /\ UNCHANGED <<db, world, alarms, recoveries, upsets, owed>>

\* NotifyRecovery: one channel.  After the last, MarkNotified(false) sets notified_close,
\* which nobody reads.
NotifyRecovery(r, c, fails) ==
    /\ pc[r] = "recover" /\ NextOf(todo[r], c)
    /\ IF todo[r] = {c} THEN Return(r)
       ELSE /\ todo' = [todo EXCEPT ![r] = @ \ {c}]
            /\ UNCHANGED <<pc, want, agg, id, won, sent, err>>
    /\ IF fails THEN /\ Upset /\ UNCHANGED recoveries
                     /\ excused' = excused \cup {<<id[r], c>>}
       ELSE /\ recoveries' = [recoveries EXCEPT ![<<id[r], c>>] = @ + 1]
            /\ UNCHANGED <<excused, upsets>>
    /\ UNCHANGED <<db, world, alarms, owed>>

----------------------------------------------------------------------------
(* Around the handlers                                                      *)

\* A statement fails and the handler returns, or its process dies.
Crash(r) ==
    /\ pc[r] # "idle"
    /\ Upset
    /\ excused' = excused \cup At(id[r], IF id[r] = 0 THEN {} ELSE Channels)
    /\ Return(r)
    /\ UNCHANGED <<db, world, alarms, recoveries, owed>>

\* The claims whose handlers have not finished sending.
Sending == UNION {At(id[r], won[r]) : r \in Regions}

\* The claims left behind on incidents that were not alarmed; those on the others are
\* claimed again only by a handler that stalls.
LeftBehind == {x \in fresh \ Sending : incidents[x[1]].open /\ ~ incidents[x[1]].notified}

\* notifyOpenLease passes since a claim was left behind.
LeaseExpires ==
    /\ LeftBehind # {}
    /\ fresh' = fresh \ LeftBehind
    /\ UNCHANGED <<config, st, incidents, log, late, world, pc, memory, observed, upsets>>

\* It passes while a handler is at work on the incident.
LeaseOutlived ==
    /\ \E x \in fresh : Working(x[1])
    /\ Upset
    /\ fresh' = {}
    /\ excused' = excused \cup {x \in Ids \X Channels : Working(x[1])}
    /\ UNCHANGED <<config, st, incidents, log, late, world, pc, memory, alarms, recoveries, owed>>

\* SettleGrace passes since started_at, which is of interest until the alarm went out.
GracePasses(i) ==
    /\ i \in Opened /\ ~ incidents[i].old /\ ~ incidents[i].notified
    /\ incidents' = [incidents EXCEPT ![i].old = TRUE]
    /\ UNCHANGED <<config, st, log, fresh, late, world, pc, memory, observed, upsets>>

\* escalation.Scheduler: releaseSuppressed with OpenSuppressed and ClearSuppressed.
ReleaseSuppressed(i) ==
    /\ i \in Opened /\ incidents[i].suppressed /\ parent # "down"
    /\ incidents' = [incidents EXCEPT ![i].suppressed = FALSE]
    /\ UNCHANGED <<config, st, log, fresh, late, world, pc, memory, observed, upsets>>

\* Service.Update with other regions: the states of the removed ones are deleted.
UpdateRegions(S) ==
    /\ Upset /\ S # {} /\ S # config
    /\ config' = S
    /\ st' = [r \in Regions |-> IF r \in S THEN st[r] ELSE "unknown"]
    /\ late' = late \cup {<<r, Cardinality(config)>> : r \in {q \in config : pc[q] = "idle"}}
    /\ UNCHANGED <<incidents, log, fresh, world, pc, memory, observed>>

\* The operator disables or enables a channel, a window opens or closes, the parent changes.
WorldChanges ==
    /\ Upset
    /\ \/ \E c \in Channels :
            /\ deliverable' = (deliverable \ {c}) \cup ({c} \ deliverable)
            /\ UNCHANGED <<maint, parent>>
       \/ maint' = ~ maint /\ UNCHANGED <<parent, deliverable>>
       \/ /\ parent # "none"
          /\ parent' \in Parents \ {"none", parent}
          /\ UNCHANGED <<maint, deliverable>>
    /\ UNCHANGED <<db, pc, memory, observed>>

Result(r) == \E n \in 1 .. Cardinality(Regions), s \in {"up", "down"} : ApplyResult(r, n, s)

Handle(r) ==
    \/ ReadStates(r) \/ OpenIncidentFor(r) \/ OpenIncident(r, FALSE)
    \/ Held(r, FALSE) \/ ClearSuppressedByDep(r) \/ Gate(r, FALSE) \/ MarkSuppressedByDep(r)
    \/ ClaimStepChannelsWithLease(r)
    \/ \E c \in Channels : NotifyOpenStep0(r, c) \/ NotifyRecovery(r, c, FALSE)
    \/ Release(r, FALSE) \/ MarkNotified(r, "none") \/ RetryStepZeroLog(r, FALSE)
    \/ ResolveIncident(r) \/ ReadRecoveryChannels(r)

Fails(r) ==
    \/ OpenIncident(r, TRUE) \/ Held(r, TRUE) \/ Gate(r, TRUE) \/ ClaimError(r)
    \/ \E c \in Channels : NotifyRecovery(r, c, TRUE)
    \/ \E c \in Channels, applied \in BOOLEAN : NotifyError(r, c, applied)
    \/ Release(r, TRUE) \/ \E f \in {"save", "mark", "both"} : MarkNotified(r, f)
    \/ RetryStepZeroLog(r, TRUE) \/ Crash(r)

Next ==
    \/ \E r \in Regions : Result(r) \/ Handle(r) \/ Fails(r)
    \/ LeaseExpires \/ LeaseOutlived
    \/ \E i \in Ids : GracePasses(i) \/ ReleaseSuppressed(i)
    \/ \E S \in SUBSET Regions : UpdateRegions(S)
    \/ WorldChanges

\* Checks recur (Scheduler.Run), calls have timeouts, time passes.
Fairness ==
    /\ \A r \in Regions : WF_vars(r \in config /\ Result(r)) /\ WF_vars(Handle(r))
    /\ WF_vars(LeaseExpires) /\ WF_vars(\E i \in Ids : GracePasses(i))

Spec == Init /\ [][Next]_vars /\ Fairness

----------------------------------------------------------------------------
(* Properties                                                               *)

\* Handlers that both see the monitor up send one recovery between them, and none to a
\* channel that saw no alarm, but for a claim that another handler had in hand (excused).
NoStrayRecovery ==
    \A x \in DOMAIN recoveries :
        /\ recoveries[x] <= 1
        /\ x \notin excused => recoveries[x] <= alarms[x]

\* An incident is resolved after its alarm went out: when nobody works on it any more,
\* the channels that saw the alarm have seen the recovery, but for those excused.
AlarmedIsTold ==
    \A i \in owed : \A c \in Channels :
        (~ Working(i) /\ alarms[<<i, c>>] > 0 /\ <<i, c>> \notin excused)
        => recoveries[<<i, c>>] > 0

\* The verdict on the monitor as its regions stand.
Verdict == Aggregate(config, Cardinality(config))

\* Handlers open and resolve from states that others have overtaken; they may disagree
\* with the regions for a while, but cannot come to rest so.
IncidentFollowsStates == []<>(Opened # {} <=> Verdict = "down")

\* Its alarm is due: no window, no parent that is down, attempts left.
Unalarmed(i) ==
    LET inc == incidents[i]
    IN  /\ inc.open /\ ~ inc.maint /\ parent # "down"
        /\ ~ inc.notified /\ inc.attempts < MaxAttempts

\* An incident whose alarm is due does not stay so: crashes, claims left behind and
\* suppression that is over only delay it.
DownIsAlarmed == []<>(\A i \in Ids : ~ Unalarmed(i))
=============================================================================
