---------------------------- MODULE UptimeQueue ----------------------------
(***************************************************************************)
(* internal/uptime, from the schedule of a check to the state it leaves:   *)
(* Schedule puts a job per region into check_queue, runners of several     *)
(* replicas and remote probes lease it, run the check, and claim the job   *)
(* before they apply its result to monitor_state.  Every statement is a    *)
(* step of its own.  Monitors share nothing here, so one is enough.        *)
(***************************************************************************)
EXTENDS Integers, FiniteSets, Sequences, Functions

CONSTANTS
    Regions, LocalRegion,
    Runners,            \* checks of uptime.Runner, of all replicas
    Probes, ProbeRegion,
    Handlers,           \* concurrent POST /probe/results
    Interval,           \* interval_seconds
    Lease,              \* interval_seconds * 2 + retries * (timeout_seconds + 1)
    FailThreshold, RecoveryThreshold,
    MaxBatch,           \* bound: results in one POST /probe/results
    MaxJobs,            \* bound: jobs ever scheduled
    MaxEdits,           \* bound: Update and SetEnabled calls
    MaxFaults           \* bound: crashes, failed statements, overslept leases

ASSUME UptimeQueueAssumption ==
    /\ IsFiniteSet(Regions) /\ LocalRegion \in Regions
    /\ ProbeRegion \in [Probes -> Regions]
    /\ Interval \in Nat \ {0} /\ Lease \in Nat /\ Lease >= 2 * Interval
    /\ FailThreshold \in Nat \ {0} /\ RecoveryThreshold \in Nat \ {0}
    /\ MaxBatch \in Nat /\ MaxJobs \in Nat /\ MaxEdits \in Nat /\ MaxFaults \in Nat
    /\ Runners \cap Probes = {}

VARIABLES
    (* monitors, monitor_regions *)
    now, enabled, regions, lastScheduled,
    (* check_queue and monitor_state, by region *)
    queue, nextId, state,
    (* the memory of runners, probes and handlers *)
    run, held, req,
    (* observations *)
    applied,    \* applied[id]: how often a result of the job was applied
    seen,       \* results applied to the region's row of monitor_state
    lastLease,  \* lastLease[id]: the job's last lease_until
    edits, faults

monitor == <<now, enabled, regions, lastScheduled>>
tables == <<queue, nextId, state>>
memory == <<run, held, req>>
observed == <<applied, seen, lastLease, edits, faults>>
vars == <<monitor, tables, memory, observed>>

Jobs == 1 .. MaxJobs
Null == 0                       \* lease_until IS NULL
Local == "local"                \* leased_by IS NULL
NoRow == [id |-> 0, lease |-> Null, by |-> Local]
NoState == [status |-> "none", fails |-> 0, oks |-> 0, at |-> 0]
NoRun == [phase |-> "idle", id |-> 0, lease |-> Null, ok |-> FALSE, at |-> 0]
NoReq == [phase |-> "idle", probe |-> Local, todo |-> <<>>, jobs |-> {}, claimed |-> {}, at |-> 0]

Row == [id : Jobs \cup {0}, lease : Nat, by : Probes \cup {Local}]
State == [status : {"none", "unknown", "up", "down"}, fails : Nat, oks : Nat, at : Nat]
Leased == [id : Jobs, region : Regions, lease : Nat]

\* The tables and the processes' memory have their types, a state row has a
\* status, and no two regions hold the same job.
TypeOK ==
    /\ now \in Nat /\ enabled \in BOOLEAN /\ regions \in (SUBSET Regions) \ {{}}
    /\ lastScheduled \in Int /\ lastScheduled <= now
    /\ queue \in [Regions -> Row] /\ nextId \in 1 .. MaxJobs + 1
    /\ state \in [Regions -> State]
    /\ \A r \in Regions : state[r].status = "none" => state[r] = NoState
    /\ run \in [Runners -> [phase : {"idle", "leased", "checked", "claimed"}, id : Jobs \cup {0},
                            lease : Nat, ok : BOOLEAN, at : Nat]]
    /\ held \in [Probes -> SUBSET Jobs]
    /\ \A h \in Handlers :
        /\ req[h].phase \in {"idle", "sent", "looked", "claimed", "stamped"}
        /\ req[h].jobs \subseteq Leased /\ req[h].claimed \subseteq Jobs
    /\ \A r \in Regions : queue[r] # NoRow => queue[r].id < nextId
    /\ \A r, s \in Regions : queue[r].id = queue[s].id => r = s \/ queue[r] = NoRow
    /\ applied \in [Jobs -> Nat] /\ lastLease \in [Jobs -> Nat]
    /\ edits \in 0 .. MaxEdits /\ faults \in 0 .. MaxFaults

Init ==
    /\ now = 1 /\ enabled = TRUE /\ regions = {LocalRegion}
    /\ lastScheduled = -Interval
    /\ queue = [r \in Regions |-> NoRow] /\ nextId = 1
    /\ state = [r \in Regions |-> NoState]
    /\ run = [w \in Runners |-> NoRun]
    /\ held = [p \in Probes |-> {}]
    /\ req = [h \in Handlers |-> NoReq]
    /\ applied = [i \in Jobs |-> 0] /\ seen = [r \in Regions |-> {}]
    /\ lastLease = [i \in Jobs |-> Null]
    /\ edits = 0 /\ faults = 0

-----------------------------------------------------------------------------
(* The queue (queue.go) and the monitor's settings (service.go). *)

Due == enabled /\ now >= lastScheduled + Interval

\* The regions that get a job: ON CONFLICT (monitor_id, region) DO NOTHING.
Missing == {r \in regions : queue[r] = NoRow}

Schedule ==
    LET numbers == nextId .. nextId + Cardinality(Missing) - 1
        id == CHOOSE f \in Bijection(Missing, numbers) : TRUE
    IN  /\ Due /\ Missing # {}
        /\ nextId + Cardinality(Missing) <= MaxJobs + 1
        /\ queue' = [r \in Regions |-> IF r \in Missing THEN [NoRow EXCEPT !.id = id[r]]
                                                        ELSE queue[r]]
        /\ nextId' = nextId + Cardinality(Missing)
        /\ lastScheduled' = now
        /\ UNCHANGED <<now, enabled, regions, state, memory, observed>>

\* An expired lease is not given out again.
LeasableOnce(r) == queue[r] # NoRow /\ queue[r].lease = Null

Leasable(r) == queue[r] # NoRow /\ (queue[r].lease = Null \/ queue[r].lease < now)

\* One row of a batch; a batch is a run of these steps.
LeaseRow(r, by) ==
    /\ Leasable(r)
    /\ queue' = [queue EXCEPT ![r].lease = now + Lease, ![r].by = by]
    /\ lastLease' = [lastLease EXCEPT ![queue[r].id] = now + Lease]

LeaseLocal(w) ==
    /\ run[w].phase = "idle"
    /\ LeaseRow(LocalRegion, Local)
    /\ run' = [run EXCEPT ![w] = [NoRun EXCEPT !.phase = "leased", !.id = queue[LocalRegion].id,
                                               !.lease = now + Lease]]
    /\ UNCHANGED <<monitor, nextId, state, held, req, applied, seen, edits, faults>>

LeaseForProbe(p) ==
    /\ LeaseRow(ProbeRegion[p], p)
    /\ held' = [held EXCEPT ![p] = @ \cup {queue[ProbeRegion[p]].id}]
    /\ UNCHANGED <<monitor, nextId, state, run, req, applied, seen, edits, faults>>

\* Update drops the queue rows and the states of the regions it takes away.
Update(S) ==
    /\ edits < MaxEdits /\ S # regions
    /\ regions' = S
    /\ queue' = [r \in Regions |-> IF r \in S THEN queue[r] ELSE NoRow]
    /\ state' = [r \in Regions |-> IF r \in S THEN state[r] ELSE NoState]
    /\ seen' = [r \in Regions |-> IF r \in S THEN seen[r] ELSE {}]
    /\ edits' = edits + 1
    /\ UNCHANGED <<now, enabled, lastScheduled, nextId, memory, applied, lastLease, faults>>

SetEnabled ==
    /\ edits < MaxEdits
    /\ enabled' = ~enabled /\ edits' = edits + 1
    /\ UNCHANGED <<now, regions, lastScheduled, tables, memory, applied, seen, lastLease, faults>>

-----------------------------------------------------------------------------
(* monitor_state (state.go). *)

\* The first result keeps the status the row does not have yet.
VerdictKept(s, ok) ==
    CASE ~ok /\ s.fails + 1 >= FailThreshold -> "down"
      [] ok /\ s.oks + 1 >= RecoveryThreshold -> "up"
      [] OTHER -> s.status

\* The threshold is met one failure early.
VerdictEarly(s, ok) ==
    CASE ~ok /\ s.fails + 2 >= FailThreshold -> "down"
      [] ok /\ s.oks + 1 >= RecoveryThreshold -> "up"
      [] OTHER -> IF s = NoState THEN "unknown" ELSE s.status

Verdict(s, ok) ==
    CASE ~ok /\ s.fails + 1 >= FailThreshold -> "down"
      [] ok /\ s.oks + 1 >= RecoveryThreshold -> "up"
      [] OTHER -> IF s = NoState THEN "unknown" ELSE s.status

\* A late result is counted, as if it were the newest.
CountedLate(s, ok, at) ==
    [status |-> Verdict(s, ok), fails |-> IF ok THEN 0 ELSE s.fails + 1,
     oks |-> IF ok THEN s.oks + 1 ELSE 0, at |-> IF at < s.at THEN s.at ELSE at]

\* A result older than the last one counted changes nothing.
Counted(s, ok, at) ==
    IF s # NoState /\ at < s.at
    THEN s
    ELSE [status |-> Verdict(s, ok), fails |-> IF ok THEN 0 ELSE s.fails + 1,
          oks |-> IF ok THEN s.oks + 1 ELSE 0, at |-> at]

ApplyResult(r, id, ok, at) ==
    /\ state' = [state EXCEPT ![r] = Counted(@, ok, at)]
    /\ applied' = [applied EXCEPT ![id] = @ + 1]
    /\ seen' = [seen EXCEPT ![r] = @ \cup {[id |-> id, ok |-> ok, at |-> at]}]

-----------------------------------------------------------------------------
(* A check of a runner (runner.go) and what the Ingestor does with its     *)
(* result (ingest.go).                                                     *)

Check(w) ==
    /\ run[w].phase = "leased"
    /\ \E ok \in BOOLEAN :
        run' = [run EXCEPT ![w].phase = "checked", ![w].ok = ok, ![w].at = now]
    /\ UNCHANGED <<monitor, tables, held, req, observed>>

\* The claim does not compare the lease.
ClaimableById(j, r) == queue[r].id = j.id

\* DELETE ... WHERE id = $1 AND lease_until = $2
Claimable(j, r) == queue[r].id = j.id /\ queue[r].lease = j.lease

ClaimJob(w) ==
    /\ run[w].phase = "checked"
    /\ IF Claimable(run[w], LocalRegion)
       THEN /\ queue' = [queue EXCEPT ![LocalRegion] = NoRow]
            /\ run' = [run EXCEPT ![w].phase = "claimed"]
       ELSE /\ run' = [run EXCEPT ![w] = NoRun]
            /\ UNCHANGED queue
    /\ UNCHANGED <<monitor, nextId, state, held, req, observed>>

AcceptClaimed(w) ==
    /\ run[w].phase = "claimed"
    /\ ApplyResult(LocalRegion, run[w].id, run[w].ok, run[w].at)
    /\ run' = [run EXCEPT ![w] = NoRun]
    /\ UNCHANGED <<monitor, queue, nextId, held, req, lastLease, edits, faults>>

\* The replica dies, is shut down before the check answered, or a statement
\* of Accept fails: the result is gone.
LoseRun(w) ==
    /\ run[w].phase # "idle" /\ faults < MaxFaults
    /\ run' = [run EXCEPT ![w] = NoRun] /\ faults' = faults + 1
    /\ UNCHANGED <<monitor, tables, held, req, applied, seen, lastLease, edits>>

-----------------------------------------------------------------------------
(* A remote probe (probeclient.go) and POST /probe/results (probeapi.go).  *)
(* The probe knows job ids, never leases; a batch may name a job twice.    *)

Batches(p) == UNION {[1 .. n -> [id : held[p], ok : BOOLEAN]] : n \in 1 .. MaxBatch}

PostResults(p, h) ==
    /\ req[h].phase = "idle" /\ held[p] # {}
    /\ \E b \in Batches(p) :
        /\ {b[k].id : k \in DOMAIN b} = held[p]
        /\ req' = [req EXCEPT ![h] = [NoReq EXCEPT !.phase = "sent", !.probe = p, !.todo = b]]
    /\ held' = [held EXCEPT ![p] = {}]
    /\ UNCHANGED <<monitor, tables, run, observed>>

\* The probe dies with the jobs it holds.
LoseProbe(p) ==
    /\ held[p] # {} /\ faults < MaxFaults
    /\ held' = [held EXCEPT ![p] = {}] /\ faults' = faults + 1
    /\ UNCHANGED <<monitor, tables, run, req, applied, seen, lastLease, edits>>

Named(h) == {req[h].todo[k].id : k \in DOMAIN req[h].todo}

LeasedJobs(h) ==
    /\ req[h].phase = "sent"
    /\ req' = [req EXCEPT ![h].phase = "looked", ![h].jobs =
        {[id |-> queue[r].id, region |-> r, lease |-> queue[r].lease] : r \in
            {r \in Regions : /\ queue[r].id \in Named(h)
                             /\ queue[r].by = req[h].probe /\ queue[r].lease > now}}]
    /\ UNCHANGED <<monitor, tables, run, held, observed>>

ClaimJobs(h) ==
    LET won == {j \in req[h].jobs : Claimable(j, j.region)}
    IN  /\ req[h].phase = "looked"
        /\ queue' = [r \in Regions |-> IF \E j \in won : j.region = r THEN NoRow ELSE queue[r]]
        /\ req' = [req EXCEPT ![h].phase = "claimed", ![h].claimed = {j.id : j \in won}]
        /\ UNCHANGED <<monitor, nextId, state, run, held, observed>>

\* The next result: rejected or dropped, or its turn to be applied.
NextResult(h) ==
    /\ req[h].phase = "claimed" /\ req[h].todo # <<>>
    /\ req' = IF Head(req[h].todo).id \in req[h].claimed
              THEN [req EXCEPT ![h].phase = "stamped", ![h].at = now]
              ELSE [req EXCEPT ![h].todo = Tail(@)]
    /\ UNCHANGED <<monitor, tables, run, held, observed>>

\* A second result of the same job in the batch is let through too.
SpentNever(claimed, id) == claimed

\* A claim is used up by the result it let through.
Spent(claimed, id) == claimed \ {id}

RegionOf(h, id) == (CHOOSE j \in req[h].jobs : j.id = id).region

AcceptResult(h) ==
    LET res == Head(req[h].todo)
    IN  /\ req[h].phase = "stamped"
        /\ ApplyResult(RegionOf(h, res.id), res.id, res.ok, req[h].at)
        /\ req' = [req EXCEPT ![h].phase = "claimed", ![h].todo = Tail(@), ![h].at = 0,
                              ![h].claimed = Spent(@, res.id)]
        /\ UNCHANGED <<monitor, queue, nextId, run, held, lastLease, edits, faults>>

Respond(h) ==
    /\ req[h].phase = "claimed" /\ req[h].todo = <<>>
    /\ req' = [req EXCEPT ![h] = NoReq]
    /\ UNCHANGED <<monitor, tables, run, held, observed>>

\* The request is lost, its context is cancelled or a statement fails: one
\* result, or all that are left, are gone.
LoseResults(h) ==
    /\ req[h].phase # "idle" /\ faults < MaxFaults
    /\ \/ req' = [req EXCEPT ![h] = NoReq]
       \/ /\ req[h].phase = "stamped"
          /\ req' = [req EXCEPT ![h].phase = "claimed", ![h].todo = Tail(@), ![h].at = 0,
                                ![h].claimed = @ \ {Head(req[h].todo).id}]
    /\ faults' = faults + 1
    /\ UNCHANGED <<monitor, tables, run, held, applied, seen, lastLease, edits>>

-----------------------------------------------------------------------------
(* Time. *)

Unexpired(r) == queue[r].lease >= now

\* Somebody still means to answer for the job in time.
Alive(r) ==
    \/ \E w \in Runners : run[w].phase \in {"leased", "checked"} /\ run[w].lease = queue[r].lease
                                           /\ run[w].id = queue[r].id
    \/ \E p \in Probes : queue[r].id \in held[p] /\ queue[r].by = p
    \/ \E h \in Handlers : /\ req[h].phase \in {"sent", "looked"} /\ req[h].probe = queue[r].by
                           /\ queue[r].id \in Named(h)

\* A lease is longer than a check with its retries (timeout < interval), so
\* it is up for a live holder only by a fault.  The clock stops when
\* neither a lease nor the schedule waits for it.
Tick ==
    LET late == \E r \in Regions : queue[r].lease = now + 1 /\ Alive(r)
    IN  /\ \/ \E r \in Regions : queue[r].lease # Null /\ Unexpired(r)
           \/ enabled /\ ~Due /\ nextId <= MaxJobs
        /\ late => faults < MaxFaults
        /\ now' = now + 1
        /\ faults' = faults + (IF late THEN 1 ELSE 0)
        /\ UNCHANGED <<enabled, regions, lastScheduled, tables, memory,
                       applied, seen, lastLease, edits>>

Next ==
    \/ Schedule
    \/ \E S \in (SUBSET Regions) \ {{}} : Update(S)
    \/ SetEnabled
    \/ \E w \in Runners :
        LeaseLocal(w) \/ Check(w) \/ ClaimJob(w) \/ AcceptClaimed(w) \/ LoseRun(w)
    \/ \E p \in Probes : LeaseForProbe(p) \/ LoseProbe(p)
    \/ \E p \in Probes, h \in Handlers : PostResults(p, h)
    \/ \E h \in Handlers :
        \/ LeasedJobs(h) \/ ClaimJobs(h) \/ NextResult(h) \/ AcceptResult(h)
        \/ Respond(h) \/ LoseResults(h)
    \/ Tick

\* Runners and live probes answer, and time goes on: what dies is a fault.
Fairness ==
    /\ \A w \in Runners : /\ WF_vars(LeaseLocal(w)) /\ WF_vars(Check(w))
                          /\ WF_vars(ClaimJob(w)) /\ WF_vars(AcceptClaimed(w))
    /\ \A p \in Probes : WF_vars(\E h \in Handlers : PostResults(p, h))
    /\ \A h \in Handlers : /\ WF_vars(LeasedJobs(h)) /\ WF_vars(ClaimJobs(h))
                           /\ WF_vars(NextResult(h)) /\ WF_vars(AcceptResult(h))
                           /\ WF_vars(Respond(h))
    /\ WF_vars(Tick)

Spec == Init /\ [][Next]_vars /\ Fairness

-----------------------------------------------------------------------------
(* Properties. *)

\* A job's result reaches ApplyResult at most once, whoever leased the job
\* and however often: the claim is the exactly-once gate of queue.go.
AppliedOnce == \A i \in Jobs : applied[i] <= 1

\* Whoever won a claim won it on the job's last lease: a runner or a request
\* overtaken by a re-lease never takes the job away from its new holder.
LastLeaseWins ==
    /\ \A w \in Runners : run[w].phase = "claimed" => run[w].lease = lastLease[run[w].id]
    /\ \A h \in Handlers : \A j \in req[h].jobs :
        j.id \in req[h].claimed => j.lease = lastLease[j.id]

\* The state's series agrees with the newest result that was applied, in
\* whatever order the results came in.
NewestResultWins ==
    \A r \in Regions : state[r] # NoState =>
        /\ \A x \in seen[r] : x.at <= state[r].at
        /\ \E x \in seen[r] : x.at = state[r].at /\ x.ok = (state[r].oks > 0)
                                                 /\ x.ok = (state[r].fails = 0)

\* "down" rests on FailThreshold failed checks of the region, each a job of
\* its own.
DownIsEarned ==
    \A r \in Regions : state[r].status = "down" =>
        Cardinality({x.id : x \in {y \in seen[r] : ~y.ok}}) >= FailThreshold

\* A job of the local region is eventually answered or dropped, even when its
\* holder dies: it never blocks the region's schedule for good.
JobsSettle ==
    \A i \in Jobs : queue[LocalRegion].id = i ~> queue[LocalRegion].id # i
=============================================================================
