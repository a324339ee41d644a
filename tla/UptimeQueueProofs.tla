-------------------------- MODULE UptimeQueueProofs --------------------------
(***************************************************************************)
(* Proofs about UptimeQueue for any regions, runners, probes and           *)
(* concurrent requests, any thresholds and leases, and any bounds.         *)
(***************************************************************************)
EXTENDS UptimeQueue, FiniteSetTheorems, TLAPS

Run == [phase : {"idle", "leased", "checked", "claimed"}, id : Jobs \cup {0},
        lease : Nat, ok : BOOLEAN, at : Nat]

Result == [id : Jobs, ok : BOOLEAN]

Request == [phase : {"idle", "sent", "looked", "claimed", "stamped"}, probe : Probes \cup {Local},
            todo : Seq(Result), jobs : SUBSET Leased, claimed : SUBSET Jobs, at : Nat]

Applied == [id : Jobs, ok : BOOLEAN, at : Nat]

MonitorOK ==
    /\ now \in Nat /\ enabled \in BOOLEAN /\ regions \in (SUBSET Regions) \ {{}}
    /\ lastScheduled \in Int /\ lastScheduled <= now
    /\ held \in [Probes -> SUBSET Jobs]
    /\ edits \in 0 .. MaxEdits /\ faults \in 0 .. MaxFaults

QueueOK ==
    /\ queue \in [Regions -> Row] /\ nextId \in 1 .. MaxJobs + 1
    /\ \A r \in Regions : queue[r].id < nextId /\ (queue[r].id = 0 => queue[r] = NoRow)
    /\ \A r, s \in Regions : queue[r].id = queue[s].id => r = s \/ queue[r].id = 0

StateOK ==
    /\ state \in [Regions -> State]
    /\ \A r \in Regions : state[r].status = "none" => state[r] = NoState

RunOK ==
    /\ run \in [Runners -> Run]
    /\ \A w \in Runners : run[w].phase # "idle" => run[w].id \in 1 .. nextId - 1

\* A request knows one lease of each job that it names, and it claims no others.
Sound(q) ==
    /\ q.phase \in {"idle", "sent", "looked"} => q.claimed = {}
    /\ \A i \in q.claimed : \E j \in q.jobs : j.id = i
    /\ \A j, k \in q.jobs : j.id = k.id => j = k
    /\ q.phase = "stamped" => q.todo # <<>> /\ Head(q.todo).id \in q.claimed
    /\ \A j \in q.jobs : j.id < nextId

ReqOK == req \in [Handlers -> Request] /\ \A h \in Handlers : Sound(req[h])

CountOK ==
    /\ applied \in [Jobs -> Nat] /\ lastLease \in [Jobs -> Nat]
    /\ seen \in [Regions -> SUBSET Applied]

TypeInv == MonitorOK /\ QueueOK /\ StateOK /\ RunOK /\ ReqOK /\ CountOK

RowHas(r, i) == queue[r].id = i
RunnerHas(w, i) == run[w].phase = "claimed" /\ run[w].id = i
HandlerHas(h, i) == i \in req[h].claimed

\* A job is in one place: not yet scheduled, in its row, with the runner or with the
\* request that claimed it, or applied (or lost).
OnePlace(i) ==
    /\ applied[i] <= 1
    /\ i >= nextId => applied[i] = 0 /\ lastLease[i] = Null
    /\ \A r \in Regions : RowHas(r, i) =>
        /\ applied[i] = 0
        /\ \A w \in Runners : ~RunnerHas(w, i)
        /\ \A h \in Handlers : ~HandlerHas(h, i)
    /\ \A w \in Runners : RunnerHas(w, i) =>
        /\ applied[i] = 0
        /\ \A v \in Runners : RunnerHas(v, i) => v = w
        /\ \A h \in Handlers : ~HandlerHas(h, i)
    /\ \A h \in Handlers : HandlerHas(h, i) =>
        /\ applied[i] = 0
        /\ \A g \in Handlers : HandlerHas(g, i) => g = h

\* A row carries the last lease of its job.
RowLease == \A r \in Regions : queue[r].id # 0 => queue[r].lease = lastLease[queue[r].id]

ClaimInv == (\A i \in Jobs : OnePlace(i)) /\ RowLease /\ LastLeaseWins

FailedIds(r) == {x.id : x \in {y \in seen[r] : ~y.ok}}

\* A region's state counts results that were applied to it, each once.
StateInv ==
    /\ \A r \in Regions : \A x \in seen[r] : applied[x.id] > 0
    /\ \A r \in Regions : state[r] = NoState => seen[r] = {}
    /\ \A r \in Regions : state[r].fails <= Cardinality(FailedIds(r))
    /\ NewestResultWins /\ DownIsEarned

IInv == TypeInv /\ ClaimInv /\ StateInv

-----------------------------------------------------------------------------
(* What the sub-steps do, pointwise.                                        *)

\* The types that TypeOK names.
LEMMA TypeInvImplies == TypeInv => TypeOK
<1> SUFFICES ASSUME TypeInv PROVE TypeOK
    OBVIOUS
<1>1. \A r \in Regions : queue[r] # NoRow => queue[r].id < nextId
    BY DEF TypeInv, QueueOK
<1>2. \A r, s \in Regions : queue[r].id = queue[s].id => r = s \/ queue[r] = NoRow
    BY DEF TypeInv, QueueOK
<1>3. \A h \in Handlers :
        /\ req[h].phase \in {"idle", "sent", "looked", "claimed", "stamped"}
        /\ req[h].jobs \subseteq Leased /\ req[h].claimed \subseteq Jobs
    BY DEF TypeInv, ReqOK, Request
<1> QED BY <1>1, <1>2, <1>3
        DEF TypeInv, TypeOK, MonitorOK, QueueOK, StateOK, RunOK, Run, CountOK

\* The memory of one runner is replaced.
LEMMA RunPut ==
    ASSUME RunOK, nextId' = nextId, NEW w \in Runners, NEW x \in Run,
           run' = [run EXCEPT ![w] = x],
           x.phase # "idle" => x.id \in 1 .. nextId - 1
    PROVE  RunOK' /\ \A v \in Runners : run'[v] = IF v = w THEN x ELSE run[v]
<1>1. run' \in [Runners -> Run] /\ \A v \in Runners : run'[v] = IF v = w THEN x ELSE run[v]
    BY DEF RunOK
<1> QED BY <1>1 DEF RunOK

\* A request is replaced.
LEMMA ReqPut ==
    ASSUME ReqOK, nextId' = nextId, NEW h \in Handlers, NEW x \in Request, Sound(x),
           req' = [req EXCEPT ![h] = x]
    PROVE  ReqOK' /\ \A g \in Handlers : req'[g] = IF g = h THEN x ELSE req[g]
<1>1. req' \in [Handlers -> Request] /\ \A g \in Handlers : req'[g] = IF g = h THEN x ELSE req[g]
    BY DEF ReqOK
<1>2. ASSUME NEW g \in Handlers PROVE Sound(req'[g])
    BY <1>1 DEF ReqOK
<1> QED BY <1>1, <1>2 DEF ReqOK, Sound

\* The idle runner and the idle request.
LEMMA IdleTypes == NoRun \in Run /\ NoReq \in Request /\ Sound(NoReq) /\ NoRow \in Row /\ NoState \in State
<1>1. NoRun \in Run
    BY DEF NoRun, Run, Null
<1>2. NoReq \in Request
    BY DEF NoReq, Request, Local
<1>3. Sound(NoReq)
    BY DEF NoReq, Sound
<1>4. NoRow \in Row /\ NoState \in State
    BY DEF NoRow, Row, NoState, State, Null, Local
<1> QED BY <1>1, <1>2, <1>3, <1>4

\* A lease changes the lease of one row and of its job.
LEMMA LeaseRowEffect ==
    ASSUME TypeInv, nextId' = nextId, NEW r0 \in Regions, NEW by \in Probes \cup {Local}, LeaseRow(r0, by)
    PROVE  /\ queue[r0].id \in Jobs /\ queue[r0].id < nextId
           /\ QueueOK' /\ now + Lease \in Nat
           /\ \A r \in Regions : /\ queue'[r].id = queue[r].id
                                 /\ queue'[r].lease = IF r = r0 THEN now + Lease ELSE queue[r].lease
           /\ lastLease' \in [Jobs -> Nat]
           /\ \A i \in Jobs : lastLease'[i] = IF i = queue[r0].id THEN now + Lease ELSE lastLease[i]
<1>1. now + Lease \in Nat
    BY UptimeQueueAssumption DEF TypeInv, MonitorOK
<1>2. queue[r0].id \in Jobs /\ queue[r0].id < nextId
    BY DEF TypeInv, QueueOK, LeaseRow, Leasable, Row
<1>3. queue' = [queue EXCEPT ![r0].lease = now + Lease, ![r0].by = by]
    BY DEF LeaseRow
<1>4. queue' \in [Regions -> Row]
    BY <1>1, <1>3 DEF TypeInv, QueueOK, Row
<1>5. \A r \in Regions : /\ queue'[r].id = queue[r].id
                         /\ queue'[r].lease = IF r = r0 THEN now + Lease ELSE queue[r].lease
    BY <1>3 DEF TypeInv, QueueOK, Row
<1>6. \A r \in Regions \ {r0} : queue'[r] = queue[r]
    BY <1>3 DEF TypeInv, QueueOK
<1>7. QueueOK'
    BY <1>2, <1>4, <1>5, <1>6 DEF TypeInv, QueueOK, Jobs
<1>8. /\ lastLease' \in [Jobs -> Nat]
      /\ \A i \in Jobs : lastLease'[i] = IF i = queue[r0].id THEN now + Lease ELSE lastLease[i]
    BY <1>1, <1>2 DEF TypeInv, CountOK, LeaseRow
<1> QED BY <1>1, <1>2, <1>5, <1>7, <1>8

\* Claims that only go away, and rows that only go away, leave every job in one place.
LEMMA ClaimsShrink ==
    ASSUME \A i \in Jobs : OnePlace(i), UNCHANGED <<applied, nextId, lastLease>>,
           \A r \in Regions, i \in Jobs : RowHas(r, i)' => RowHas(r, i),
           \A w \in Runners, i \in Jobs : RunnerHas(w, i)' => RunnerHas(w, i),
           \A h \in Handlers, i \in Jobs : HandlerHas(h, i)' => HandlerHas(h, i)
    PROVE  \A i \in Jobs : OnePlace(i)'
BY DEF OnePlace

\* A job that has not been given out is nowhere.
LEMMA NotYetScheduled ==
    ASSUME TypeInv, NEW i \in Jobs, i >= nextId
    PROVE  /\ \A w \in Runners : ~RunnerHas(w, i)
           /\ \A h \in Handlers : ~HandlerHas(h, i)
<1>1. nextId \in Nat /\ i \in Nat
    BY UptimeQueueAssumption DEF TypeInv, QueueOK, Jobs
<1>2. ASSUME NEW w \in Runners PROVE ~RunnerHas(w, i)
    BY <1>1 DEF TypeInv, RunOK, RunnerHas
<1>3. ASSUME NEW h \in Handlers PROVE ~HandlerHas(h, i)
    BY <1>1 DEF TypeInv, ReqOK, Sound, HandlerHas, Request, Leased, Jobs
<1> QED BY <1>2, <1>3

-----------------------------------------------------------------------------
(* monitor_state.                                                           *)

\* What ApplyResult makes of a row.
LEMMA CountedRow ==
    ASSUME NEW s \in State, s.status = "none" => s = NoState, NEW ok \in BOOLEAN, NEW at \in Nat
    PROVE  /\ Counted(s, ok, at) \in State
           /\ Counted(s, ok, at).status # "none"
           /\ \/ s # NoState /\ at < s.at /\ Counted(s, ok, at) = s
              \/ /\ s = NoState \/ at >= s.at
                 /\ Counted(s, ok, at).at = at
                 /\ Counted(s, ok, at).fails = IF ok THEN 0 ELSE s.fails + 1
                 /\ Counted(s, ok, at).oks = IF ok THEN s.oks + 1 ELSE 0
                 /\ Counted(s, ok, at).status = "down" =>
                        (~ok /\ s.fails + 1 >= FailThreshold) \/ s.status = "down"
<1>1. s.fails \in Nat /\ s.oks \in Nat /\ s.at \in Nat /\ s.status \in {"none", "unknown", "up", "down"}
    BY DEF State
<1>2. CASE s # NoState /\ at < s.at
    BY <1>2 DEF Counted
<1>3. CASE ~(s # NoState /\ at < s.at)
    <2>1. Verdict(s, ok) \in {"unknown", "up", "down"}
        BY <1>1 DEF Verdict
    <2>2. Verdict(s, ok) = "down" => (~ok /\ s.fails + 1 >= FailThreshold) \/ s.status = "down"
        BY <1>1 DEF Verdict, NoState
    <2>3. Counted(s, ok, at) = [status |-> Verdict(s, ok), fails |-> IF ok THEN 0 ELSE s.fails + 1,
                                oks |-> IF ok THEN s.oks + 1 ELSE 0, at |-> at]
        BY <1>3 DEF Counted
    <2>4. Counted(s, ok, at) \in State
        BY <1>1, <2>1, <2>3 DEF State
    <2> QED BY <1>1, <1>3, <2>1, <2>2, <2>3, <2>4
<1> QED BY <1>2, <1>3

\* Failed jobs can be counted.
LEMMA FailedFinite ==
    ASSUME TypeInv, NEW r \in Regions
    PROVE  /\ FailedIds(r) \subseteq Jobs /\ IsFiniteSet(FailedIds(r))
           /\ Cardinality(FailedIds(r)) \in Nat
<1>1. FailedIds(r) \in SUBSET Jobs
    BY DEF TypeInv, CountOK, FailedIds, Applied
<1>2. IsFiniteSet(Jobs)
    BY UptimeQueueAssumption, FS_Interval DEF Jobs
<1> QED BY <1>1, <1>2, FS_Subset, FS_CardinalityType

\* ApplyResult of a job that was not applied before.
LEMMA ApplyResultEffect ==
    ASSUME TypeInv, StateInv, NEW r \in Regions, NEW id \in Jobs, NEW ok \in BOOLEAN, NEW at \in Nat,
           applied[id] = 0, ApplyResult(r, id, ok, at)
    PROVE  /\ StateOK' /\ StateInv'
           /\ seen' \in [Regions -> SUBSET Applied] /\ applied' \in [Jobs -> Nat]
           /\ \A i \in Jobs : applied'[i] = IF i = id THEN 1 ELSE applied[i]
<1> DEFINE s == state[r]
           x == [id |-> id, ok |-> ok, at |-> at]
<1>1. applied' \in [Jobs -> Nat] /\ \A i \in Jobs : applied'[i] = IF i = id THEN 1 ELSE applied[i]
    BY DEF TypeInv, CountOK, ApplyResult
<1>2. x \in Applied
    BY DEF Applied
<1>3. /\ seen' \in [Regions -> SUBSET Applied]
      /\ \A q \in Regions : seen'[q] = IF q = r THEN seen[r] \cup {x} ELSE seen[q]
    <2> HIDE DEF x
    <2>1. seen' = [seen EXCEPT ![r] = @ \cup {x}]
        BY DEF ApplyResult, x
    <2> QED BY <1>2, <2>1 DEF TypeInv, CountOK
<1>4. s \in State /\ (s.status = "none" => s = NoState)
    BY DEF TypeInv, StateOK
<1>5. /\ state' \in [Regions -> State]
      /\ \A q \in Regions : state'[q] = IF q = r THEN Counted(s, ok, at) ELSE state[q]
    BY <1>4, CountedRow DEF TypeInv, StateOK, ApplyResult
<1>6. /\ Counted(s, ok, at).status # "none"
      /\ \/ s # NoState /\ at < s.at /\ Counted(s, ok, at) = s
         \/ /\ s = NoState \/ at >= s.at
            /\ Counted(s, ok, at).at = at
            /\ Counted(s, ok, at).fails = IF ok THEN 0 ELSE s.fails + 1
            /\ Counted(s, ok, at).oks = IF ok THEN s.oks + 1 ELSE 0
            /\ Counted(s, ok, at).status = "down" =>
                   (~ok /\ s.fails + 1 >= FailThreshold) \/ s.status = "down"
    BY <1>4, CountedRow
<1>7. s.fails \in Nat /\ s.oks \in Nat /\ s.at \in Nat
    BY <1>4 DEF State
<1> HIDE DEF s
<1>8. state'[r].status # "none"
    BY <1>5, <1>6
<1>9. StateOK'
    BY <1>5, <1>8 DEF TypeInv, StateOK
<1>10. \A q \in Regions : \A y \in seen'[q] : applied'[y.id] > 0
    <2>1. \A q \in Regions : \A y \in seen[q] : y.id \in Jobs
        BY DEF TypeInv, CountOK, Applied
    <2> QED BY <1>1, <1>3, <2>1 DEF StateInv, TypeInv, CountOK
<1>11. \A q \in Regions : state'[q] = NoState => seen'[q] = {}
    BY <1>3, <1>5, <1>8 DEF StateInv, NoState
<1>12. NewestResultWins'
    <2> SUFFICES ASSUME NEW q \in Regions, state'[q] # NoState
                 PROVE  /\ \A y \in seen'[q] : y.at <= state'[q].at
                        /\ \E y \in seen'[q] : /\ y.at = state'[q].at /\ y.ok = (state'[q].oks > 0)
                                               /\ y.ok = (state'[q].fails = 0)
        BY DEF NewestResultWins
    <2>1. CASE q # r
        BY <1>3, <1>5, <2>1 DEF StateInv, NewestResultWins
    <2>2. CASE q = r /\ s # NoState /\ at < s.at /\ Counted(s, ok, at) = s
        BY <1>3, <1>5, <1>7, <2>2 DEF StateInv, NewestResultWins, s
    <2>3. CASE /\ q = r /\ (s = NoState \/ at >= s.at)
               /\ Counted(s, ok, at).at = at
               /\ Counted(s, ok, at).fails = IF ok THEN 0 ELSE s.fails + 1
               /\ Counted(s, ok, at).oks = IF ok THEN s.oks + 1 ELSE 0
        <3>1. \A y \in seen[r] : y.at \in Nat
            BY DEF TypeInv, CountOK, Applied
        <3>2. \A y \in seen[r] : y.at <= at
            BY <1>7, <2>3, <3>1 DEF StateInv, NewestResultWins, s
        <3>3. \A y \in seen'[q] : y.at <= state'[q].at
            BY <1>3, <1>5, <2>3, <3>2
        <3>4. x \in seen'[q] /\ x.at = state'[q].at
            BY <1>3, <1>5, <2>3
        <3>5. x.ok = (state'[q].oks > 0) /\ x.ok = (state'[q].fails = 0)
            BY <1>5, <1>7, <2>3
        <3> QED BY <3>3, <3>4, <3>5
    <2> QED BY <1>6, <2>1, <2>2, <2>3
<1>13. id \notin FailedIds(r)
    BY DEF StateInv, FailedIds, TypeInv, CountOK, Applied
<1>14. FailedIds(r)' = IF ok THEN FailedIds(r) ELSE FailedIds(r) \cup {id}
    <2>1. {y \in seen'[r] : ~y.ok} = {y \in seen[r] : ~y.ok} \cup (IF ok THEN {} ELSE {x})
        BY <1>3
    <2> HIDE DEF x
    <2>2. x.id = id
        BY DEF x
    <2> QED BY <2>1, <2>2 DEF FailedIds
<1>15. \A q \in Regions \ {r} : FailedIds(q)' = FailedIds(q)
    BY <1>3 DEF FailedIds
<1>16. Cardinality(FailedIds(r)') = Cardinality(FailedIds(r)) + (IF ok THEN 0 ELSE 1)
    <2>1. IsFiniteSet(FailedIds(r)) /\ Cardinality(FailedIds(r)) \in Nat
        BY FailedFinite
    <2>2. Cardinality(FailedIds(r) \cup {id}) = Cardinality(FailedIds(r)) + 1
        BY <1>13, <2>1, FS_AddElement
    <2> QED BY <1>14, <2>1, <2>2
<1>17. ASSUME NEW q \in Regions
       PROVE  /\ state'[q].fails <= Cardinality(FailedIds(q)')
              /\ state'[q].status = "down" => Cardinality(FailedIds(q)') >= FailThreshold
    <2>1. /\ state[q].fails <= Cardinality(FailedIds(q)) /\ Cardinality(FailedIds(q)) \in Nat
          /\ state[q].status = "down" => Cardinality(FailedIds(q)) >= FailThreshold
        BY FailedFinite DEF StateInv, DownIsEarned, FailedIds
    <2>2. CASE q # r
        BY <1>5, <1>15, <2>1, <2>2
    <2>3. CASE q = r
        BY <1>5, <1>6, <1>7, <1>16, <2>1, <2>3, UptimeQueueAssumption DEF s
    <2> QED BY <2>2, <2>3
<1>18. DownIsEarned'
    BY <1>17 DEF DownIsEarned, FailedIds
<1> QED BY <1>1, <1>3, <1>9, <1>10, <1>11, <1>12, <1>17, <1>18 DEF StateInv

-----------------------------------------------------------------------------
(* The schedule and the settings.                                           *)

\* The ids of a schedule are new and distinct.
LEMMA FreshIds ==
    ASSUME NEW S, IsFiniteSet(S), NEW a \in Nat,
           NEW id, id = CHOOSE f \in Bijection(S, a .. a + Cardinality(S) - 1) : TRUE
    PROVE  /\ \A x \in S : id[x] \in a .. a + Cardinality(S) - 1
           /\ \A x, y \in S : id[x] = id[y] => x = y
<1> DEFINE T == a .. a + Cardinality(S) - 1
<1>1. Cardinality(S) \in Nat
    BY FS_CardinalityType
<1>2. IsFiniteSet(T) /\ Cardinality(T) = Cardinality(S)
    <2>1. a + Cardinality(S) - 1 \in Int /\ a \in Int
        BY <1>1
    <2>2. /\ IsFiniteSet(T)
          /\ Cardinality(T) = IF a > a + Cardinality(S) - 1 THEN 0 ELSE (a + Cardinality(S) - 1) - a + 1
        BY <2>1, FS_Interval
    <2> QED BY <1>1, <2>2
<1>3. Bijection(S, T) # {}
    BY <1>2, FS_SameCardinalityBij DEF ExistsBijection
<1>4. id \in Bijection(S, T)
    BY <1>3
<1> QED BY <1>4 DEF Bijection, Injection, Surjection, IsInjective

\* Schedule gives every missing region a job of its own that was nowhere before.
LEMMA ScheduleStep ==
    ASSUME IInv, Schedule
    PROVE  IInv'
<1> DEFINE n == Cardinality(Missing)
           id == CHOOSE f \in Bijection(Missing, nextId .. nextId + n - 1) : TRUE
<1> USE DEF IInv, TypeInv
<1>1. Missing \subseteq Regions /\ IsFiniteSet(Missing) /\ n \in Nat
    <2>1. Missing \in SUBSET Regions
        BY DEF Missing, MonitorOK
    <2> QED BY <2>1, UptimeQueueAssumption, FS_Subset, FS_CardinalityType
<1>2. nextId \in Nat \ {0} /\ nextId' = nextId + n /\ nextId' <= MaxJobs + 1 /\ nextId' \in Nat
    BY <1>1, UptimeQueueAssumption DEF Schedule, QueueOK
<1>3. /\ \A r \in Missing : id[r] \in nextId .. nextId' - 1
      /\ \A r, s \in Missing : id[r] = id[s] => r = s
    BY <1>1, <1>2, FreshIds
<1>4. queue' = [r \in Regions |-> IF r \in Missing THEN [NoRow EXCEPT !.id = id[r]] ELSE queue[r]]
    BY DEF Schedule
<1> HIDE DEF id, n
<1>5. \A r \in Missing : id[r] \in Jobs
    BY <1>2, <1>3, UptimeQueueAssumption DEF Jobs
<1>6. \A r \in Missing : /\ queue[r].id = 0
                          /\ queue'[r] \in Row /\ queue'[r].id = id[r] /\ queue'[r].lease = Null
    BY <1>1, <1>4, <1>5 DEF Missing, NoRow, Row, Null, Local
<1>7. \A r \in Regions \ Missing : queue'[r] = queue[r]
    BY <1>4
<1>8. queue' \in [Regions -> Row]
    BY <1>4, <1>6, <1>7 DEF QueueOK
<1>9. \A r \in Regions : queue[r].id \in Nat /\ queue[r].id < nextId
    BY DEF QueueOK, Row, Jobs
<1>10. QueueOK'
    <2>1. \A r \in Regions : queue'[r].id < nextId' /\ (queue'[r].id = 0 => queue'[r] = NoRow)
        BY <1>1, <1>2, <1>3, <1>6, <1>7, <1>9 DEF QueueOK
    <2>2. \A r, s \in Regions : queue'[r].id = queue'[s].id => r = s \/ queue'[r].id = 0
        BY <1>2, <1>3, <1>6, <1>7, <1>9 DEF QueueOK
    <2>3. nextId' \in 1 .. MaxJobs + 1
        BY <1>1, <1>2, UptimeQueueAssumption
    <2> QED BY <1>8, <2>1, <2>2, <2>3 DEF QueueOK
<1>11. MonitorOK' /\ StateOK' /\ CountOK'
    BY DEF Schedule, MonitorOK, StateOK, CountOK, memory, observed
<1>12. RunOK'
    BY <1>1, <1>2 DEF Schedule, RunOK, Run, Jobs, memory
<1>13. ReqOK'
    <2>1. ASSUME NEW h \in Handlers PROVE Sound(req[h])'
        <3>1. Sound(req[h]) /\ req' = req
            BY DEF ReqOK, Schedule, memory
        <3>2. \A j \in req[h].jobs : j.id \in Nat
            BY DEF ReqOK, Request, Leased, Jobs
        <3> QED BY <1>1, <1>2, <3>1, <3>2 DEF Sound
    <2> QED BY <2>1 DEF ReqOK, Schedule, memory
<1>14. \A i \in Jobs : OnePlace(i)'
    <2>1. ASSUME NEW i \in Jobs, NEW r \in Regions, RowHas(r, i)' PROVE RowHas(r, i) \/ i >= nextId
        BY <1>2, <1>3, <1>6, <1>7, <2>1 DEF RowHas
    <2>2. ASSUME NEW i \in Jobs, i >= nextId' PROVE i >= nextId
        BY <1>1, <1>2, <2>2 DEF Jobs
    <2>3. /\ \A w \in Runners, i \in Jobs : RunnerHas(w, i)' <=> RunnerHas(w, i)
          /\ \A h \in Handlers, i \in Jobs : HandlerHas(h, i)' <=> HandlerHas(h, i)
          /\ applied' = applied /\ lastLease' = lastLease
        BY DEF Schedule, RunnerHas, HandlerHas, memory, observed
    <2> QED BY <2>1, <2>2, <2>3, NotYetScheduled DEF ClaimInv, OnePlace
<1>15. RowLease'
    <2>1. lastLease' = lastLease
        BY DEF Schedule, observed
    <2>2. \A r \in Missing : lastLease[id[r]] = Null
        BY <1>2, <1>3, <1>5 DEF ClaimInv, OnePlace
    <2> QED BY <1>6, <1>7, <2>1, <2>2 DEF ClaimInv, RowLease
<1>16. LastLeaseWins'
    BY DEF Schedule, ClaimInv, LastLeaseWins, memory, observed
<1>17. StateInv'
    BY DEF Schedule, StateInv, NewestResultWins, DownIsEarned, FailedIds, observed
<1> QED BY <1>10, <1>11, <1>12, <1>13, <1>14, <1>15, <1>16, <1>17 DEF ClaimInv

\* Update drops rows and states.
LEMMA UpdateStep ==
    ASSUME IInv, NEW S \in (SUBSET Regions) \ {{}}, Update(S)
    PROVE  IInv'
<1> USE DEF IInv, TypeInv
<1>1. \A r \in Regions : queue'[r] = IF r \in S THEN queue[r] ELSE NoRow
    BY DEF Update
<1>2. NoRow.id = 0 /\ NoRow \in Row
    BY IdleTypes DEF NoRow
<1>3. QueueOK'
    <2>1. queue' \in [Regions -> Row]
        BY <1>2 DEF Update, QueueOK
    <2>2. \A r \in Regions : queue'[r].id < nextId' /\ (queue'[r].id = 0 => queue'[r] = NoRow)
        BY <1>1, <1>2, UptimeQueueAssumption DEF Update, QueueOK
    <2>3. \A r, s \in Regions : queue'[r].id = queue'[s].id => r = s \/ queue'[r].id = 0
        BY <1>1, <1>2 DEF QueueOK
    <2> QED BY <2>1, <2>2, <2>3 DEF Update, QueueOK
<1>4. MonitorOK'
    BY UptimeQueueAssumption DEF Update, MonitorOK, memory
<1>5. RunOK' /\ ReqOK'
    BY DEF Update, RunOK, ReqOK, Sound, memory
<1>6. StateOK'
    BY IdleTypes DEF Update, StateOK
<1>7. CountOK'
    BY DEF Update, CountOK
<1>8. \A i \in Jobs : OnePlace(i)'
    <2>1. \A r \in Regions, i \in Jobs : RowHas(r, i)' => RowHas(r, i)
        BY <1>1, <1>2 DEF RowHas, Jobs
    <2>2. /\ \A w \in Runners, i \in Jobs : RunnerHas(w, i)' => RunnerHas(w, i)
          /\ \A h \in Handlers, i \in Jobs : HandlerHas(h, i)' => HandlerHas(h, i)
        BY DEF Update, RunnerHas, HandlerHas, memory
    <2> QED BY <2>1, <2>2, ClaimsShrink DEF Update, ClaimInv
<1>9. RowLease'
    BY <1>1, <1>2 DEF Update, ClaimInv, RowLease
<1>10. LastLeaseWins'
    BY DEF Update, ClaimInv, LastLeaseWins, memory
<1>11. StateInv'
    <2>1. \A r \in Regions : state'[r] = (IF r \in S THEN state[r] ELSE NoState)
        BY DEF Update
    <2>2. \A r \in Regions : seen'[r] = (IF r \in S THEN seen[r] ELSE {})
        BY DEF Update
    <2>3. NoState.fails = 0 /\ NoState.status # "down" /\ Cardinality({}) = 0
        BY FS_EmptySet DEF NoState
    <2>4. \A r \in Regions : state'[r].fails <= Cardinality(FailedIds(r)')
        <3>1. ASSUME NEW r \in Regions, r \in S PROVE FailedIds(r)' = FailedIds(r)
            BY <2>2, <3>1 DEF FailedIds
        <3>2. ASSUME NEW r \in Regions, r \notin S PROVE FailedIds(r)' = {}
            BY <2>2, <3>2 DEF FailedIds
        <3>3. ASSUME NEW r \in Regions, r \in S PROVE state'[r].fails <= Cardinality(FailedIds(r)')
            BY <2>1, <3>1, <3>3 DEF StateInv
        <3>4. ASSUME NEW r \in Regions, r \notin S PROVE state'[r].fails <= Cardinality(FailedIds(r)')
            <4>1. state'[r].fails = 0
                BY <2>1, <2>3, <3>4
            <4>2. Cardinality(FailedIds(r)') = 0
                BY <2>3, <3>2, <3>4
            <4> QED BY <4>1, <4>2
        <3> QED BY <3>3, <3>4
    <2>5. NewestResultWins'
        BY <2>1, <2>2 DEF StateInv, NewestResultWins
    <2>6. DownIsEarned'
        <3>1. ASSUME NEW r \in Regions, state'[r].status = "down" PROVE r \in S
            BY <2>1, <2>3, <3>1
        <3> QED BY <2>1, <2>2, <3>1 DEF StateInv, DownIsEarned
    <2>7. /\ \A r \in Regions : \A x \in seen'[r] : applied'[x.id] > 0
          /\ \A r \in Regions : state'[r] = NoState => seen'[r] = {}
        BY <2>1, <2>2 DEF StateInv, Update
    <2> QED BY <2>4, <2>5, <2>6, <2>7 DEF StateInv
<1> QED BY <1>3, <1>4, <1>5, <1>6, <1>7, <1>8, <1>9, <1>10, <1>11 DEF ClaimInv

\* SetEnabled and time touch no job.
LEMMA QuietStep ==
    ASSUME IInv, SetEnabled \/ Tick \/ UNCHANGED vars
    PROVE  IInv'
<1> USE DEF IInv, TypeInv
<1>1. UNCHANGED <<tables, memory, applied, seen, lastLease>>
    BY DEF SetEnabled, Tick, vars, observed
<1>2. MonitorOK'
    <2>1. CASE SetEnabled
        BY <2>1, UptimeQueueAssumption DEF SetEnabled, MonitorOK, memory
    <2>2. CASE Tick
        BY <2>2, UptimeQueueAssumption DEF Tick, MonitorOK, memory
    <2>3. CASE UNCHANGED vars
        BY <2>3 DEF vars, monitor, memory, observed, MonitorOK
    <2> QED BY <2>1, <2>2, <2>3
<1>3. QueueOK' /\ StateOK' /\ RunOK' /\ ReqOK' /\ CountOK'
    BY <1>1 DEF tables, memory, QueueOK, StateOK, RunOK, ReqOK, Sound, CountOK
<1>4. ClaimInv'
    BY <1>1 DEF tables, memory, ClaimInv, OnePlace, RowLease, LastLeaseWins, RowHas, RunnerHas, HandlerHas
<1>5. StateInv'
    BY <1>1 DEF tables, StateInv, NewestResultWins, DownIsEarned, FailedIds
<1> QED BY <1>2, <1>3, <1>4, <1>5

-----------------------------------------------------------------------------
(* A runner.                                                                *)

\* A step that changes neither monitor_state nor the results keeps StateInv.
LEMMA StateKept ==
    ASSUME StateInv, UNCHANGED <<state, seen, applied>>
    PROVE  StateInv'
BY DEF StateInv, NewestResultWins, DownIsEarned, FailedIds

\* A lease takes a job away from whoever held it before, but from nobody who claimed it.
LEMMA LeaseClaims ==
    ASSUME TypeInv, ClaimInv, UNCHANGED <<nextId, applied, req>>,
           NEW r0 \in Regions, NEW by \in Probes \cup {Local}, LeaseRow(r0, by),
           \A w \in Runners : run'[w].phase = "claimed" => run'[w] = run[w]
    PROVE  ClaimInv'
<1>1. /\ queue[r0].id \in Jobs /\ queue[r0].id < nextId
      /\ \A r \in Regions : /\ queue'[r].id = queue[r].id
                            /\ queue'[r].lease = IF r = r0 THEN now + Lease ELSE queue[r].lease
      /\ \A i \in Jobs : lastLease'[i] = IF i = queue[r0].id THEN now + Lease ELSE lastLease[i]
    BY LeaseRowEffect
<1>2. nextId \in Nat
    BY UptimeQueueAssumption DEF TypeInv, QueueOK
<1>3. \A w \in Runners, i \in Jobs : RunnerHas(w, i)' => RunnerHas(w, i)
    BY DEF RunnerHas
<1>4. \A h \in Handlers, i \in Jobs : HandlerHas(h, i)' => HandlerHas(h, i)
    BY DEF HandlerHas
<1>5. \A r \in Regions, i \in Jobs : RowHas(r, i)' => RowHas(r, i)
    BY <1>1 DEF RowHas
<1>6. \A i \in Jobs : i >= nextId => lastLease'[i] = lastLease[i]
    BY <1>1, <1>2 DEF Jobs
<1>7. \A i \in Jobs : OnePlace(i)'
    BY <1>3, <1>4, <1>5, <1>6 DEF ClaimInv, OnePlace
<1>8. RowLease'
    BY <1>1 DEF ClaimInv, RowLease, TypeInv, QueueOK, Row
<1>9. \A i \in Jobs : (\E w \in Runners : RunnerHas(w, i)) \/ (\E h \in Handlers : HandlerHas(h, i))
                        => i # queue[r0].id
    BY <1>1 DEF ClaimInv, OnePlace, RowHas
<1>10. LastLeaseWins'
    <2>1. ASSUME NEW w \in Runners, run'[w].phase = "claimed"
          PROVE  run'[w].lease = lastLease'[run'[w].id]
        <3>1. run'[w] = run[w] /\ run[w].id \in Jobs
            BY <2>1, UptimeQueueAssumption DEF TypeInv, RunOK, QueueOK, Jobs
        <3>2. run[w].id # queue[r0].id
            BY <1>9, <2>1, <3>1 DEF RunnerHas
        <3> QED BY <1>1, <2>1, <3>1, <3>2 DEF ClaimInv, LastLeaseWins
    <2>2. ASSUME NEW h \in Handlers, NEW j \in req'[h].jobs, j.id \in req'[h].claimed
          PROVE  j.lease = lastLease'[j.id]
        <3>1. j.id \in Jobs
            BY <2>2 DEF TypeInv, ReqOK, Request
        <3>2. j.id # queue[r0].id
            BY <1>9, <2>2, <3>1 DEF HandlerHas
        <3> QED BY <1>1, <2>2, <3>1, <3>2 DEF ClaimInv, LastLeaseWins
    <2> QED BY <2>1, <2>2 DEF LastLeaseWins
<1> QED BY <1>7, <1>8, <1>10 DEF ClaimInv

\* A runner leases the local job.
LEMMA LeaseLocalStep ==
    ASSUME IInv, NEW w \in Runners, LeaseLocal(w)
    PROVE  IInv'
<1> DEFINE x == [NoRun EXCEPT !.phase = "leased", !.id = queue[LocalRegion].id, !.lease = now + Lease]
<1> USE DEF IInv, TypeInv
<1>1. /\ LeaseRow(LocalRegion, Local) /\ LocalRegion \in Regions
      /\ UNCHANGED <<monitor, nextId, state, held, req, applied, seen, edits, faults>>
      /\ run' = [run EXCEPT ![w] = x]
    BY UptimeQueueAssumption DEF LeaseLocal
<1>2. /\ queue[LocalRegion].id \in Jobs /\ queue[LocalRegion].id < nextId
      /\ QueueOK' /\ now + Lease \in Nat /\ lastLease' \in [Jobs -> Nat]
    BY <1>1, LeaseRowEffect
<1>3. x \in Run /\ x.phase = "leased" /\ x.id = queue[LocalRegion].id
    BY <1>2 DEF NoRun, Run, Null
<1> HIDE DEF x
<1>4. x.id \in 1 .. nextId - 1
    BY <1>2, <1>3, UptimeQueueAssumption DEF Jobs, QueueOK
<1>5. RunOK' /\ \A v \in Runners : run'[v] = IF v = w THEN x ELSE run[v]
    BY <1>1, <1>3, <1>4, RunPut
<1>6. MonitorOK' /\ StateOK' /\ ReqOK' /\ CountOK'
    BY <1>1, <1>2 DEF monitor, MonitorOK, StateOK, ReqOK, Sound, CountOK
<1>7. ClaimInv'
    BY <1>1, <1>3, <1>5, LeaseClaims
<1> QED BY <1>1, <1>2, <1>5, <1>6, <1>7, StateKept

\* A probe leases the job of its region.
LEMMA LeaseForProbeStep ==
    ASSUME IInv, NEW p \in Probes, LeaseForProbe(p)
    PROVE  IInv'
<1> USE DEF IInv, TypeInv
<1>1. /\ LeaseRow(ProbeRegion[p], p) /\ ProbeRegion[p] \in Regions
      /\ UNCHANGED <<monitor, nextId, state, run, req, applied, seen, edits, faults>>
      /\ held' = [held EXCEPT ![p] = @ \cup {queue[ProbeRegion[p]].id}]
    BY UptimeQueueAssumption DEF LeaseForProbe
<1>2. queue[ProbeRegion[p]].id \in Jobs /\ QueueOK' /\ lastLease' \in [Jobs -> Nat]
    BY <1>1, LeaseRowEffect
<1>3. MonitorOK'
    BY <1>1, <1>2 DEF monitor, MonitorOK
<1>4. StateOK' /\ RunOK' /\ ReqOK' /\ CountOK'
    BY <1>1, <1>2 DEF StateOK, RunOK, ReqOK, Sound, CountOK
<1>5. ClaimInv'
    BY <1>1, LeaseClaims
<1> QED BY <1>1, <1>2, <1>3, <1>4, <1>5, StateKept

\* Where a runner returns or goes on, and claims nothing, the jobs stay where they are.
LEMMA RunnerKeepsClaims ==
    ASSUME ClaimInv, UNCHANGED <<queue, nextId, req, applied, lastLease>>,
           \A w \in Runners : run'[w].phase = "claimed" => run'[w] = run[w]
    PROVE  ClaimInv'
<1>1. \A i \in Jobs : OnePlace(i)'
    <2>1. /\ \A r \in Regions, i \in Jobs : RowHas(r, i)' => RowHas(r, i)
          /\ \A w \in Runners, i \in Jobs : RunnerHas(w, i)' => RunnerHas(w, i)
          /\ \A h \in Handlers, i \in Jobs : HandlerHas(h, i)' => HandlerHas(h, i)
        BY DEF RowHas, RunnerHas, HandlerHas
    <2> QED BY <2>1, ClaimsShrink DEF ClaimInv
<1>2. RowLease' /\ LastLeaseWins'
    BY DEF ClaimInv, RowLease, LastLeaseWins
<1> QED BY <1>1, <1>2 DEF ClaimInv

\* The check of a runner answers.
LEMMA CheckStep ==
    ASSUME IInv, NEW w \in Runners, Check(w)
    PROVE  IInv'
<1> USE DEF IInv, TypeInv
<1>1. PICK ok \in BOOLEAN : run' = [run EXCEPT ![w].phase = "checked", ![w].ok = ok, ![w].at = now]
    BY DEF Check
<1> DEFINE x == [run[w] EXCEPT !.phase = "checked", !.ok = ok, !.at = now]
<1>2. run[w] \in Run /\ now \in Nat /\ run[w].phase = "leased"
    BY DEF RunOK, MonitorOK, Check
<1>3. x \in Run /\ x.phase = "checked" /\ x.id = run[w].id
    BY <1>2 DEF Run
<1>4. run' = [run EXCEPT ![w] = x]
    BY <1>1
<1> HIDE DEF x
<1>5. nextId' = nextId
    BY DEF Check, tables
<1>6. RunOK' /\ \A v \in Runners : run'[v] = IF v = w THEN x ELSE run[v]
    BY <1>2, <1>3, <1>4, <1>5, RunPut DEF RunOK
<1>7. MonitorOK' /\ QueueOK' /\ StateOK' /\ ReqOK' /\ CountOK'
    BY DEF Check, monitor, tables, observed, MonitorOK, QueueOK, StateOK, ReqOK, Sound, CountOK
<1>8. ClaimInv'
    BY <1>3, <1>6, RunnerKeepsClaims DEF Check, tables, observed
<1> QED BY <1>6, <1>7, <1>8, StateKept DEF Check, tables, observed

\* A runner that dies, or loses the claim, is idle and holds nothing.
LEMMA RunnerReturns ==
    ASSUME IInv, NEW w \in Runners, run' = [run EXCEPT ![w] = NoRun],
           UNCHANGED <<monitor, tables, held, req, applied, seen, lastLease, edits>>,
           faults' \in 0 .. MaxFaults
    PROVE  IInv'
<1> USE DEF IInv, TypeInv
<1>1. NoRun \in Run /\ NoRun.phase = "idle" /\ nextId' = nextId
    BY IdleTypes DEF NoRun, tables
<1>2. RunOK' /\ \A v \in Runners : run'[v] = IF v = w THEN NoRun ELSE run[v]
    BY <1>1, RunPut
<1>3. MonitorOK' /\ QueueOK' /\ StateOK' /\ ReqOK' /\ CountOK'
    BY DEF monitor, tables, MonitorOK, QueueOK, StateOK, ReqOK, Sound, CountOK
<1>4. ClaimInv'
    BY <1>1, <1>2, RunnerKeepsClaims DEF tables
<1> QED BY <1>2, <1>3, <1>4, StateKept DEF tables

\* The DELETE moves the job from its row to the runner, on the row's lease.
LEMMA ClaimJobStep ==
    ASSUME IInv, NEW w \in Runners, ClaimJob(w)
    PROVE  IInv'
<1> USE DEF IInv, TypeInv
<1>1. CASE ~Claimable(run[w], LocalRegion)
    BY <1>1, RunnerReturns DEF ClaimJob, tables, observed, MonitorOK
<1>2. CASE Claimable(run[w], LocalRegion)
    <2> DEFINE x == [run[w] EXCEPT !.phase = "claimed"]
    <2>1. run[w] \in Run /\ run[w].phase = "checked" /\ run[w].id \in 1 .. nextId - 1
        BY DEF ClaimJob, RunOK
    <2>2. x \in Run /\ x.phase = "claimed" /\ x.id = run[w].id /\ x.lease = run[w].lease
        BY <2>1 DEF Run
    <2>3. /\ run' = [run EXCEPT ![w] = x] /\ queue' = [queue EXCEPT ![LocalRegion] = NoRow]
          /\ UNCHANGED <<monitor, nextId, state, held, req, observed>>
        BY <1>2 DEF ClaimJob
    <2> HIDE DEF x
    <2>4. RunOK' /\ \A v \in Runners : run'[v] = IF v = w THEN x ELSE run[v]
        BY <2>1, <2>2, <2>3, RunPut
    <2>5. NoRow \in Row /\ NoRow.id = 0
        BY IdleTypes DEF NoRow
    <2>6. /\ queue' \in [Regions -> Row]
          /\ \A r \in Regions : queue'[r] = IF r = LocalRegion THEN NoRow ELSE queue[r]
        BY <2>3, <2>5 DEF QueueOK
    <2>7. QueueOK'
        BY <2>3, <2>5, <2>6, UptimeQueueAssumption DEF QueueOK
    <2>8. MonitorOK' /\ StateOK' /\ ReqOK' /\ CountOK'
        BY <2>3 DEF monitor, observed, MonitorOK, StateOK, ReqOK, Sound, CountOK
    <2>9. RowHas(LocalRegion, run[w].id) /\ LocalRegion \in Regions /\ run[w].id \in Jobs
        BY <1>2, <2>1, UptimeQueueAssumption DEF Claimable, RowHas, QueueOK, Jobs
    <2>10. \A i \in Jobs : OnePlace(i)'
        <3>1. \A r \in Regions, i \in Jobs : RowHas(r, i)' => RowHas(r, i) /\ r # LocalRegion
            BY <2>5, <2>6 DEF RowHas, Jobs
        <3>2. \A v \in Runners, i \in Jobs :
                RunnerHas(v, i)' <=> RunnerHas(v, i) \/ (v = w /\ i = run[w].id)
            BY <2>1, <2>2, <2>4 DEF RunnerHas
        <3>3. \A h \in Handlers, i \in Jobs : HandlerHas(h, i)' <=> HandlerHas(h, i)
            BY <2>3 DEF HandlerHas
        <3>4. \A r \in Regions : RowHas(r, run[w].id) => r = LocalRegion
            BY <2>1, <2>9 DEF RowHas, QueueOK
        <3>5. applied' = applied /\ nextId' = nextId /\ lastLease' = lastLease
            BY <2>3 DEF observed
        <3> QED BY <2>9, <3>1, <3>2, <3>3, <3>4, <3>5 DEF ClaimInv, OnePlace
    <2>11. RowLease'
        BY <2>3, <2>5, <2>6 DEF ClaimInv, RowLease, observed
    <2>12. LastLeaseWins'
        <3>1. run[w].lease = lastLease[run[w].id]
            BY <1>2, <2>1, <2>9 DEF Claimable, ClaimInv, RowLease, RowHas
        <3> QED BY <2>2, <2>3, <2>4, <3>1 DEF ClaimInv, LastLeaseWins, observed
    <2> QED BY <2>3, <2>4, <2>7, <2>8, <2>10, <2>11, <2>12, StateKept DEF ClaimInv, observed
<1> QED BY <1>1, <1>2

\* The runner that claimed the job applies its result.
LEMMA AcceptClaimedStep ==
    ASSUME IInv, NEW w \in Runners, AcceptClaimed(w)
    PROVE  IInv'
<1> USE DEF IInv, TypeInv
<1>1. /\ run[w].id \in Jobs /\ run[w].ok \in BOOLEAN /\ run[w].at \in Nat
      /\ run[w].phase = "claimed" /\ LocalRegion \in Regions
    <2>1. run[w] \in Run /\ run[w].phase = "claimed" /\ run[w].id # 0
        BY DEF AcceptClaimed, RunOK
    <2> QED BY <2>1, UptimeQueueAssumption DEF Run
<1>2. RunnerHas(w, run[w].id)
    BY <1>1 DEF RunnerHas
<1>3. applied[run[w].id] = 0
    BY <1>1, <1>2 DEF ClaimInv, OnePlace
<1>4. /\ StateOK' /\ StateInv'
      /\ seen' \in [Regions -> SUBSET Applied] /\ applied' \in [Jobs -> Nat]
      /\ \A i \in Jobs : applied'[i] = IF i = run[w].id THEN 1 ELSE applied[i]
    BY <1>1, <1>3, ApplyResultEffect DEF AcceptClaimed
<1>5. NoRun \in Run /\ NoRun.phase = "idle" /\ nextId' = nextId
    BY IdleTypes DEF NoRun, AcceptClaimed
<1>6. RunOK' /\ \A v \in Runners : run'[v] = IF v = w THEN NoRun ELSE run[v]
    BY <1>5, RunPut DEF AcceptClaimed
<1>7. MonitorOK' /\ QueueOK' /\ ReqOK' /\ CountOK'
    BY <1>4 DEF AcceptClaimed, monitor, MonitorOK, QueueOK, ReqOK, Sound, CountOK
<1>8. \A i \in Jobs : OnePlace(i)'
    <2>1. /\ \A r \in Regions, i \in Jobs : RowHas(r, i)' <=> RowHas(r, i)
          /\ \A h \in Handlers, i \in Jobs : HandlerHas(h, i)' <=> HandlerHas(h, i)
          /\ nextId' = nextId /\ lastLease' = lastLease
        BY DEF AcceptClaimed, RowHas, HandlerHas
    <2>2. \A v \in Runners, i \in Jobs : RunnerHas(v, i)' => RunnerHas(v, i) /\ v # w
        BY <1>5, <1>6 DEF RunnerHas
    <2>3. ~(run[w].id >= nextId)
        BY <1>1, <1>2, NotYetScheduled
    <2> QED BY <1>1, <1>2, <1>4, <2>1, <2>2, <2>3 DEF ClaimInv, OnePlace
<1>9. RowLease' /\ LastLeaseWins'
    BY <1>5, <1>6 DEF AcceptClaimed, ClaimInv, RowLease, LastLeaseWins
<1> QED BY <1>4, <1>6, <1>7, <1>8, <1>9 DEF ClaimInv

\* A runner's result is lost.
LEMMA LoseRunStep ==
    ASSUME IInv, NEW w \in Runners, LoseRun(w)
    PROVE  IInv'
<1>1. faults' \in 0 .. MaxFaults
    BY UptimeQueueAssumption DEF IInv, TypeInv, MonitorOK, LoseRun
<1> QED BY <1>1, RunnerReturns DEF LoseRun

-----------------------------------------------------------------------------
(* A probe and the requests that carry its results.                         *)

\* The probe dies with what it holds.
LEMMA LoseProbeStep ==
    ASSUME IInv, NEW p \in Probes, LoseProbe(p)
    PROVE  IInv'
<1> USE DEF IInv, TypeInv
<1>1. UNCHANGED <<tables, run, req, applied, seen, lastLease>>
    BY DEF LoseProbe
<1>2. MonitorOK'
    BY UptimeQueueAssumption DEF LoseProbe, MonitorOK, monitor
<1>3. QueueOK' /\ StateOK' /\ RunOK' /\ ReqOK' /\ CountOK'
    BY <1>1 DEF tables, QueueOK, StateOK, RunOK, ReqOK, Sound, CountOK
<1>4. ClaimInv'
    BY <1>1 DEF tables, ClaimInv, OnePlace, RowLease, LastLeaseWins, RowHas, RunnerHas, HandlerHas
<1> QED BY <1>1, <1>2, <1>3, <1>4, StateKept DEF tables

\* A request that goes on without claiming, or gives claims up, leaves every job in its place.
LEMMA HandlerMoves ==
    ASSUME IInv, NEW h \in Handlers, NEW x \in Request, Sound(x), req' = [req EXCEPT ![h] = x],
           x.claimed \subseteq req[h].claimed, x.claimed = {} \/ x.jobs = req[h].jobs,
           UNCHANGED <<monitor, tables, run, applied, seen, lastLease, edits>>,
           held' \in [Probes -> SUBSET Jobs], faults' \in 0 .. MaxFaults
    PROVE  IInv'
<1> USE DEF IInv, TypeInv
<1>1. ReqOK' /\ \A g \in Handlers : req'[g] = IF g = h THEN x ELSE req[g]
    BY ReqPut DEF tables
<1>2. MonitorOK'
    BY DEF MonitorOK, monitor
<1>3. QueueOK' /\ StateOK' /\ RunOK' /\ CountOK'
    BY DEF tables, QueueOK, StateOK, RunOK, CountOK
<1>4. \A i \in Jobs : OnePlace(i)'
    <2>1. /\ \A r \in Regions, i \in Jobs : RowHas(r, i)' => RowHas(r, i)
          /\ \A w \in Runners, i \in Jobs : RunnerHas(w, i)' => RunnerHas(w, i)
          /\ \A g \in Handlers, i \in Jobs : HandlerHas(g, i)' => HandlerHas(g, i)
        BY <1>1 DEF RowHas, RunnerHas, HandlerHas, tables
    <2> QED BY <2>1, ClaimsShrink DEF ClaimInv, tables
<1>5. RowLease' /\ LastLeaseWins'
    BY <1>1 DEF ClaimInv, RowLease, LastLeaseWins, tables
<1> QED BY <1>1, <1>2, <1>3, <1>4, <1>5, StateKept DEF ClaimInv, tables

\* A probe posts a batch for all the jobs it holds.
LEMMA PostResultsStep ==
    ASSUME IInv, NEW p \in Probes, NEW h \in Handlers, PostResults(p, h)
    PROVE  IInv'
<1> USE DEF IInv, TypeInv
<1>1. PICK b \in Batches(p) :
        req' = [req EXCEPT ![h] = [NoReq EXCEPT !.phase = "sent", !.probe = p, !.todo = b]]
    BY DEF PostResults
<1> DEFINE x == [NoReq EXCEPT !.phase = "sent", !.probe = p, !.todo = b]
<1>2. b \in Seq(Result)
    <2>1. PICK n \in 1 .. MaxBatch : b \in [1 .. n -> [id : held[p], ok : BOOLEAN]]
        BY DEF Batches
    <2>2. [id : held[p], ok : BOOLEAN] \subseteq Result
        BY DEF Result, MonitorOK
    <2>3. n \in Nat /\ b \in [1 .. n -> Result]
        BY <2>1, <2>2, UptimeQueueAssumption
    <2> QED BY <2>3
<1>3. x \in Request
    BY <1>2 DEF NoReq, Request, Local
<1>4. Sound(x) /\ x.claimed = {}
    BY DEF NoReq, Sound
<1>5. req' = [req EXCEPT ![h] = x]
    BY <1>1
<1> HIDE DEF x
<1>6. held' \in [Probes -> SUBSET Jobs] /\ faults' \in 0 .. MaxFaults
    BY DEF PostResults, MonitorOK, observed
<1> QED BY <1>3, <1>4, <1>5, <1>6, HandlerMoves DEF PostResults, observed

\* LeasedJobs reads the rows that the probe holds on an unexpired lease.
LEMMA LeasedJobsStep ==
    ASSUME IInv, NEW h \in Handlers, LeasedJobs(h)
    PROVE  IInv'
<1> USE DEF IInv, TypeInv
<1> DEFINE Mine == {r \in Regions : /\ queue[r].id \in Named(h)
                                    /\ queue[r].by = req[h].probe /\ queue[r].lease > now}
           J == {[id |-> queue[r].id, region |-> r, lease |-> queue[r].lease] : r \in Mine}
           x == [req[h] EXCEPT !.phase = "looked", !.jobs = J]
<1>1. req[h] \in Request /\ req[h].phase = "sent" /\ Sound(req[h])
    BY DEF ReqOK, LeasedJobs
<1>2. ASSUME NEW r \in Mine PROVE queue[r].id \in Jobs /\ queue[r].lease \in Nat
    <2>1. \A k \in DOMAIN req[h].todo : req[h].todo[k].id \in Jobs
        <3>1. req[h].todo \in Seq(Result)
            BY <1>1 DEF Request
        <3>2. \A k \in DOMAIN req[h].todo : req[h].todo[k] \in Result
            BY <3>1
        <3> QED BY <3>2 DEF Result
    <2>2. queue[r].id \in Jobs
        BY <2>1 DEF Named
    <2> QED BY <2>2 DEF QueueOK, Row
<1>3. J \subseteq Leased
    <2> HIDE DEF Mine
    <2>1. Mine \subseteq Regions
        BY DEF Mine
    <2> QED BY <1>2, <2>1 DEF Leased
<1>4. \A j, k \in J : j.id = k.id => j = k
    <2>1. \A r, s \in Mine : queue[r].id = queue[s].id => r = s
        BY <1>2 DEF QueueOK, Jobs
    <2> HIDE DEF Mine
    <2> QED BY <2>1
<1>5. \A j \in J : j.id < nextId
    BY DEF QueueOK
<1> HIDE DEF J
<1>6. x \in Request /\ x.phase = "looked" /\ x.jobs = J /\ x.claimed = req[h].claimed
    BY <1>1, <1>3 DEF Request
<1>7. req' = [req EXCEPT ![h] = x]
    BY DEF LeasedJobs, J
<1> HIDE DEF x
<1>8. x.claimed = {}
    BY <1>1, <1>6 DEF Sound
<1>9. Sound(x)
    BY <1>4, <1>5, <1>6, <1>8 DEF Sound
<1>10. held' \in [Probes -> SUBSET Jobs] /\ faults' \in 0 .. MaxFaults
    BY DEF LeasedJobs, MonitorOK, observed
<1> QED BY <1>6, <1>7, <1>8, <1>9, <1>10, HandlerMoves DEF LeasedJobs, observed

\* The DELETE moves the jobs that still have the lease that was read from their rows to
\* the request.
LEMMA ClaimJobsStep ==
    ASSUME IInv, NEW h \in Handlers, ClaimJobs(h)
    PROVE  IInv'
<1> USE DEF IInv, TypeInv
<1> DEFINE won == {j \in req[h].jobs : Claimable(j, j.region)}
           ids == {j.id : j \in won}
           x == [req[h] EXCEPT !.phase = "claimed", !.claimed = ids]
<1>1. req[h] \in Request /\ req[h].phase = "looked" /\ Sound(req[h]) /\ req[h].claimed = {}
    BY DEF ReqOK, ClaimJobs, Sound
<1>2. \A j \in won : /\ j.id \in Jobs /\ j.region \in Regions /\ j \in req[h].jobs
                     /\ RowHas(j.region, j.id) /\ queue[j.region].lease = j.lease
    BY <1>1 DEF Request, Leased, Claimable, RowHas
<1>3. /\ queue' = [r \in Regions |-> IF \E j \in won : j.region = r THEN NoRow ELSE queue[r]]
      /\ req' = [req EXCEPT ![h] = x]
      /\ UNCHANGED <<monitor, nextId, state, run, held, observed>>
    BY DEF ClaimJobs
<1> HIDE DEF won
<1>4. ids \subseteq Jobs /\ \A i \in ids : \E j \in won : j.id = i
    BY <1>2
<1> HIDE DEF ids
<1>5. x \in Request /\ x.phase = "claimed" /\ x.jobs = req[h].jobs /\ x.claimed = ids
    BY <1>1, <1>4 DEF Request
<1> HIDE DEF x
<1>6. Sound(x)
    BY <1>1, <1>2, <1>4, <1>5 DEF Sound
<1>7. ReqOK' /\ \A g \in Handlers : req'[g] = IF g = h THEN x ELSE req[g]
    BY <1>3, <1>5, <1>6, ReqPut
<1>8. NoRow \in Row /\ NoRow.id = 0
    BY IdleTypes DEF NoRow
<1>9. /\ queue' \in [Regions -> Row]
      /\ \A r \in Regions : queue'[r] = IF \E j \in won : j.region = r THEN NoRow ELSE queue[r]
    BY <1>3, <1>8 DEF QueueOK
<1>10. \A r \in Regions : queue'[r] = queue[r] \/ queue'[r] = NoRow
    BY <1>9
<1>11. QueueOK'
    BY <1>3, <1>8, <1>9, <1>10, UptimeQueueAssumption DEF QueueOK
<1>12. MonitorOK' /\ StateOK' /\ RunOK' /\ CountOK'
    BY <1>3 DEF monitor, observed, MonitorOK, StateOK, RunOK, CountOK
<1>13. \A i \in Jobs : OnePlace(i)'
    <2>1. \A r \in Regions, i \in Jobs : RowHas(r, i)' => RowHas(r, i)
        BY <1>8, <1>10 DEF RowHas, Jobs
    <2>2. ASSUME NEW r \in Regions, NEW i \in Jobs, RowHas(r, i)', i \in ids PROVE FALSE
        <3>1. PICK j \in won : j.id = i
            BY <1>4, <2>2
        <3>2. RowHas(j.region, i) /\ j.region \in Regions /\ i # 0 /\ RowHas(r, i)
            BY <1>2, <2>1, <2>2, <3>1 DEF Jobs
        <3>3. r = j.region
            BY <3>2 DEF QueueOK, RowHas
        <3>4. queue'[r] = NoRow
            BY <1>9, <3>3
        <3> QED BY <1>8, <2>2, <3>2, <3>4 DEF RowHas
    <2>3. \A i \in ids : \E r \in Regions : RowHas(r, i)
        BY <1>2, <1>4
    <2>4. \A v \in Runners, i \in Jobs : RunnerHas(v, i)' <=> RunnerHas(v, i)
        BY <1>3 DEF RunnerHas
    <2>5. \A g \in Handlers, i \in Jobs :
            HandlerHas(g, i)' <=> IF g = h THEN i \in ids ELSE HandlerHas(g, i)
        BY <1>5, <1>7 DEF HandlerHas
    <2>6. applied' = applied /\ nextId' = nextId /\ lastLease' = lastLease
        BY <1>3 DEF observed
    <2> QED BY <2>1, <2>2, <2>3, <2>4, <2>5, <2>6 DEF ClaimInv, OnePlace
<1>14. RowLease'
    BY <1>3, <1>8, <1>10 DEF ClaimInv, RowLease, observed
<1>15. LastLeaseWins'
    <2>1. \A j \in won : j.lease = lastLease[j.id]
        BY <1>2 DEF ClaimInv, RowLease, RowHas, Jobs
    <2>2. ASSUME NEW j \in x.jobs, j.id \in x.claimed PROVE j \in won
        BY <1>1, <1>2, <1>4, <1>5, <2>2 DEF Sound
    <2> QED BY <1>3, <1>7, <2>1, <2>2 DEF ClaimInv, LastLeaseWins, observed
<1> QED BY <1>3, <1>7, <1>11, <1>12, <1>13, <1>14, <1>15, StateKept DEF ClaimInv, observed

\* A request skips a result, or stamps the one whose turn it is.
LEMMA NextResultStep ==
    ASSUME IInv, NEW h \in Handlers, NextResult(h)
    PROVE  IInv'
<1> USE DEF IInv, TypeInv
<1>1. /\ req[h] \in Request /\ Sound(req[h]) /\ now \in Nat
      /\ req[h].phase = "claimed" /\ req[h].todo \in Seq(Result) /\ req[h].todo # <<>>
    BY DEF ReqOK, NextResult, Request, MonitorOK
<1>2. /\ held' \in [Probes -> SUBSET Jobs] /\ faults' \in 0 .. MaxFaults
      /\ UNCHANGED <<monitor, tables, run, applied, seen, lastLease, edits>>
    BY DEF NextResult, MonitorOK, observed
<1>3. CASE Head(req[h].todo).id \in req[h].claimed
    <2> DEFINE x == [req[h] EXCEPT !.phase = "stamped", !.at = now]
    <2>1. /\ x \in Request /\ x.phase = "stamped" /\ x.jobs = req[h].jobs
          /\ x.claimed = req[h].claimed /\ x.todo = req[h].todo
        BY <1>1 DEF Request
    <2>2. req' = [req EXCEPT ![h] = x]
        BY <1>3 DEF NextResult
    <2> HIDE DEF x
    <2>3. Sound(x)
        BY <1>1, <1>3, <2>1 DEF Sound
    <2> QED BY <1>2, <2>1, <2>2, <2>3, HandlerMoves
<1>4. CASE Head(req[h].todo).id \notin req[h].claimed
    <2> DEFINE x == [req[h] EXCEPT !.todo = Tail(@)]
    <2>1. Tail(req[h].todo) \in Seq(Result)
        BY <1>1
    <2>2. /\ x \in Request /\ x.phase = "claimed" /\ x.jobs = req[h].jobs
          /\ x.claimed = req[h].claimed
        BY <1>1, <2>1 DEF Request
    <2>3. req' = [req EXCEPT ![h] = x]
        BY <1>4 DEF NextResult
    <2> HIDE DEF x
    <2>4. Sound(x)
        BY <1>1, <2>2 DEF Sound
    <2> QED BY <1>2, <2>2, <2>3, <2>4, HandlerMoves
<1> QED BY <1>3, <1>4

\* A request that has done with its first result has one claim less.
LEMMA ResultSpent ==
    ASSUME NEW q \in Request, Sound(q), q.phase = "stamped",
           NEW x, x = [q EXCEPT !.phase = "claimed", !.todo = Tail(@), !.at = 0,
                                !.claimed = @ \ {Head(q.todo).id}]
    PROVE  /\ x \in Request /\ Sound(x) /\ x.jobs = q.jobs
           /\ x.claimed = q.claimed \ {Head(q.todo).id}
<1>1. q.todo \in Seq(Result) /\ q.todo # <<>>
    BY DEF Sound, Request
<1>2. Tail(q.todo) \in Seq(Result)
    BY <1>1
<1>3. q.claimed \ {Head(q.todo).id} \in SUBSET Jobs
    BY DEF Request
<1>4. /\ x \in Request /\ x.phase = "claimed" /\ x.jobs = q.jobs
      /\ x.claimed = q.claimed \ {Head(q.todo).id}
    BY <1>2, <1>3 DEF Request
<1>5. Sound(x)
    BY <1>4 DEF Sound
<1> QED BY <1>4, <1>5

\* The request that claimed the job applies its result, to the region of the job.
LEMMA AcceptResultStep ==
    ASSUME IInv, NEW h \in Handlers, AcceptResult(h)
    PROVE  IInv'
<1> USE DEF IInv, TypeInv
<1> DEFINE res == Head(req[h].todo)
           x == [req[h] EXCEPT !.phase = "claimed", !.todo = Tail(@), !.at = 0,
                               !.claimed = @ \ {res.id}]
<1>1. req[h] \in Request /\ Sound(req[h]) /\ req[h].phase = "stamped"
    BY DEF ReqOK, AcceptResult
<1>2. req[h].todo \in Seq(Result) /\ req[h].todo # <<>> /\ res.id \in req[h].claimed
    BY <1>1 DEF Sound, Request
<1>3. res \in Result
    BY <1>2
<1>4. res.id \in Jobs /\ res.ok \in BOOLEAN /\ req[h].at \in Nat
    BY <1>1, <1>3 DEF Result, Request
<1>5. /\ ApplyResult(RegionOf(h, res.id), res.id, res.ok, req[h].at)
      /\ req' = [req EXCEPT ![h] = x]
      /\ UNCHANGED <<monitor, queue, nextId, run, held, lastLease, edits, faults>>
    BY DEF AcceptResult, Spent
<1>6. x \in Request /\ Sound(x) /\ x.jobs = req[h].jobs /\ x.claimed = req[h].claimed \ {res.id}
    BY <1>1, ResultSpent
<1> HIDE DEF res, x
<1>7. RegionOf(h, res.id) \in Regions
    <2>1. \E j \in req[h].jobs : j.id = res.id
        BY <1>1, <1>2 DEF Sound
    <2>2. (CHOOSE j \in req[h].jobs : j.id = res.id) \in req[h].jobs
        BY <2>1
    <2>3. req[h].jobs \subseteq Leased
        BY <1>1 DEF Request
    <2> QED BY <2>2, <2>3 DEF RegionOf, Leased
<1>8. HandlerHas(h, res.id)
    BY <1>2 DEF HandlerHas
<1>9. applied[res.id] = 0
    BY <1>4, <1>8 DEF ClaimInv, OnePlace
<1>10. /\ StateOK' /\ StateInv'
       /\ seen' \in [Regions -> SUBSET Applied] /\ applied' \in [Jobs -> Nat]
       /\ \A i \in Jobs : applied'[i] = IF i = res.id THEN 1 ELSE applied[i]
    BY <1>4, <1>5, <1>7, <1>9, ApplyResultEffect
<1>11. ReqOK' /\ \A g \in Handlers : req'[g] = IF g = h THEN x ELSE req[g]
    BY <1>5, <1>6, ReqPut
<1>12. MonitorOK' /\ QueueOK' /\ RunOK' /\ CountOK'
    BY <1>5, <1>10 DEF monitor, MonitorOK, QueueOK, RunOK, CountOK
<1>13. \A i \in Jobs : OnePlace(i)'
    <2>1. /\ \A r \in Regions, i \in Jobs : RowHas(r, i)' <=> RowHas(r, i)
          /\ \A v \in Runners, i \in Jobs : RunnerHas(v, i)' <=> RunnerHas(v, i)
          /\ nextId' = nextId /\ lastLease' = lastLease
        BY <1>5 DEF RowHas, RunnerHas
    <2>2. \A g \in Handlers, i \in Jobs :
            HandlerHas(g, i)' => HandlerHas(g, i) /\ (g = h => i # res.id)
        BY <1>6, <1>11 DEF HandlerHas
    <2>3. ~(res.id >= nextId)
        BY <1>4, <1>8, NotYetScheduled
    <2> QED BY <1>4, <1>8, <1>10, <2>1, <2>2, <2>3 DEF ClaimInv, OnePlace
<1>14. RowLease' /\ LastLeaseWins'
    BY <1>5, <1>6, <1>11 DEF ClaimInv, RowLease, LastLeaseWins
<1> QED BY <1>10, <1>11, <1>12, <1>13, <1>14 DEF ClaimInv

\* A request ends, or is lost with the results it has left.
LEMMA RequestEnds ==
    ASSUME IInv, NEW h \in Handlers, Respond(h) \/ LoseResults(h)
    PROVE  IInv'
<1> USE DEF IInv, TypeInv
<1>1. /\ held' \in [Probes -> SUBSET Jobs] /\ faults' \in 0 .. MaxFaults
      /\ UNCHANGED <<monitor, tables, run, applied, seen, lastLease, edits>>
    BY UptimeQueueAssumption DEF Respond, LoseResults, MonitorOK, observed
<1>2. CASE req' = [req EXCEPT ![h] = NoReq]
    <2>1. NoReq \in Request /\ Sound(NoReq) /\ NoReq.claimed = {}
        BY IdleTypes DEF NoReq
    <2> QED BY <1>1, <1>2, <2>1, HandlerMoves
<1>3. CASE /\ req[h].phase = "stamped"
           /\ req' = [req EXCEPT ![h].phase = "claimed", ![h].todo = Tail(@), ![h].at = 0,
                                 ![h].claimed = @ \ {Head(req[h].todo).id}]
    <2> DEFINE x == [req[h] EXCEPT !.phase = "claimed", !.todo = Tail(@), !.at = 0,
                                   !.claimed = @ \ {Head(req[h].todo).id}]
    <2>1. req[h] \in Request /\ Sound(req[h])
        BY DEF ReqOK
    <2>2. /\ x \in Request /\ Sound(x) /\ x.jobs = req[h].jobs
          /\ x.claimed = req[h].claimed \ {Head(req[h].todo).id}
        BY <1>3, <2>1, ResultSpent
    <2>3. req' = [req EXCEPT ![h] = x]
        BY <1>3
    <2> HIDE DEF x
    <2> QED BY <1>1, <2>2, <2>3, HandlerMoves
<1> QED BY <1>2, <1>3 DEF Respond, LoseResults

-----------------------------------------------------------------------------
(* The specification.                                                       *)

\* A new monitor: nothing is scheduled, nothing is known of any region.
LEMMA InitInv == Init => IInv
<1> SUFFICES ASSUME Init PROVE IInv
    OBVIOUS
<1>0. lastScheduled \in Int /\ lastScheduled <= now
    <2>1. Interval \in Nat /\ lastScheduled = -Interval /\ now = 1
        BY UptimeQueueAssumption DEF Init
    <2> QED BY <2>1
<1> USE UptimeQueueAssumption DEF Init
<1>1. MonitorOK
    <2>1. lastScheduled \in Int /\ lastScheduled <= now
        BY <1>0
    <2>2. regions \in (SUBSET Regions) \ {{}}
        <3>1. LocalRegion \in Regions /\ regions = {LocalRegion}
            OBVIOUS
        <3> QED BY <3>1
    <2>3. now \in Nat /\ edits \in 0 .. MaxEdits /\ faults \in 0 .. MaxFaults
        OBVIOUS
    <2> QED BY <2>1, <2>2, <2>3 DEF MonitorOK
<1>2. QueueOK
    BY IdleTypes DEF QueueOK, NoRow
<1>3. StateOK
    BY IdleTypes DEF StateOK
<1>4. RunOK
    BY IdleTypes DEF RunOK, NoRun
<1>5. ReqOK
    BY IdleTypes DEF ReqOK
<1>6. CountOK
    BY DEF CountOK, Null
<1>7. ClaimInv
    <2>1. /\ \A r \in Regions, i \in Jobs : ~RowHas(r, i)
          /\ \A w \in Runners, i \in Jobs : ~RunnerHas(w, i)
          /\ \A h \in Handlers, i \in Jobs : ~HandlerHas(h, i)
        BY DEF RowHas, RunnerHas, HandlerHas, NoRow, NoRun, NoReq, Jobs
    <2>2. \A i \in Jobs : OnePlace(i)
        BY <2>1 DEF OnePlace
    <2>3. RowLease /\ LastLeaseWins
        BY DEF RowLease, LastLeaseWins, NoRow, NoRun, NoReq
    <2> QED BY <2>2, <2>3 DEF ClaimInv
<1>8. StateInv
    <2>1. \A r \in Regions : state[r] = NoState /\ NoState.fails = 0 /\ NoState.status = "none"
        BY DEF NoState
    <2>2. \A r \in Regions : FailedIds(r) = {}
        BY DEF FailedIds
    <2>3. \A r \in Regions : state[r].fails <= Cardinality(FailedIds(r))
        <3>1. Cardinality({}) = 0
            BY FS_EmptySet
        <3>2. \A r \in Regions : Cardinality(FailedIds(r)) = 0 /\ state[r].fails = 0
            BY <2>1, <2>2, <3>1
        <3> QED BY <3>2
    <2>4. NewestResultWins /\ DownIsEarned
        BY <2>1 DEF NewestResultWins, DownIsEarned
    <2> QED BY <2>3, <2>4 DEF StateInv
<1> QED BY <1>1, <1>2, <1>3, <1>4, <1>5, <1>6, <1>7, <1>8 DEF IInv, TypeInv

\* Every statement of every process keeps the invariant.
LEMMA NextInv == IInv /\ [Next]_vars => IInv'
<1> SUFFICES ASSUME IInv, [Next]_vars PROVE IInv'
    OBVIOUS
<1>1. CASE Schedule
    BY <1>1, ScheduleStep
<1>2. CASE \E S \in (SUBSET Regions) \ {{}} : Update(S)
    BY <1>2, UpdateStep
<1>3. CASE SetEnabled \/ Tick \/ UNCHANGED vars
    BY <1>3, QuietStep
<1>4. ASSUME NEW w \in Runners,
             LeaseLocal(w) \/ Check(w) \/ ClaimJob(w) \/ AcceptClaimed(w) \/ LoseRun(w)
      PROVE  IInv'
    BY <1>4, LeaseLocalStep, CheckStep, ClaimJobStep, AcceptClaimedStep, LoseRunStep
<1>5. ASSUME NEW p \in Probes, LeaseForProbe(p) \/ LoseProbe(p)
      PROVE  IInv'
    BY <1>5, LeaseForProbeStep, LoseProbeStep
<1>6. ASSUME NEW p \in Probes, NEW h \in Handlers, PostResults(p, h)
      PROVE  IInv'
    BY <1>6, PostResultsStep
<1>7. ASSUME NEW h \in Handlers,
             \/ LeasedJobs(h) \/ ClaimJobs(h) \/ NextResult(h) \/ AcceptResult(h)
             \/ Respond(h) \/ LoseResults(h)
      PROVE  IInv'
    BY <1>7, LeasedJobsStep, ClaimJobsStep, NextResultStep, AcceptResultStep, RequestEnds
<1> QED BY <1>1, <1>2, <1>3, <1>4, <1>5, <1>6, <1>7 DEF Next

\* IInv holds in every reachable state.
LEMMA Invariance == Spec => []IInv
BY InitInv, NextInv, PTL DEF Spec

\* Type correctness: a job of check_queue is in one region's row at a time, a request
\* names and claims jobs of the queue, and a row of monitor_state has a status.
THEOREM TypeCorrect == Spec => []TypeOK
<1>1. IInv => TypeOK
    BY TypeInvImplies DEF IInv
<1> QED BY <1>1, Invariance, PTL

\* The claim is the exactly-once gate of queue.go: however often a job is leased, to
\* runners and to probes, and however often a batch names it, ApplyResult is reached
\* with it at most once.
THEOREM ExactlyOnceGate == Spec => []AppliedOnce
<1>1. IInv => AppliedOnce
    BY DEF IInv, ClaimInv, OnePlace, AppliedOnce
<1> QED BY <1>1, Invariance, PTL

\* The DELETE compares the lease: a holder whose lease expired and was given out again
\* does not take the job from the holder that has it now.
THEOREM ClaimOnLastLease == Spec => []LastLeaseWins
<1>1. IInv => LastLeaseWins
    BY DEF IInv, ClaimInv
<1> QED BY <1>1, Invariance, PTL

\* ApplyResult drops what is older than the row: the series of a region is that of its
\* newest result, in whatever order runners and requests apply theirs.
THEOREM NewestResultKept == Spec => []NewestResultWins
<1>1. IInv => NewestResultWins
    BY DEF IInv, StateInv
<1> QED BY <1>1, Invariance, PTL

\* A region that is down failed FailThreshold different jobs: no job counts twice towards
\* the threshold.
THEOREM DownTakesThreshold == Spec => []DownIsEarned
<1>1. IInv => DownIsEarned
    BY DEF IInv, StateInv
<1> QED BY <1>1, Invariance, PTL
=============================================================================
