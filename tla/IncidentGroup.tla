---------------------------- MODULE IncidentGroup ----------------------------
(***************************************************************************)
(* internal/incidentgroup: an incident joins the group of the failed node   *)
(* its own node hangs from, when it opens (Attach), when the root opens     *)
(* after it (OnRootOpened) or when the scheduler suppresses it (DepGate).   *)
(* While the group is open the members' ladders stand still.  The three     *)
(* goroutines share the snapshot of internal/depsuppress, which is cached.  *)
(* Dependencies do not change.  The roots are silent hosts; monitors are    *)
(* left out: the uptime detector attaches an incident when it suppresses    *)
(* it, and openCandidates does not look at uptime's incidents.              *)
(***************************************************************************)
EXTENDS Integers, FiniteSets, Sequences, SequencesExt

CONSTANTS
    Hosts,
    Edges,      \* <<child, parent>>
    Rank,       \* the order of the hosts' ids
    Incidents,  \* <<kind, host, n>>: the n-th "silent" or "metric" incident of the host
    MaxBusy,    \* goroutines at work at the same time
    MaxFaults

None == <<>>

Kind(x) == x[1]
Node(x) == x[2]
Roots == {x \in Incidents : Kind(x) = "silent"}

ASSUME IncidentGroupAssumption ==
    /\ Edges \subseteq Hosts \X Hosts
    /\ Incidents \subseteq {"silent", "metric"} \X Hosts \X Nat
    /\ Rank \in [Hosts -> Nat] /\ \A m, n \in Hosts : Rank[m] = Rank[n] => m = n
    /\ IsFiniteSet(Hosts)
    /\ MaxBusy \in Nat \ {0} /\ MaxFaults \in Nat

\* The evaluator of silent hosts, an evaluator whose incidents are members only (metric
\* rules; host thresholds and SLOs are alike), and the escalation scheduler.
Tasks == {"host", "metric", "scheduler"}

VARIABLES
    (* PostgreSQL *)
    status,     \* "none", "open" or "closed"
    notified,   \* open roots with notified_open
    gid,        \* group_id, as the root of the group, or None
    group,      \* of a root: "none", "open", "resolved" or "purged"
    (* Suppressor *)
    order,      \* "cache" and the loads that have their loadedAt, oldest first
    cached,     \* the failed hosts of a fresh cache
    fresh,      \* it is younger than cacheTTL
    (* the goroutines *)
    task,       \* the state of each call
    (* observation *)
    joined,     \* incidents that have been in an open group, until they close
    freed,      \* open ones whose root or group closed, or that the pass of their root missed;
                \* nothing looks at them before their next root falls silent
    excused,    \* a load was overtaken, a pass not begun, a statement failed or the process died
    faults

db == <<status, notified, gid, group>>
cache == <<order, cached, fresh>>
ghosts == <<joined, freed, excused, faults>>
vars == <<db, cache, task, ghosts>>

\* load: the stage of getSnapshot; snap: the failed hosts of the snapshot; inc: the
\* incident at hand and root its root; informing: RootIncident's notified; held: the
\* incident does not speak for itself; cands, cand: the rest of openCandidates and the
\* one at hand; grp: OnRootOpened has its group.
Idle ==
    [pc |-> "idle", load |-> "no", snap |-> {}, inc |-> None, root |-> None,
     informing |-> FALSE, held |-> FALSE, cands |-> {}, cand |-> None, grp |-> FALSE]

Put(f, x, v) == [f EXCEPT ![x] = v]

\* The goroutine is free to start.
Free(t) == task[t] = Idle /\ Cardinality({u \in Tasks : task[u] # Idle}) < MaxBusy

Opened == {x \in Incidents : status[x] = "open"}
Down == {Node(x) : x \in Opened \cap Roots}

\* The walk of DepSuppress over a snapshot with the failed hosts d.
Walk(d, n) == INSTANCE DepSuppress WITH
    Nodes <- Hosts, edges <- Edges, down <- d, query <- "DownRoot", start <- n,
    visited <- {}, stack <- {}, roots <- {}, done <- TRUE, suppressed <- FALSE, root <- {}

ParentDown(d, n) == Walk(d, n)!Tops(n) # {}

DownRoot(d, n) ==
    IF ParentDown(d, n) THEN Walk(d, n)!First(Walk(d, n)!Tops(n)) ELSE {n} \cap d

\* The open silent incident of the host.
RootIncident(R) == {y \in Opened \cap Roots : Node(y) \in R}

\* MemberEligible, and the condition of SetGroup.
Eligible(x) == gid[x] \notin {y \in Roots : group[y] = "open"}

\* A member of an open group, which OpenUnacked leaves out.
Hidden(x) == status[x] = "open" /\ ~ Eligible(x)

Init ==
    /\ status = [x \in Incidents |-> "none"] /\ notified = {}
    /\ gid = [x \in Incidents |-> None] /\ group = [y \in Roots |-> "none"]
    /\ order = <<>> /\ cached = {} /\ fresh = FALSE
    /\ task = [t \in Tasks |-> Idle]
    /\ joined = {} /\ freed = {} /\ excused = FALSE /\ faults = 0

----------------------------------------------------------------------------
(* getSnapshot, called by DownRoot and ParentDown                           *)

\* Where a call goes on with its snapshot.
Return(l) ==
    CASE l = "attach" -> "find" [] l = "reroot" -> "refind"
      [] l = "retro" -> "match" [] l = "check" -> "gate"

Calls(t) == task[t].pc \in {"attach", "reroot", "retro", "check"}

\* The cache is fresh.
Serve(t) ==
    /\ Calls(t) /\ task[t].load = "no" /\ fresh
    /\ task' = [task EXCEPT ![t].pc = Return(@), ![t].snap = cached]
    /\ UNCHANGED <<db, cache, ghosts>>

\* loadDownHosts.
LoadRead(t) ==
    /\ Calls(t) /\ task[t].load = "no" /\ ~ fresh
    /\ task' = [task EXCEPT ![t].load = "read", ![t].snap = Down]
    /\ UNCHANGED <<db, cache, ghosts>>

\* The rest of loadSnapshot: loadedAt is taken at its end.
LoadStamp(t) ==
    /\ task[t].load = "read"
    /\ task' = [task EXCEPT ![t].load = "stamped"] /\ order' = Append(order, t)
    /\ UNCHANGED <<db, cached, fresh, ghosts>>

\* The cache is younger than the load of t.
Overtaken(t) == \E i, j \in DOMAIN order : i < j /\ order[i] = t /\ order[j] = "cache"

Without(u) == SelectSeq(order, LAMBDA v : v # u)

\* The load becomes the cache, or is dropped.
LoadStore(t) ==
    /\ task[t].load = "stamped"
    /\ task' = [task EXCEPT ![t].pc = Return(@), ![t].load = "no"]
    /\ IF Overtaken(t)
       THEN order' = Without(t) /\ UNCHANGED <<cached, fresh>>
       ELSE /\ order' = ReplaceAll(Without("cache"), t, "cache")
            /\ cached' = task[t].snap /\ fresh' = TRUE
    /\ UNCHANGED <<db, ghosts>>

\* cacheTTL passes.
Expire ==
    /\ fresh /\ fresh' = FALSE /\ cached' = {}
    /\ UNCHANGED <<db, order, task, ghosts>>

----------------------------------------------------------------------------
(* The evaluators open an incident, the scheduler finds it suppressed       *)

\* A signal has one open incident (the unique index), and they come in order.
Startable(x) ==
    \A y \in Incidents : Kind(y) = Kind(x) /\ Node(y) = Node(x) =>
        status[y] = IF y[3] < x[3] THEN "closed" ELSE "none"

Evaluator(x) == IF x \in Roots THEN "host" ELSE "metric"

Open(x) ==
    LET t == Evaluator(x)
        d == Down \cup {Node(y) : y \in {x} \cap Roots}
    IN  /\ Free(t) /\ Startable(x)
        /\ status' = Put(status, x, "open")
        /\ task' = [task EXCEPT ![t].pc = "attach", ![t].inc = x]
        /\ freed' = {z \in freed : x \in Roots => DownRoot(d, Node(z)) # {Node(x)}}
        /\ UNCHANGED <<notified, gid, group, cache, joined, excused, faults>>

\* CheckIncident of a host incident that the ladder sees.
CheckIncident(x) ==
    /\ Free("scheduler") /\ x \in Opened \cap Roots /\ Eligible(x)
    /\ task' = [task EXCEPT !["scheduler"].pc = "check", !["scheduler"].inc = x]
    /\ UNCHANGED <<db, cache, ghosts>>

\* MarkSuppressed, which attaches, if a parent is down.
MarkSuppressed(t) ==
    /\ task[t].pc = "gate"
    /\ task' = IF ParentDown(task[t].snap, Node(task[t].inc))
               THEN [task EXCEPT ![t].pc = "attach", ![t].snap = {}] ELSE Put(task, t, Idle)
    /\ UNCHANGED <<db, cache, ghosts>>

----------------------------------------------------------------------------
(* Attach                                                                   *)

\* Back in its callers: groupGate, after which groupRootOpened of a silent host takes the
\* incident for the root or asks for the root it was attached to, and DepGate.
AttachEnds(t, ok) ==
    LET c == task[t]
        back == [Idle EXCEPT !.inc = c.inc, !.held = ok /\ c.informing]
    IN  task' = Put(task, t,
            CASE t = "host" -> [back EXCEPT !.pc = IF ok THEN "reroot" ELSE "invalidate",
                                            !.root = IF ok THEN None ELSE c.inc]
              [] t = "metric" -> [back EXCEPT !.pc = "notify"]
              [] t = "scheduler" -> Idle)

\* The root that Attach has found for a member is closed, or its group over.
RootLost(t, lost) == freed' = freed \cup {x \in {task[t].inc} \ Roots : lost}

Foreign(x, y) == x # y

\* RootIncident of DownRoot.
Find(t) ==
    LET R == DownRoot(task[t].snap, Node(task[t].inc))
    IN  /\ task[t].pc = "find"
        /\ \/ /\ \A y \in RootIncident(R) : ~ Foreign(task[t].inc, y)
              /\ AttachEnds(t, FALSE) /\ RootLost(t, R # {})
           \/ \E y \in RootIncident(R) :
              /\ Foreign(task[t].inc, y)
              /\ task' = [task EXCEPT ![t].pc = "eligible", ![t].snap = {},
                                      ![t].root = y, ![t].informing = y \in notified]
              /\ UNCHANGED freed
        /\ UNCHANGED <<db, cache, joined, excused, faults>>

MemberEligible(t) ==
    /\ task[t].pc = "eligible"
    /\ IF Eligible(task[t].inc) THEN task' = [task EXCEPT ![t].pc = "ensure"]
                                ELSE AttachEnds(t, FALSE)
    /\ UNCHANGED <<db, cache, ghosts>>

\* INSERT ... ON CONFLICT DO NOTHING, then the row that is there.
Ensured(y) == IF group[y] = "none" THEN "open" ELSE group[y]

EnsureGroup(t) ==
    LET y == task[t].root
    IN  /\ task[t].pc = "ensure"
        /\ group' = Put(group, y, Ensured(y))
        /\ IF Ensured(y) = "open" THEN task' = [task EXCEPT ![t].pc = "set"]
                                  ELSE AttachEnds(t, FALSE)
        /\ RootLost(t, Ensured(y) # "open")
        /\ UNCHANGED <<status, notified, gid, cache, joined, excused, faults>>

\* SetGroup's UPDATE of x.
Join(x, y) ==
    IF Eligible(x)
    THEN /\ gid' = Put(gid, x, y)
         /\ joined' = joined \cup {z \in {x} : group[y] = "open"}
    ELSE UNCHANGED <<gid, joined>>

SetGroup(t) ==
    /\ task[t].pc = "set"
    /\ Join(task[t].inc, task[t].root) /\ AttachEnds(t, Eligible(task[t].inc))
    /\ RootLost(t, group[task[t].root] # "open")
    /\ UNCHANGED <<status, notified, group, cache, excused, faults>>

----------------------------------------------------------------------------
(* groupRootOpened and OnRootOpened of the host evaluator                   *)

\* OnRootOpened returns.
Opening(c) == [Idle EXCEPT !.pc = "notify", !.inc = c.inc, !.held = c.held]

\* The root the new incident was attached to, asked for again.
Refind(t) ==
    LET c == task[t]
        Y == RootIncident(DownRoot(c.snap, Node(c.inc)))
    IN  /\ c.pc = "refind"
        /\ \/ Y = {} /\ task' = Put(task, t, Opening(c)) /\ excused' = TRUE
           \/ \E y \in Y :
              /\ task' = [task EXCEPT ![t].pc = "invalidate", ![t].root = y, ![t].snap = {}]
              /\ UNCHANGED excused
        /\ UNCHANGED <<db, cache, joined, freed, faults>>

\* A pass that trusts the cache.
KeepCache == UNCHANGED cache

DropCache == order' = Without("cache") /\ cached' = {} /\ fresh' = FALSE

\* The incidents below the new one's root, when the pass is for another: the snapshot of
\* Attach was old, or the scheduler had attached the incident and Attach did not.
Passed(t) ==
    LET R == DownRoot(Down, Node(task[t].inc))
    IN  {x \in Opened : DownRoot(Down, Node(x)) = R /\ RootIncident(R) # {task[t].root}}

\* A load that is under way with an older state will be stored all the same.
Invalidate(t) ==
    /\ task[t].pc = "invalidate"
    /\ DropCache
    /\ task' = [task EXCEPT ![t].pc = "cands"]
    /\ excused' = (excused \/ \E u \in Tasks : task[u].load # "no" /\ task[u].snap # Down)
    /\ freed' = freed \cup Passed(t)
    /\ UNCHANGED <<db, joined, faults>>

\* The next candidate, or the end of the pass.
Rest(c) == IF c.cands = {} THEN Opening(c) ELSE [c EXCEPT !.pc = "retro", !.cand = None]

\* openCandidates without the root.
OpenCandidates(t) ==
    LET C == {x \in Opened : Eligible(x) /\ Foreign(task[t].root, x)}
    IN  /\ task[t].pc = "cands"
        /\ task' = Put(task, t, Rest([task[t] EXCEPT !.cands = C]))
        /\ UNCHANGED <<db, cache, ghosts>>

\* A candidate of another root is passed over.
Match(t, x) ==
    LET c == [task[t] EXCEPT !.cands = @ \ {x}, !.snap = {}]
    IN  /\ task[t].pc = "match" /\ x \in task[t].cands
        /\ task' = Put(task, t,
               IF DownRoot(task[t].snap, Node(x)) = {Node(c.root)}
               THEN [c EXCEPT !.pc = IF c.grp THEN "join" ELSE "group", !.cand = x]
               ELSE Rest(c))
        /\ UNCHANGED <<db, cache, ghosts>>

\* EnsureGroup of the pass; a group that is resolved already ends it.
GroupOfRoot(t) ==
    LET c == task[t]
    IN  /\ c.pc = "group"
        /\ group' = Put(group, c.root, Ensured(c.root))
        /\ task' = Put(task, t, IF Ensured(c.root) = "open"
                                THEN [c EXCEPT !.pc = "join", !.grp = TRUE] ELSE Opening(c))
        /\ UNCHANGED <<status, notified, gid, cache, ghosts>>

JoinCandidate(t) ==
    /\ task[t].pc = "join"
    /\ Join(task[t].cand, task[t].root)
    /\ task' = Put(task, t, Rest(task[t]))
    /\ UNCHANGED <<status, notified, group, cache, freed, excused, faults>>

OnRootOpened(t) ==
    \/ Refind(t) \/ Invalidate(t) \/ OpenCandidates(t)
    \/ (\E x \in Incidents : Match(t, x)) \/ GroupOfRoot(t) \/ JoinCandidate(t)

\* notifyOpen and MarkNotified, unless the alarm is held.  It may stay out: maintenance, a
\* parent (HasParent reads the snapshot as the scheduler does), no step due, a failed
\* Enqueue; then the ladder has it.
NotifyOpen(t, sent) ==
    /\ task[t].pc = "notify" /\ (sent => ~ task[t].held)
    /\ notified' = notified \cup {y \in {task[t].inc} \cap Roots : sent}
    /\ task' = Put(task, t, Idle)
    /\ UNCHANGED <<status, gid, group, cache, ghosts>>

----------------------------------------------------------------------------
(* Incidents close; the janitor                                             *)

\* The evaluator resolves the incident.
Resolved(x) ==
    /\ Free(Evaluator(x)) /\ x \in Opened
    /\ status' = Put(status, x, "closed")
    /\ freed' = (freed \cup {z \in Opened : x \in RootIncident(DownRoot(Down, Node(z)))}) \ {x}
    /\ joined' = joined \ {x} /\ notified' = notified \ {x}
    /\ UNCHANGED <<gid, group, cache, excused, faults>>

\* groupRootClosed follows for a silent host, and the recovery, which is in Escalation.
Close(x) ==
    /\ Resolved(x)
    /\ task' = IF x \in Roots
               THEN [task EXCEPT !["host"].pc = "closing", !["host"].root = x] ELSE task

\* evalOrCloseKind of a silent check that was switched off: nothing follows.
CloseDisabled(x) == x \in Roots /\ Resolved(x) /\ UNCHANGED task

\* resolved_at of the groups in Y.
Resolve(Y) ==
    /\ group' = [y \in Roots |-> IF y \in Y THEN "resolved" ELSE group[y]]
    /\ freed' = freed \cup {x \in Opened : gid[x] \in Y}

OnRootClosed(t) ==
    /\ task[t].pc = "closing"
    /\ Resolve({y \in {task[t].root} : group[y] = "open"})
    /\ task' = Put(task, t, Idle)
    /\ UNCHANGED <<status, notified, gid, cache, joined, excused, faults>>

\* A sweep that only looks for deleted incidents.
OrphanDeleted(y) == group[y] = "open" /\ status[y] = "none"

Orphan(y) == group[y] = "open" /\ status[y] # "open"

SweepOrphanGroups ==
    /\ \E y \in Roots : Orphan(y)
    /\ Resolve({y \in Roots : Orphan(y)})
    /\ UNCHANGED <<status, notified, gid, cache, task, joined, excused, faults>>

\* A purge that goes by age only.
PurgeableByAge(y) == group[y] = "resolved"

Purgeable(y) == group[y] = "resolved" /\ \A x \in Opened : gid[x] # y

\* The retention is longer than any call: nobody has the group in hand.
PurgeOldGroups(y) ==
    /\ Purgeable(y) /\ \A t \in Tasks : task[t].root # y
    /\ group' = Put(group, y, "purged")
    /\ UNCHANGED <<status, notified, gid, cache, task, ghosts>>

----------------------------------------------------------------------------
(* Faults                                                                   *)

Fault == faults < MaxFaults /\ faults' = faults + 1 /\ excused' = TRUE

\* A statement fails; SetGroup may have been applied.  An error of Attach is no
\* attachment, one of OnRootOpened ends the pass, and the others are logged.
Fail(t) ==
    /\ task[t].pc \notin {"idle", "invalidate", "notify"} /\ Fault
    /\ \/ /\ task[t].pc \in {"attach", "find", "eligible", "ensure", "set"}
          /\ AttachEnds(t, FALSE)
          /\ \/ UNCHANGED <<gid, joined>>
             \/ task[t].pc = "set" /\ Join(task[t].inc, task[t].root)
       \/ /\ task[t].pc \in {"reroot", "refind", "cands", "retro", "match", "group", "join"}
          /\ task' = Put(task, t, Opening(task[t]))
          /\ UNCHANGED <<gid, joined>>
       \/ /\ task[t].pc \in {"closing", "check", "gate"}
          /\ task' = Put(task, t, Idle)
          /\ UNCHANGED <<gid, joined>>
    /\ order' = Without(t)
    /\ UNCHANGED <<status, notified, group, cached, fresh, freed>>

\* The process dies: the goroutines and the cache are gone.
Crash ==
    /\ Fault
    /\ task' = [t \in Tasks |-> Idle] /\ order' = <<>> /\ cached' = {} /\ fresh' = FALSE
    /\ UNCHANGED <<db, joined, freed>>

Next ==
    \/ \E t \in Tasks :
        \/ Serve(t) \/ LoadRead(t) \/ LoadStamp(t) \/ LoadStore(t)
        \/ Find(t) \/ MemberEligible(t) \/ EnsureGroup(t) \/ SetGroup(t)
        \/ OnRootOpened(t) \/ OnRootClosed(t) \/ MarkSuppressed(t) \/ Fail(t)
        \/ \E sent \in BOOLEAN : NotifyOpen(t, sent)
    \/ \E x \in Incidents : Open(x) \/ Close(x) \/ CloseDisabled(x) \/ CheckIncident(x)
    \/ SweepOrphanGroups \/ \E y \in Roots : PurgeOldGroups(y)
    \/ Expire \/ Crash

\* The janitor's ticker.
Spec == Init /\ [][Next]_vars /\ WF_vars(SweepOrphanGroups)

----------------------------------------------------------------------------
(* Properties                                                               *)

\* What the comment on Store.Create says of a cycle of dependencies, that it is benign: no
\* incidents are hidden behind each other only, up the groups there is one that the ladder
\* sees or that is closed, whose group the janitor will resolve.
SomebodySpeaks ==
    \A S \in SUBSET {x \in Incidents : Hidden(x)} : S # {} => \E x \in S : gid[x] \notin S

\* An incident below a failed host is in a group, whichever of the two opened first and
\* whatever the cache held: it is missed only after a fault, if a load was overtaken, if its
\* root was lost on the way or if the pass of its root ran for another.
GroupIsComplete ==
    (~ excused /\ task["host"] = Idle /\ task["metric"] = Idle) =>
        \A x \in Opened \ freed : \A y \in RootIncident(DownRoot(Down, Node(x))) :
            y # x => Hidden(x)

\* The ladder of an incident that was in a group counts from the end of a group
\* (OpenUnacked's GREATEST), so that its steps are not all due at once.
NoVolley ==
    \A x \in Opened \cap joined : ~ Hidden(x) => group[gid[x]] = "resolved"

\* Members do not stay silent for a root that is closed.
MembersAreReleased == []<>(\A x \in Incidents : Hidden(x) => status[gid[x]] = "open")
=============================================================================
