------------------------ MODULE IncidentGroupProofs ------------------------
(***************************************************************************)
(* Proofs about IncidentGroup for any hosts and incidents, any number of   *)
(* goroutines at work and any faults.  On every dependency graph: NoVolley *)
(* holds, and incidents are hidden behind each other only if a host of     *)
(* theirs depends on itself.  On the graphs without cycles:                *)
(* GroupIsComplete.                                                        *)
(***************************************************************************)
EXTENDS IncidentGroup, TLAPS, WellFoundedInduction, FiniteSetTheorems

Stages ==
    {"idle", "attach", "find", "eligible", "ensure", "set", "reroot", "refind", "invalidate",
     "cands", "retro", "match", "group", "join", "notify", "check", "gate", "closing"}

Task ==
    [pc : Stages, load : {"no", "read", "stamped"}, snap : SUBSET Hosts,
     inc : Incidents \cup {None}, root : Roots \cup {None}, informing : BOOLEAN, held : BOOLEAN,
     cands : SUBSET Incidents, cand : Incidents \cup {None}, grp : BOOLEAN]

DbOK ==
    /\ status \in [Incidents -> {"none", "open", "closed"}]
    /\ gid \in [Incidents -> Roots \cup {None}]
    /\ group \in [Roots -> {"none", "open", "resolved", "purged"}]
    /\ joined \subseteq Incidents /\ cached \subseteq Hosts

-----------------------------------------------------------------------------

Parents(n) == {p \in Hosts : <<n, p>> \in Edges /\ p # n}

Upward(C) == \A p \in C : Parents(p) \subseteq C

\* The ancestors of n in the graph, failed or not.
Ancestors(n) == {m \in Hosts : \A C \in SUBSET Hosts : Parents(n) \subseteq C /\ Upward(C) => m \in C}

\* Every set of hosts has one without a parent in the set.
Acyclic == \A T \in SUBSET Hosts : T # {} => \E n \in T : Parents(n) \cap T = {}

\* y is an incident further up than x: of an ancestor, or the silence of the host itself.
Up(x, y) == Node(y) \in Ancestors(Node(x)) \/ (Node(y) = Node(x) /\ Kind(x) = "metric")

Known(x) == x \in Incidents /\ status[x] # "none"

\* x may be hidden behind y: a closed one hides nothing and is not hidden.
Linked(x, y) == Up(x, y) \/ status[x] = "closed" \/ status[y] = "closed"

\* The group of y is there to be joined.
Live(y) == y \in Roots /\ group[y] \in {"open", "resolved"}

\* What the goroutine t knows of the incidents in its hands.
TaskOK(t, c) ==
    /\ c.load # "no" => c.pc \in {"attach", "reroot", "retro", "check"}
    /\ c.pc \notin {"idle", "closing"} => Known(c.inc)
    /\ t = "host" /\ c.pc \in {"attach", "find", "eligible", "ensure", "set", "check", "gate"} =>
           c.inc \in Roots
    /\ c.pc \in {"eligible", "ensure", "set", "invalidate", "cands", "retro", "match", "group", "join"} =>
           Known(c.root)
    /\ c.pc \in {"eligible", "ensure", "set"} => Linked(c.inc, c.root)
    /\ c.pc = "closing" => c.root # None
    /\ c.pc \in {"retro", "match", "group", "join"} => \A x \in c.cands : Known(x) /\ x # c.root
    /\ c.pc \in {"group", "join"} => Known(c.cand) /\ Linked(c.cand, c.root)
    /\ c.grp => c.pc \in {"retro", "match", "join"}
    /\ c.pc \in {"set", "join"} \/ c.grp => Live(c.root)

TasksOK == task \in [Tasks -> Task] /\ \A t \in Tasks : TaskOK(t, task[t])

\* The unique index on the open incidents of a signal.
OneOpen ==
    \A x, y \in Incidents :
        Kind(x) = Kind(y) /\ Node(x) = Node(y) /\ status[x] = "open" /\ status[y] = "open" => x = y

\* An incident that was in a group has one that is open or has the time of its end.
JoinedOK ==
    \A x \in joined : Known(x) /\ gid[x] \in Roots /\ (status[x] = "open" => Live(gid[x]))

\* group_id leads up.
LinksOK ==
    \A x \in Incidents : gid[x] # None => Known(x) /\ Known(gid[x]) /\ Linked(x, gid[x])

IInv == DbOK /\ TasksOK /\ OneOpen /\ JoinedOK /\ LinksOK

-----------------------------------------------------------------------------
(* The graph.                                                               *)

\* The parents are ancestors, and so are the parents of ancestors.
LEMMA AncestorsUpward ==
    ASSUME NEW n \in Hosts
    PROVE  Parents(n) \subseteq Ancestors(n) /\ Upward(Ancestors(n))
<1>1. \A m \in Hosts : Parents(m) \subseteq Hosts
    BY DEF Parents
<1>2. Parents(n) \subseteq Ancestors(n)
    BY <1>1 DEF Ancestors
<1>3. ASSUME NEW p \in Ancestors(n), NEW q \in Parents(p) PROVE q \in Ancestors(n)
    <2>1. p \in Hosts /\ q \in Hosts
        BY <1>1 DEF Ancestors
    <2>2. ASSUME NEW C \in SUBSET Hosts, Parents(n) \subseteq C, Upward(C) PROVE q \in C
        <3>1. p \in C
            BY <2>2 DEF Ancestors
        <3> QED BY <1>3, <2>2, <3>1 DEF Upward
    <2> QED BY <2>1, <2>2 DEF Ancestors
<1> QED BY <1>2, <1>3 DEF Upward

\* They are the least such set.
LEMMA AncestorsLeast ==
    ASSUME NEW n \in Hosts, NEW C \in SUBSET Hosts, Parents(n) \subseteq C, Upward(C)
    PROVE  Ancestors(n) \subseteq C
BY DEF Ancestors

\* An ancestor is a parent or an ancestor of one.
LEMMA AncestorsByParent ==
    ASSUME NEW n \in Hosts, NEW m \in Ancestors(n)
    PROVE  m \in Parents(n) \/ \E p \in Parents(n) : m \in Ancestors(p)
<1> DEFINE C == Parents(n) \cup UNION {Ancestors(p) : p \in Parents(n)}
<1>1. \A q \in Hosts : Parents(q) \subseteq Hosts /\ Ancestors(q) \subseteq Hosts
    BY DEF Parents, Ancestors
<1>2. C \in SUBSET Hosts
    BY <1>1
<1>3. ASSUME NEW q \in C PROVE Parents(q) \subseteq C
    <2>1. CASE q \in Parents(n)
        BY <1>1, <2>1, AncestorsUpward
    <2>2. ASSUME NEW p \in Parents(n), q \in Ancestors(p) PROVE Parents(q) \subseteq C
        <3>1. Parents(q) \subseteq Ancestors(p)
            BY <1>1, <2>2, AncestorsUpward DEF Upward
        <3> QED BY <3>1
    <2> QED BY <2>1, <2>2
<1>4. Upward(C)
    BY <1>3 DEF Upward
<1>5. Ancestors(n) \subseteq C
    BY <1>2, <1>4, AncestorsLeast
<1> QED BY <1>5

\* The ancestors of an ancestor are ancestors.
LEMMA AncestorsNest ==
    ASSUME NEW n \in Hosts, NEW m \in Ancestors(n)
    PROVE  m \in Hosts /\ Ancestors(m) \subseteq Ancestors(n)
<1>1. m \in Hosts /\ Ancestors(n) \in SUBSET Hosts
    BY DEF Ancestors
<1>2. Parents(m) \subseteq Ancestors(n) /\ Upward(Ancestors(n))
    BY AncestorsUpward DEF Upward
<1> QED BY <1>1, <1>2, AncestorsLeast

\* A set of hosts that has an ancestor of each of its members has one that is its own
\* ancestor: take a member with the fewest ancestors.
LEMMA LoopIsCycle ==
    ASSUME NEW N \in SUBSET Hosts, N # {}, \A n \in N : \E m \in N : m \in Ancestors(n)
    PROVE  \E n \in N : n \in Ancestors(n)
<1>1. \A n \in N : IsFiniteSet(Ancestors(n)) /\ Cardinality(Ancestors(n)) \in Nat
    <2>1. \A n \in N : Ancestors(n) \in SUBSET Hosts
        BY DEF Ancestors
    <2>2. \A n \in N : IsFiniteSet(Ancestors(n))
        BY <2>1, FS_Subset, IncidentGroupAssumption
    <2> QED BY <2>2, FS_CardinalityType
<1> DEFINE T == {Cardinality(Ancestors(n)) : n \in N}
<1>2. T \subseteq Nat /\ T # {}
    BY <1>1
<1>3. PICK k \in T : \A j \in T : <<j, k>> \notin OpToRel(<, Nat)
    BY <1>2, NatLessThanWellFounded, WFMin
<1>4. k \in Nat /\ \A j \in T : ~ (j < k)
    BY <1>2, <1>3 DEF OpToRel
<1>5. PICK n \in N : k = Cardinality(Ancestors(n))
    OBVIOUS
<1>6. PICK m \in N : m \in Ancestors(n)
    OBVIOUS
<1>7. Ancestors(m) \in SUBSET Ancestors(n)
    BY <1>6, AncestorsNest
<1>8. /\ Cardinality(Ancestors(m)) <= Cardinality(Ancestors(n))
      /\ Cardinality(Ancestors(n)) = Cardinality(Ancestors(m)) => Ancestors(n) = Ancestors(m)
    BY <1>1, <1>7, FS_Subset
<1>9. ~ (Cardinality(Ancestors(m)) < Cardinality(Ancestors(n)))
    BY <1>4, <1>5
<1>10. Ancestors(n) = Ancestors(m)
    <2> HIDE DEF T
    <2> QED BY <1>1, <1>8, <1>9
<1> QED BY <1>6, <1>10

\* The failed node DownRoot names is an ancestor, or the node itself.
LEMMA DownRootUp ==
    ASSUME NEW d, NEW n \in Hosts, NEW m \in DownRoot(d, n)
    PROVE  m \in Hosts /\ (m = n \/ m \in Ancestors(n))
<1>1. CASE ParentDown(d, n)
    <2>1. m \in Walk(d, n)!Above(n)
        BY <1>1 DEF DownRoot, Walk!First, Walk!Tops
    <2>2. \A p : Walk(d, n)!DownParents(p) \subseteq Parents(p)
        BY IncidentGroupAssumption DEF Walk!DownParents, Parents
    <2>3. Ancestors(n) \in SUBSET Hosts
        BY DEF Ancestors
    <2>4. Walk(d, n)!DownParents(n) \subseteq Ancestors(n)
        BY <2>2, AncestorsUpward
    <2>5. Walk(d, n)!Closed(Ancestors(n))
        BY <2>2, AncestorsUpward DEF Walk!Closed, Upward
    <2> QED BY <2>1, <2>3, <2>4, <2>5 DEF Walk!Above
<1>2. CASE ~ ParentDown(d, n)
    BY <1>2 DEF DownRoot
<1> QED BY <1>1, <1>2

-----------------------------------------------------------------------------
(* Incidents.                                                               *)

\* An incident is of a host, a root is one of silence, and None is none.
LEMMA IncidentFacts ==
    /\ \A x \in Incidents : Node(x) \in Hosts /\ Kind(x) \in {"silent", "metric"}
    /\ \A y \in Roots : y \in Incidents /\ Kind(y) = "silent"
    /\ None \notin Incidents
<1>1. \A x \in Incidents : x \in {"silent", "metric"} \X Hosts \X Nat
    BY IncidentGroupAssumption
<1>2. \A x \in Incidents : Node(x) \in Hosts /\ Kind(x) \in {"silent", "metric"}
    BY <1>1 DEF Node, Kind
<1>3. None \notin {"silent", "metric"} \X Hosts \X Nat
    BY DEF None
<1> QED BY <1>1, <1>2, <1>3 DEF Roots

\* The incident of the node DownRoot names is linked to: an ancestor's, or that of the
\* host's own silence, of which one is open at a time.
LEMMA FoundLinked ==
    ASSUME DbOK, OneOpen, NEW d, NEW x, NEW y \in Roots, Known(x), Known(y), x # y,
           Node(y) \in DownRoot(d, Node(x))
    PROVE  Linked(x, y)
<1>1. /\ x \in Incidents /\ y \in Incidents /\ Node(x) \in Hosts
      /\ Kind(x) \in {"silent", "metric"} /\ Kind(y) = "silent"
    BY IncidentFacts DEF Known
<1>2. Node(y) = Node(x) \/ Node(y) \in Ancestors(Node(x))
    BY <1>1, DownRootUp
<1>3. CASE Node(y) = Node(x) /\ Kind(x) = "silent"
    <2>1. ~ (status[x] = "open" /\ status[y] = "open")
        BY <1>1, <1>3 DEF OneOpen
    <2> QED BY <1>1, <2>1 DEF Known, DbOK, Linked
<1> QED BY <1>1, <1>2, <1>3 DEF Linked, Up

\* What steps do to incidents and groups: incidents open and close for good, and a group
\* stays until the janitor purges it.
Forward ==
    /\ \A x \in Incidents : (Known(x) => Known(x)') /\ (status[x] = "closed" => status'[x] = "closed")
    /\ \A y \in Roots : Live(y) => Live(y)'

\* What a goroutine knows stays true.
LEMMA TaskKept ==
    ASSUME Forward, NEW t \in Tasks, NEW c \in Task, TaskOK(t, c)
    PROVE  TaskOK(t, c)'
<1>1. ASSUME NEW x, Known(x) PROVE Known(x)'
    BY <1>1 DEF Forward, Known
<1>2. ASSUME NEW x, NEW y, Known(x), Known(y), Linked(x, y) PROVE Linked(x, y)'
    BY <1>2 DEF Forward, Known, Linked
<1>3. ASSUME NEW y, Live(y) PROVE Live(y)'
    BY <1>3 DEF Forward, Live
<1> QED BY <1>1, <1>2, <1>3 DEF TaskOK

\* One goroutine takes a step.
LEMMA TaskPut ==
    ASSUME Forward, TasksOK, NEW t \in Tasks, NEW c \in Task, TaskOK(t, c)',
           task' = [task EXCEPT ![t] = c]
    PROVE  TasksOK'
<1>1. task' \in [Tasks -> Task] /\ \A u \in Tasks : task'[u] = IF u = t THEN c ELSE task[u]
    BY DEF TasksOK
<1>2. ASSUME NEW u \in Tasks PROVE TaskOK(u, task[u])'
    <2>1. PICK e \in Task : e = task'[u]
        BY <1>1
    <2>2. TaskOK(u, e)'
        BY <1>1, <2>1, TaskKept DEF TasksOK
    <2> QED BY <2>1, <2>2
<1> QED BY <1>1, <1>2 DEF TasksOK

\* Memberships that do not change stay right.
LEMMA MembersKept ==
    ASSUME DbOK, DbOK', JoinedOK, LinksOK, Forward, UNCHANGED gid, joined' \subseteq joined
    PROVE  JoinedOK' /\ LinksOK'
<1>1. ASSUME NEW x, Known(x) PROVE Known(x)' /\ (status'[x] = "open" => status[x] = "open")
    BY <1>1 DEF Forward, Known, DbOK
<1>2. ASSUME NEW x, NEW y, Known(x), Known(y), Linked(x, y) PROVE Linked(x, y)'
    BY <1>2 DEF Forward, Known, Linked
<1>3. ASSUME NEW y, Live(y) PROVE Live(y)'
    BY <1>3 DEF Forward, Live
<1>4. JoinedOK'
    BY <1>1, <1>3 DEF JoinedOK
<1>5. ASSUME NEW x \in Incidents, gid'[x] # None PROVE Known(x)' /\ Known(gid[x])' /\ Linked(x, gid[x])'
    <2>1. PICK y : y = gid[x] /\ y = gid'[x]
        OBVIOUS
    <2>2. Known(x) /\ Known(y) /\ Linked(x, y)
        BY <1>5, <2>1 DEF LinksOK
    <2> QED BY <1>1, <1>2, <2>1, <2>2
<1> QED BY <1>4, <1>5 DEF LinksOK

-----------------------------------------------------------------------------
(* Steps of one goroutine that leave incidents, groups and memberships.     *)

\* A goroutine without a call knows nothing.
LEMMA IdleOK == Idle \in Task /\ \A t \in Tasks : TaskOK(t, Idle)
<1>1. Idle \in Task
    BY DEF Idle, Task, Stages
<1>2. Idle.pc = "idle" /\ Idle.load = "no" /\ Idle.grp = FALSE
    BY DEF Idle
<1> QED BY <1>1, <1>2 DEF TaskOK

\* OnRootOpened returns.
LEMMA OpeningOK ==
    ASSUME NEW t \in Tasks, NEW c \in Task, Known(c.inc)
    PROVE  Opening(c) \in Task /\ TaskOK(t, Opening(c))
<1>1. Opening(c) \in Task
    BY IdleOK DEF Opening, Task, Stages
<1>2. Opening(c).pc = "notify" /\ Opening(c).load = "no" /\ Opening(c).grp = FALSE /\ Opening(c).inc = c.inc
    BY DEF Opening, Idle
<1> QED BY <1>1, <1>2 DEF TaskOK

\* The next candidate.
LEMMA RestOK ==
    ASSUME NEW t \in Tasks, NEW c \in Task, c.load = "no", Known(c.inc), Known(c.root),
           \A x \in c.cands : Known(x) /\ x # c.root, c.grp => Live(c.root)
    PROVE  Rest(c) \in Task /\ TaskOK(t, Rest(c))
<1>1. CASE c.cands = {}
    BY <1>1, OpeningOK DEF Rest
<1>2. CASE c.cands # {}
    <2> DEFINE e == [c EXCEPT !.pc = "retro", !.cand = None]
    <2>1. e \in Task
        BY DEF Task, Stages
    <2>2. /\ e.pc = "retro" /\ e.load = c.load /\ e.inc = c.inc /\ e.root = c.root
          /\ e.cands = c.cands /\ e.grp = c.grp
        BY DEF Task
    <2>3. Rest(c) = e
        BY <1>2 DEF Rest
    <2> HIDE DEF e
    <2>4. TaskOK(t, e)
        BY <2>2 DEF TaskOK
    <2> QED BY <2>1, <2>3, <2>4
<1> QED BY <1>1, <1>2

\* Back in the callers of Attach.
LEMMA AttachEndsIs ==
    ASSUME TasksOK, NEW t \in Tasks, NEW ok \in BOOLEAN, AttachEnds(t, ok),
           task[t].pc \in {"attach", "find", "eligible", "ensure", "set"}
    PROVE  \E c \in Task :
              /\ TaskOK(t, c) /\ task' = [task EXCEPT ![t] = c] /\ c.load = "no"
              /\ t = "host" => /\ c.inc = task[t].inc /\ c.pc = (IF ok THEN "reroot" ELSE "invalidate")
                               /\ c.root = (IF ok THEN None ELSE task[t].inc)
              /\ t = "metric" => c.inc = task[t].inc /\ c.pc = "notify"
              /\ t = "scheduler" => c.pc = "idle"
<1>1. PICK e \in Task : e = task[t]
    BY DEF TasksOK
<1>2. Known(e.inc) /\ (t = "host" => e.inc \in Roots)
    BY <1>1 DEF TasksOK, TaskOK
<1> DEFINE back == [Idle EXCEPT !.inc = e.inc, !.held = ok /\ e.informing]
<1>3. back \in Task
    BY IdleOK DEF Task
<1>4. back.inc = e.inc /\ back.load = "no" /\ back.grp = FALSE
    BY DEF Idle
<1>5. CASE t = "host"
    <2> DEFINE c == [back EXCEPT !.pc = IF ok THEN "reroot" ELSE "invalidate",
                                 !.root = IF ok THEN None ELSE e.inc]
    <2>1. c \in Task
        <3> HIDE DEF back
        <3> QED BY <1>2, <1>3, <1>5 DEF Task, Stages
    <2>2. task' = [task EXCEPT ![t] = c]
        BY <1>1, <1>5 DEF AttachEnds, Put
    <2>3. /\ c.inc = e.inc /\ c.load = "no" /\ c.grp = FALSE
          /\ c.pc = (IF ok THEN "reroot" ELSE "invalidate")
          /\ c.root = (IF ok THEN None ELSE e.inc)
        <3> HIDE DEF back
        <3> QED BY <1>3, <1>4 DEF Task
    <2> HIDE DEF c
    <2>4. TaskOK(t, c)
        BY <1>2, <2>3 DEF TaskOK
    <2> QED BY <1>1, <1>5, <2>1, <2>2, <2>3, <2>4
<1>6. CASE t = "metric"
    <2> DEFINE c == [back EXCEPT !.pc = "notify"]
    <2>1. c \in Task
        <3> HIDE DEF back
        <3> QED BY <1>3 DEF Task, Stages
    <2>2. task' = [task EXCEPT ![t] = c]
        BY <1>1, <1>6 DEF AttachEnds, Put
    <2>3. c.inc = e.inc /\ c.load = "no" /\ c.grp = FALSE /\ c.pc = "notify"
        <3> HIDE DEF back
        <3> QED BY <1>3, <1>4 DEF Task
    <2> HIDE DEF c
    <2>4. TaskOK(t, c)
        BY <1>2, <2>3 DEF TaskOK
    <2> QED BY <1>1, <1>6, <2>1, <2>2, <2>3, <2>4
<1>7. CASE t = "scheduler"
    <2>1. task' = [task EXCEPT ![t] = Idle]
        BY <1>7 DEF AttachEnds, Put
    <2>2. Idle.load = "no" /\ Idle.pc = "idle"
        BY DEF Idle
    <2> QED BY <1>7, <2>1, <2>2, IdleOK
<1> QED BY <1>5, <1>6, <1>7 DEF Tasks

\* What they then know.
LEMMA AttachEndsOK ==
    ASSUME TasksOK, NEW t \in Tasks, NEW ok \in BOOLEAN, AttachEnds(t, ok),
           task[t].pc \in {"attach", "find", "eligible", "ensure", "set"}
    PROVE  \E c \in Task : TaskOK(t, c) /\ task' = [task EXCEPT ![t] = c]
BY AttachEndsIs

\* Such a step keeps the invariant.
LEMMA QuietStep ==
    ASSUME IInv, NEW t \in Tasks, NEW c \in Task, TaskOK(t, c), task' = [task EXCEPT ![t] = c],
           UNCHANGED <<status, gid, group, joined>>, cached' \subseteq Hosts
    PROVE  IInv'
<1>1. Forward
    BY DEF Forward, Known, Live
<1>2. DbOK'
    BY DEF IInv, DbOK
<1>3. TasksOK'
    BY <1>1, TaskKept, TaskPut DEF IInv
<1>4. OneOpen'
    BY DEF IInv, OneOpen
<1> QED BY <1>1, <1>2, <1>3, <1>4, MembersKept DEF IInv

\* A call of getSnapshot returns where it is awaited.
LEMMA Returned ==
    ASSUME NEW t \in Tasks, NEW e \in Task, TaskOK(t, e),
           e.pc \in {"attach", "reroot", "retro", "check"}, NEW S \in SUBSET Hosts
    PROVE  LET c == [e EXCEPT !.pc = Return(e.pc), !.load = "no", !.snap = S]
           IN  c \in Task /\ TaskOK(t, c)
<1> DEFINE c == [e EXCEPT !.pc = Return(e.pc), !.load = "no", !.snap = S]
<1>1. Return(e.pc) = IF e.pc = "attach" THEN "find" ELSE IF e.pc = "reroot" THEN "refind"
                     ELSE IF e.pc = "retro" THEN "match" ELSE "gate"
    BY DEF Return
<1>2. Return(e.pc) \in Stages
    BY <1>1 DEF Stages
<1>3. c \in Task
    BY <1>2 DEF Task
<1>4. /\ c.pc = Return(e.pc) /\ c.load = "no" /\ c.inc = e.inc /\ c.root = e.root
      /\ c.cands = e.cands /\ c.grp = e.grp
    BY DEF Task
<1> HIDE DEF c
<1>5. TaskOK(t, c)
    BY <1>1, <1>4 DEF TaskOK
<1> QED BY <1>3, <1>5 DEF c

\* getSnapshot.
LEMMA SnapshotStep ==
    ASSUME IInv, NEW t \in Tasks, Serve(t) \/ LoadRead(t) \/ LoadStamp(t) \/ LoadStore(t)
    PROVE  IInv'
<1> USE DEF db, cache, ghosts
<1>1. PICK e \in Task : e = task[t] /\ TaskOK(t, e)
    BY DEF IInv, TasksOK
<1>2. cached \in SUBSET Hosts /\ Down \in SUBSET Hosts /\ e.snap \in SUBSET Hosts
    BY IncidentFacts DEF IInv, DbOK, Down, Opened, Task
<1>3. task \in [Tasks -> Task] /\ e.load \in {"no", "read", "stamped"}
    BY DEF IInv, TasksOK, Task
<1>4. CASE Serve(t)
    <2> DEFINE c == [e EXCEPT !.pc = Return(e.pc), !.load = "no", !.snap = cached]
    <2>1. c \in Task /\ TaskOK(t, c)
        BY <1>1, <1>2, <1>4, Returned DEF Serve, Calls
    <2>2. task' = [task EXCEPT ![t] = c]
        BY <1>1, <1>3, <1>4 DEF Serve, Task
    <2> HIDE DEF c
    <2> QED BY <1>2, <1>4, <2>1, <2>2, QuietStep DEF Serve
<1>5. CASE LoadRead(t)
    <2> DEFINE c == [e EXCEPT !.load = "read", !.snap = Down]
    <2>1. c \in Task
        BY <1>2 DEF Task
    <2>2. task' = [task EXCEPT ![t] = c]
        BY <1>1, <1>3, <1>5 DEF LoadRead, Task
    <2>3. c.pc = e.pc /\ c.inc = e.inc /\ c.root = e.root /\ c.cands = e.cands /\ c.cand = e.cand /\ c.grp = e.grp
        BY DEF Task
    <2> HIDE DEF c
    <2>4. TaskOK(t, c)
        BY <1>1, <1>5, <2>3 DEF TaskOK, LoadRead, Calls
    <2> QED BY <1>2, <1>5, <2>1, <2>2, <2>4, QuietStep DEF LoadRead
<1>6. CASE LoadStamp(t)
    <2> DEFINE c == [e EXCEPT !.load = "stamped"]
    <2>1. c \in Task
        BY DEF Task
    <2>2. task' = [task EXCEPT ![t] = c]
        BY <1>1, <1>3, <1>6 DEF LoadStamp, Task
    <2>3. c.pc = e.pc /\ c.inc = e.inc /\ c.root = e.root /\ c.cands = e.cands /\ c.cand = e.cand /\ c.grp = e.grp
        BY DEF Task
    <2> HIDE DEF c
    <2>4. TaskOK(t, c)
        BY <1>1, <1>6, <2>3 DEF TaskOK, LoadStamp
    <2> QED BY <1>2, <1>6, <2>1, <2>2, <2>4, QuietStep DEF LoadStamp
<1>7. CASE LoadStore(t)
    <2> DEFINE c == [e EXCEPT !.pc = Return(e.pc), !.load = "no", !.snap = e.snap]
    <2>1. e.pc \in {"attach", "reroot", "retro", "check"}
        BY <1>1, <1>7 DEF LoadStore, TaskOK
    <2>2. c \in Task /\ TaskOK(t, c)
        BY <1>1, <1>2, <2>1, Returned
    <2>3. task' = [task EXCEPT ![t] = c]
        BY <1>1, <1>3, <1>7 DEF LoadStore, Task
    <2> HIDE DEF c
    <2>4. cached' \subseteq Hosts
        BY <1>1, <1>2, <1>7 DEF LoadStore
    <2> QED BY <1>7, <2>2, <2>3, <2>4, QuietStep DEF LoadStore
<1> QED BY <1>4, <1>5, <1>6, <1>7

-----------------------------------------------------------------------------

\* The root that Attach finds.
LEMMA FindStep == ASSUME IInv, NEW t \in Tasks, Find(t) PROVE IInv'
<1> USE DEF db, cache, ghosts
<1>1. PICK e \in Task : e = task[t] /\ TaskOK(t, e)
    BY DEF IInv, TasksOK
<1>2. task \in [Tasks -> Task] /\ cached \subseteq Hosts /\ e.pc = "find" /\ Known(e.inc) /\ e.grp \in BOOLEAN
    BY <1>1 DEF IInv, DbOK, TasksOK, TaskOK, Find, Task
<1>3. UNCHANGED <<status, gid, group, joined, cached>>
    BY DEF Find
<1>4. CASE AttachEnds(t, FALSE)
    BY <1>1, <1>2, <1>3, <1>4, AttachEndsOK, QuietStep DEF IInv
<1>5. ASSUME NEW y \in RootIncident(DownRoot(e.snap, Node(e.inc))), e.inc # y,
             task' = [task EXCEPT ![t].pc = "eligible", ![t].snap = {},
                                  ![t].root = y, ![t].informing = y \in notified]
      PROVE  IInv'
    <2> DEFINE b == y \in notified
    <2>1. b \in BOOLEAN
        OBVIOUS
    <2> DEFINE c == [e EXCEPT !.pc = "eligible", !.snap = {}, !.root = y, !.informing = b]
    <2>2. y \in Roots /\ Known(y) /\ Node(y) \in DownRoot(e.snap, Node(e.inc))
        BY DEF RootIncident, Opened, Known
    <2>3. c \in Task
        <3> HIDE DEF b
        <3> QED BY <2>1, <2>2 DEF Task, Stages
    <2>4. task' = [task EXCEPT ![t] = c]
        BY <1>1, <1>2, <1>5 DEF Task
    <2>5. /\ c.pc = "eligible" /\ c.load = e.load /\ c.inc = e.inc /\ c.root = y /\ c.grp = e.grp
        BY DEF Task
    <2> HIDE DEF c
    <2>6. Linked(e.inc, y)
        BY <1>2, <1>5, <2>2, FoundLinked DEF IInv
    <2>7. TaskOK(t, c)
        BY <1>1, <1>2, <2>2, <2>5, <2>6 DEF TaskOK
    <2> QED BY <1>2, <1>3, <2>3, <2>4, <2>7, QuietStep
<1> QED BY <1>1, <1>4, <1>5 DEF Find, Foreign

\* The rest of Attach before its group, and the scheduler's gate.
LEMMA GateStep ==
    ASSUME IInv, NEW t \in Tasks,
           \/ MemberEligible(t) \/ MarkSuppressed(t) \/ (\E sent \in BOOLEAN : NotifyOpen(t, sent))
    PROVE  IInv'
<1> USE DEF db, cache, ghosts
<1>1. PICK e \in Task : e = task[t] /\ TaskOK(t, e)
    BY DEF IInv, TasksOK
<1>2. task \in [Tasks -> Task] /\ cached \subseteq Hosts
    BY DEF IInv, DbOK, TasksOK
<1>3. UNCHANGED <<status, gid, group, joined, cached>>
    BY DEF MemberEligible, MarkSuppressed, NotifyOpen
<1>4. CASE MemberEligible(t)
    <2>1. CASE AttachEnds(t, FALSE)
        BY <1>1, <1>2, <1>3, <1>4, <2>1, AttachEndsOK, QuietStep DEF IInv, MemberEligible
    <2>2. CASE task' = [task EXCEPT ![t].pc = "ensure"]
        <3> DEFINE c == [e EXCEPT !.pc = "ensure"]
        <3>1. c \in Task
            BY DEF Task, Stages
        <3>2. task' = [task EXCEPT ![t] = c]
            BY <1>1, <1>2, <2>2 DEF Task
        <3>3. c.pc = "ensure" /\ c.load = e.load /\ c.inc = e.inc /\ c.root = e.root /\ c.grp = e.grp
            BY DEF Task
        <3> HIDE DEF c
        <3>4. TaskOK(t, c)
            BY <1>1, <1>4, <3>3 DEF TaskOK, MemberEligible
        <3> QED BY <1>2, <1>3, <3>1, <3>2, <3>4, QuietStep
    <2> QED BY <1>4, <2>1, <2>2 DEF MemberEligible
<1>5. CASE MarkSuppressed(t)
    <2>1. CASE task' = [task EXCEPT ![t].pc = "attach", ![t].snap = {}]
        <3> DEFINE c == [e EXCEPT !.pc = "attach", !.snap = {}]
        <3>1. c \in Task
            BY DEF Task, Stages
        <3>2. task' = [task EXCEPT ![t] = c]
            BY <1>1, <1>2, <2>1 DEF Task
        <3>3. c.pc = "attach" /\ c.load = e.load /\ c.inc = e.inc /\ c.root = e.root /\ c.grp = e.grp
            BY DEF Task
        <3> HIDE DEF c
        <3>4. TaskOK(t, c)
            BY <1>1, <1>5, <3>3 DEF TaskOK, MarkSuppressed
        <3> QED BY <1>2, <1>3, <3>1, <3>2, <3>4, QuietStep
    <2>2. CASE task' = Put(task, t, Idle)
        BY <1>2, <1>3, <2>2, IdleOK, QuietStep DEF Put
    <2> QED BY <1>5, <2>1, <2>2 DEF MarkSuppressed
<1>6. CASE \E sent \in BOOLEAN : NotifyOpen(t, sent)
    <2>1. task' = Put(task, t, Idle)
        BY <1>6 DEF NotifyOpen
    <2> QED BY <1>2, <1>3, <2>1, IdleOK, QuietStep DEF Put
<1> QED BY <1>4, <1>5, <1>6

\* The ladder sees a host incident.
LEMMA CheckStep == ASSUME IInv, NEW x \in Incidents, CheckIncident(x) PROVE IInv'
<1> USE DEF db, cache, ghosts
<1> DEFINE t == "scheduler"
           c == [Idle EXCEPT !.pc = "check", !.inc = x]
<1>1. t \in Tasks /\ task \in [Tasks -> Task] /\ cached \subseteq Hosts /\ task[t] = Idle
    BY DEF IInv, DbOK, TasksOK, CheckIncident, Free, Tasks
<1>2. c \in Task
    BY IdleOK DEF Task, Stages
<1>3. task' = [task EXCEPT ![t] = c]
    BY <1>1, IdleOK DEF CheckIncident, Task
<1>4. c.pc = "check" /\ c.load = "no" /\ c.inc = x /\ c.grp = FALSE
    BY DEF Idle
<1>5. Known(x) /\ x \in Roots
    BY DEF CheckIncident, Opened, Known
<1> HIDE DEF c, t
<1>6. TaskOK(t, c)
    BY <1>4, <1>5 DEF TaskOK
<1>7. UNCHANGED <<status, gid, group, joined, cached>>
    BY DEF CheckIncident
<1> QED BY <1>1, <1>2, <1>3, <1>6, <1>7, QuietStep

\* OnRootOpened before its group.
LEMMA PassStep ==
    ASSUME IInv, NEW t \in Tasks, Refind(t) \/ Invalidate(t) \/ OpenCandidates(t)
    PROVE  IInv'
<1> USE DEF db, cache, ghosts
<1>1. PICK e \in Task : e = task[t] /\ TaskOK(t, e)
    BY DEF IInv, TasksOK
<1>2. task \in [Tasks -> Task] /\ cached \subseteq Hosts
    BY DEF IInv, DbOK, TasksOK
<1>3. UNCHANGED <<status, gid, group, joined>> /\ cached' \subseteq Hosts
    BY <1>2 DEF Refind, Invalidate, DropCache, OpenCandidates
<1>4. CASE Refind(t)
    <2>1. CASE task' = Put(task, t, Opening(e))
        <3>1. Known(e.inc)
            BY <1>1, <1>4 DEF TaskOK, Refind
        <3> QED BY <1>2, <1>3, <2>1, <3>1, OpeningOK, QuietStep DEF Put
    <2>2. ASSUME NEW y \in RootIncident(DownRoot(e.snap, Node(e.inc))),
                 task' = [task EXCEPT ![t].pc = "invalidate", ![t].root = y, ![t].snap = {}]
          PROVE  IInv'
        <3> DEFINE c == [e EXCEPT !.pc = "invalidate", !.root = y, !.snap = {}]
        <3>1. y \in Roots /\ Known(y)
            BY DEF RootIncident, Opened, Known
        <3>2. c \in Task
            BY <3>1 DEF Task, Stages
        <3>3. task' = [task EXCEPT ![t] = c]
            BY <1>1, <1>2, <2>2 DEF Task
        <3>4. c.pc = "invalidate" /\ c.load = e.load /\ c.inc = e.inc /\ c.root = y /\ c.grp = e.grp
            BY DEF Task
        <3> HIDE DEF c
        <3>5. TaskOK(t, c)
            BY <1>1, <1>4, <3>1, <3>4 DEF TaskOK, Refind
        <3> QED BY <1>2, <1>3, <3>2, <3>3, <3>5, QuietStep
    <2> QED BY <1>1, <1>4, <2>1, <2>2 DEF Refind
<1>5. CASE Invalidate(t)
    <2> DEFINE c == [e EXCEPT !.pc = "cands"]
    <2>1. c \in Task
        BY DEF Task, Stages
    <2>2. task' = [task EXCEPT ![t] = c]
        BY <1>1, <1>2, <1>5 DEF Invalidate, Task
    <2>3. c.pc = "cands" /\ c.load = e.load /\ c.inc = e.inc /\ c.root = e.root /\ c.grp = e.grp
        BY DEF Task
    <2> HIDE DEF c
    <2>4. TaskOK(t, c)
        BY <1>1, <1>5, <2>3 DEF TaskOK, Invalidate
    <2> QED BY <1>2, <1>3, <2>1, <2>2, <2>4, QuietStep
<1>6. CASE OpenCandidates(t)
    <2> DEFINE C == {x \in Opened : Eligible(x) /\ Foreign(e.root, x)}
               c == [e EXCEPT !.cands = C]
    <2>1. C \in SUBSET Incidents /\ \A x \in C : Known(x) /\ x # e.root
        BY DEF Opened, Known, Foreign
    <2> HIDE DEF C
    <2>2. c \in Task /\ task' = [task EXCEPT ![t] = Rest(c)]
        BY <1>1, <1>6, <2>1 DEF Task, OpenCandidates, Put, C
    <2>3. c.load = e.load /\ c.inc = e.inc /\ c.root = e.root /\ c.grp = e.grp /\ c.cands = C
        BY DEF Task
    <2> HIDE DEF c
    <2>4. e.pc = "cands" /\ e.load = "no" /\ Known(e.inc) /\ Known(e.root) /\ ~ e.grp
        BY <1>1, <1>6 DEF OpenCandidates, TaskOK
    <2>5. Rest(c) \in Task /\ TaskOK(t, Rest(c))
        BY <2>1, <2>2, <2>3, <2>4, RestOK
    <2> QED BY <1>2, <1>3, <2>2, <2>5, QuietStep
<1> QED BY <1>4, <1>5, <1>6

\* A candidate of the pass is linked to its root, or passed over.
LEMMA MatchStep == ASSUME IInv, NEW t \in Tasks, NEW x \in Incidents, Match(t, x) PROVE IInv'
<1> USE DEF db, cache, ghosts
<1>1. PICK e \in Task : e = task[t] /\ TaskOK(t, e)
    BY DEF IInv, TasksOK
<1>2. task \in [Tasks -> Task] /\ cached \subseteq Hosts
    BY DEF IInv, DbOK, TasksOK
<1>3. UNCHANGED <<status, gid, group, joined, cached>>
    BY DEF Match
<1>4. /\ e.pc = "match" /\ e.load = "no" /\ x \in e.cands /\ Known(x) /\ x # e.root
      /\ Known(e.inc) /\ Known(e.root) /\ e.root \in Roots
      /\ \A z \in e.cands : Known(z) /\ z # e.root
    <2>1. None \notin Incidents
        BY IncidentFacts
    <2>2. e.root \in Roots \cup {None} /\ e.load \in {"no", "read", "stamped"}
        BY DEF Task
    <2> QED BY <1>1, <2>1, <2>2 DEF Match, TaskOK, Known
<1>5. e.grp => Live(e.root)
    BY <1>1 DEF TaskOK
<1> DEFINE c == [e EXCEPT !.cands = e.cands \ {x}, !.snap = {}]
<1>6. c \in Task
    BY DEF Task
<1>7. c.pc = e.pc /\ c.load = "no" /\ c.inc = e.inc /\ c.root = e.root /\ c.grp = e.grp /\ c.cands = e.cands \ {x}
    BY <1>4 DEF Task
<1>8. CASE task' = [task EXCEPT ![t] = Rest(c)]
    <2> HIDE DEF c
    <2>1. Rest(c) \in Task /\ TaskOK(t, Rest(c))
        BY <1>4, <1>5, <1>6, <1>7, RestOK
    <2> QED BY <1>2, <1>3, <1>8, <2>1, QuietStep
<1>9. CASE /\ DownRoot(e.snap, Node(x)) = {Node(e.root)}
           /\ task' = [task EXCEPT ![t] = [c EXCEPT !.pc = IF c.grp THEN "join" ELSE "group", !.cand = x]]
    <2> HIDE DEF c
    <2> DEFINE g == [c EXCEPT !.pc = IF c.grp THEN "join" ELSE "group", !.cand = x]
    <2>1. Linked(x, e.root)
        BY <1>4, <1>9, FoundLinked DEF IInv
    <2>2. g \in Task
        BY <1>6 DEF Task, Stages
    <2>3. /\ g.pc = (IF c.grp THEN "join" ELSE "group") /\ g.load = "no" /\ g.inc = e.inc
          /\ g.root = e.root /\ g.grp = e.grp /\ g.cands = e.cands \ {x} /\ g.cand = x
        BY <1>6, <1>7 DEF Task
    <2>4. task' = [task EXCEPT ![t] = g]
        BY <1>9
    <2> HIDE DEF g
    <2>5. TaskOK(t, g)
        BY <1>1, <1>4, <1>5, <1>7, <2>1, <2>3 DEF TaskOK
    <2> QED BY <1>2, <1>3, <2>2, <2>4, <2>5, QuietStep
<1>10. task' = [task EXCEPT ![t] = IF DownRoot(e.snap, Node(x)) = {Node(e.root)}
                                   THEN [c EXCEPT !.pc = IF c.grp THEN "join" ELSE "group", !.cand = x]
                                   ELSE Rest(c)]
    <2>1. c = [task[t] EXCEPT !.cands = @ \ {x}, !.snap = {}]
        BY <1>1
    <2> HIDE DEF c
    <2> QED BY <1>1, <1>7, <2>1 DEF Match, Put
<1> HIDE DEF c
<1> QED BY <1>8, <1>9, <1>10

-----------------------------------------------------------------------------
(* Groups and memberships.                                                  *)

\* INSERT ... ON CONFLICT DO NOTHING: the incidents and their links stay, and an open group
\* can be joined.
LEMMA EnsuredOK ==
    ASSUME IInv, NEW y \in Roots, group' = Put(group, y, Ensured(y)),
           UNCHANGED <<status, gid, joined, cached>>
    PROVE  /\ Forward /\ DbOK' /\ OneOpen' /\ JoinedOK' /\ LinksOK'
           /\ Ensured(y) = "open" => Live(y)'
<1>1. DbOK'
    BY DEF IInv, DbOK, Put, Ensured
<1>2. /\ \A z \in Roots : group'[z] = IF z = y THEN Ensured(y) ELSE group[z]
      /\ Ensured(y) = "open" => Live(y)'
    BY DEF IInv, DbOK, Put, Live
<1>3. Forward
    BY <1>2 DEF Forward, Known, Live, Ensured
<1>4. OneOpen'
    BY DEF IInv, OneOpen
<1> QED BY <1>1, <1>2, <1>3, <1>4, MembersKept DEF IInv

\* EnsureGroup of Attach and of OnRootOpened.
LEMMA GroupStep ==
    ASSUME IInv, NEW t \in Tasks, EnsureGroup(t) \/ GroupOfRoot(t)
    PROVE  IInv'
<1> USE DEF cache, ghosts
<1>1. PICK e \in Task : e = task[t] /\ TaskOK(t, e)
    BY DEF IInv, TasksOK
<1>2. task \in [Tasks -> Task] /\ e.pc \in {"ensure", "group"} /\ Known(e.inc) /\ Known(e.root) /\ e.load = "no"
    BY <1>1 DEF IInv, TasksOK, TaskOK, EnsureGroup, GroupOfRoot
<1>3. e.root \in Roots
    BY <1>2, IncidentFacts DEF Task, Known
<1>4. PICK y \in Roots : y = e.root
    BY <1>3
<1>5. group' = Put(group, y, Ensured(y)) /\ UNCHANGED <<status, gid, joined, cached>>
    BY <1>1, <1>4 DEF EnsureGroup, GroupOfRoot
<1>6. Forward /\ DbOK' /\ OneOpen' /\ JoinedOK' /\ LinksOK' /\ (Ensured(y) = "open" => Live(y)')
    BY <1>5, EnsuredOK
<1>7. ASSUME NEW c \in Task, TaskOK(t, c), task' = [task EXCEPT ![t] = c] PROVE TasksOK'
    BY <1>6, <1>7, TaskKept, TaskPut DEF IInv
<1>8. CASE EnsureGroup(t)
    <2>1. CASE AttachEnds(t, FALSE)
        <3>1. PICK c \in Task : TaskOK(t, c) /\ task' = [task EXCEPT ![t] = c]
            BY <1>8, <2>1, AttachEndsOK DEF IInv, EnsureGroup
        <3> QED BY <1>6, <1>7, <3>1 DEF IInv
    <2>2. CASE Ensured(y) = "open" /\ task' = [task EXCEPT ![t].pc = "set"]
        <3> DEFINE c == [e EXCEPT !.pc = "set"]
        <3>1. c \in Task
            BY DEF Task, Stages
        <3>2. task' = [task EXCEPT ![t] = c]
            BY <1>1, <1>2, <2>2 DEF Task
        <3>3. c.pc = "set" /\ c.load = e.load /\ c.inc = e.inc /\ c.root = e.root /\ c.grp = e.grp
            BY DEF Task
        <3> HIDE DEF c
        <3>4. TaskOK(t, e)' /\ Live(y)'
            BY <1>1, <1>6, <2>2, TaskKept
        <3>5. TaskOK(t, c)'
            BY <1>1, <1>4, <1>8, <3>3, <3>4 DEF TaskOK, EnsureGroup
        <3> QED BY <1>6, <3>1, <3>2, <3>5, TaskPut DEF IInv
    <2> QED BY <1>1, <1>4, <1>8, <2>1, <2>2 DEF EnsureGroup
<1>9. CASE GroupOfRoot(t)
    <2>1. CASE task' = [task EXCEPT ![t] = Opening(e)]
        BY <1>2, <1>6, <1>7, <2>1, OpeningOK DEF IInv
    <2>2. CASE Ensured(y) = "open" /\ task' = [task EXCEPT ![t] = [e EXCEPT !.pc = "join", !.grp = TRUE]]
        <3> DEFINE c == [e EXCEPT !.pc = "join", !.grp = TRUE]
        <3>1. c \in Task
            BY DEF Task, Stages
        <3>2. task' = [task EXCEPT ![t] = c]
            BY <2>2
        <3>3. /\ c.pc = "join" /\ c.load = e.load /\ c.inc = e.inc /\ c.root = e.root
              /\ c.cands = e.cands /\ c.cand = e.cand
            BY DEF Task
        <3> HIDE DEF c
        <3>4. TaskOK(t, e)' /\ Live(y)'
            BY <1>1, <1>6, <2>2, TaskKept
        <3>5. TaskOK(t, c)'
            BY <1>1, <1>4, <1>9, <3>3, <3>4 DEF TaskOK, GroupOfRoot
        <3> QED BY <1>6, <3>1, <3>2, <3>5, TaskPut DEF IInv
    <2> QED BY <1>1, <1>4, <1>9, <2>1, <2>2 DEF GroupOfRoot, Put
<1> QED BY <1>8, <1>9

\* SetGroup's UPDATE: a known incident comes under a group it is linked to.
LEMMA JoinOK ==
    ASSUME IInv, NEW x, NEW y, Known(x), Known(y), Linked(x, y), Live(y), Join(x, y),
           UNCHANGED <<status, group>>, cached' \subseteq Hosts
    PROVE  Forward /\ DbOK' /\ OneOpen' /\ JoinedOK' /\ LinksOK'
<1>1. x \in Incidents /\ y \in Roots
    BY DEF Known, Live
<1>2. Forward
    BY DEF Forward, Known, Live
<1>3. OneOpen'
    BY DEF IInv, OneOpen
<1>4. CASE UNCHANGED <<gid, joined>>
    BY <1>2, <1>3, <1>4, MembersKept DEF IInv, DbOK
<1>5. CASE gid' = Put(gid, x, y) /\ joined' = joined \cup {z \in {x} : group[y] = "open"}
    <2>1. DbOK'
        BY <1>1, <1>5 DEF IInv, DbOK, Put
    <2>2. \A z \in Incidents : gid'[z] = IF z = x THEN y ELSE gid[z]
        BY <1>1, <1>5 DEF IInv, DbOK, Put
    <2>3. \A z : Known(z)' <=> Known(z)
        BY DEF Known
    <2>4. \A z : Live(z)' <=> Live(z)
        BY DEF Live
    <2>5. \A z, w : Linked(z, w)' <=> Linked(z, w)
        BY DEF Linked
    <2>6. LinksOK'
        <3>1. ASSUME NEW z \in Incidents, gid'[z] # None
              PROVE  \E w : w = gid'[z] /\ Known(z)' /\ Known(w)' /\ Linked(z, w)'
            <4>1. CASE z = x
                BY <2>2, <2>3, <2>5, <4>1
            <4>2. CASE z # x
                BY <2>2, <2>3, <2>5, <3>1, <4>2 DEF IInv, LinksOK
            <4> QED BY <4>1, <4>2
        <3> QED BY <3>1 DEF LinksOK
    <2>7. JoinedOK'
        <3>1. ASSUME NEW z \in joined'
              PROVE  \E w : /\ w = gid'[z] /\ Known(z)' /\ w \in Roots
                            /\ status'[z] = "open" => Live(w)'
            <4>1. CASE z = x
                BY <1>1, <2>2, <2>3, <2>4, <4>1
            <4>2. CASE z # x
                <5>1. z \in joined /\ z \in Incidents
                    BY <1>5, <4>2 DEF IInv, DbOK
                <5> QED BY <2>2, <2>3, <2>4, <4>2, <5>1 DEF IInv, JoinedOK
            <4> QED BY <4>1, <4>2
        <3> QED BY <3>1 DEF JoinedOK
    <2> QED BY <1>2, <1>3, <2>1, <2>6, <2>7
<1> QED BY <1>4, <1>5 DEF Join

\* Attach and OnRootOpened join.
LEMMA JoinStep ==
    ASSUME IInv, NEW t \in Tasks, SetGroup(t) \/ JoinCandidate(t)
    PROVE  IInv'
<1> USE DEF cache
<1>1. PICK e \in Task : e = task[t] /\ TaskOK(t, e)
    BY DEF IInv, TasksOK
<1>2. UNCHANGED <<status, group>> /\ cached' \subseteq Hosts
    BY DEF SetGroup, JoinCandidate, IInv, DbOK
<1>3. CASE SetGroup(t)
    <2>1. PICK x, y : x = e.inc /\ y = e.root
        OBVIOUS
    <2>2. Known(x) /\ Known(y) /\ Linked(x, y) /\ Live(y) /\ Join(x, y)
        BY <1>1, <1>3, <2>1 DEF SetGroup, TaskOK
    <2>3. Forward /\ DbOK' /\ OneOpen' /\ JoinedOK' /\ LinksOK'
        BY <1>2, <2>2, JoinOK
    <2>4. \E ok \in BOOLEAN : AttachEnds(t, ok)
        <3>1. Eligible(task[t].inc) \in BOOLEAN
            BY DEF Eligible
        <3> QED BY <1>3, <3>1 DEF SetGroup
    <2>5. PICK c \in Task : TaskOK(t, c) /\ task' = [task EXCEPT ![t] = c]
        BY <1>3, <2>4, AttachEndsOK DEF SetGroup, IInv
    <2>6. TasksOK'
        BY <2>3, <2>5, TaskKept, TaskPut DEF IInv
    <2> QED BY <2>3, <2>6 DEF IInv
<1>4. CASE JoinCandidate(t)
    <2>1. PICK x, y : x = e.cand /\ y = e.root
        OBVIOUS
    <2>2. Known(x) /\ Known(y) /\ Linked(x, y) /\ Live(y) /\ Join(x, y)
        BY <1>1, <1>4, <2>1 DEF JoinCandidate, TaskOK
    <2>3. Forward /\ DbOK' /\ OneOpen' /\ JoinedOK' /\ LinksOK'
        BY <1>2, <2>2, JoinOK
    <2>4. e.load = "no" /\ Known(e.inc) /\ \A z \in e.cands : Known(z) /\ z # e.root
        BY <1>1, <1>4 DEF JoinCandidate, TaskOK
    <2>5. Rest(e) \in Task /\ TaskOK(t, Rest(e))
        BY <2>1, <2>2, <2>4, RestOK
    <2>6. TasksOK'
        BY <1>1, <1>4, <2>3, <2>5, TaskKept, TaskPut DEF IInv, JoinCandidate, Put
    <2> QED BY <2>3, <2>6 DEF IInv
<1> QED BY <1>3, <1>4

-----------------------------------------------------------------------------
(* Incidents open and close.                                                *)

\* A new incident is the only open one of its signal.
LEMMA OpenStep == ASSUME IInv, NEW x \in Incidents, Open(x) PROVE IInv'
<1> USE DEF cache
<1> DEFINE t == Evaluator(x)
           c == [Idle EXCEPT !.pc = "attach", !.inc = x]
<1>1. /\ t \in Tasks /\ task \in [Tasks -> Task] /\ task[t] = Idle /\ (t = "host" => x \in Roots)
      /\ status \in [Incidents -> {"none", "open", "closed"}]
    BY DEF IInv, DbOK, TasksOK, Open, Free, Evaluator, Tasks
<1>2. c \in Task /\ c.pc = "attach" /\ c.load = "no" /\ c.inc = x /\ c.grp = FALSE
    BY IdleOK DEF Task, Stages, Idle
<1>3. task' = [task EXCEPT ![t] = c]
    BY <1>1, IdleOK DEF Open, Task
<1>4. /\ status' = [status EXCEPT ![x] = "open"] /\ UNCHANGED <<gid, group, joined, cached>>
      /\ \A y \in Incidents : Kind(y) = Kind(x) /\ Node(y) = Node(x) => status[y] # "open"
      /\ status[x] # "closed"
    <2>1. status' = [status EXCEPT ![x] = "open"] /\ UNCHANGED <<gid, group, joined, cached>>
        BY DEF Open, Put
    <2>2. x[3] \in Nat
        BY IncidentGroupAssumption
    <2>3. \A y \in Incidents : Kind(y) = Kind(x) /\ Node(y) = Node(x) =>
              status[y] = IF y[3] < x[3] THEN "closed" ELSE "none"
        BY DEF Open, Startable
    <2>4. status[x] = "none"
        BY <2>2, <2>3
    <2> QED BY <2>1, <2>3, <2>4
<1> HIDE DEF c, t
<1>5. DbOK'
    BY <1>1, <1>4 DEF IInv, DbOK
<1>6. Forward
    BY <1>1, <1>4 DEF Forward, Known, Live
<1>7. OneOpen'
    BY <1>1, <1>4 DEF IInv, OneOpen
<1>8. Known(x)'
    BY <1>1, <1>4 DEF Known
<1>9. TaskOK(t, c)'
    BY <1>1, <1>2, <1>8 DEF TaskOK
<1>10. TasksOK'
    BY <1>1, <1>2, <1>3, <1>6, <1>9, TaskPut DEF IInv
<1> QED BY <1>4, <1>5, <1>6, <1>7, <1>10, MembersKept DEF IInv

\* An incident is resolved, with or without groupRootClosed.
LEMMA CloseStep == ASSUME IInv, NEW x \in Incidents, Close(x) \/ CloseDisabled(x) PROVE IInv'
<1> USE DEF cache
<1> DEFINE t == Evaluator(x)
           c == [Idle EXCEPT !.pc = "closing", !.root = x]
<1>1. /\ t \in Tasks /\ task \in [Tasks -> Task] /\ task[t] = Idle
      /\ status \in [Incidents -> {"none", "open", "closed"}] /\ x # None
    BY IncidentFacts DEF IInv, DbOK, TasksOK, Close, CloseDisabled, Resolved, Free, Evaluator, Tasks
<1>2. ASSUME x \in Roots PROVE c \in Task /\ c.pc = "closing" /\ c.load = "no" /\ c.root = x /\ c.grp = FALSE
    BY <1>2, IdleOK DEF Task, Stages, Idle
<1>3. (x \in Roots /\ task' = [task EXCEPT ![t] = c]) \/ task' = task
    BY <1>1, IdleOK DEF Close, CloseDisabled, Task, Evaluator
<1>4. /\ status' = [status EXCEPT ![x] = "closed"] /\ UNCHANGED <<gid, group, cached>>
      /\ joined' = joined \ {x}
    BY DEF Close, CloseDisabled, Resolved, Put
<1> HIDE DEF c, t
<1>5. DbOK'
    BY <1>1, <1>4 DEF IInv, DbOK
<1>6. Forward
    BY <1>1, <1>4 DEF Forward, Known, Live
<1>7. OneOpen'
    BY <1>1, <1>4 DEF IInv, OneOpen
<1>8. TasksOK'
    <2>1. CASE x \in Roots /\ task' = [task EXCEPT ![t] = c]
        <3>1. TaskOK(t, c)'
            BY <1>1, <1>2, <2>1 DEF TaskOK
        <3> QED BY <1>1, <1>2, <1>3, <1>6, <2>1, <3>1, TaskPut DEF IInv
    <2>2. CASE task' = task
        <3>1. Idle \in Task /\ TaskOK(t, Idle)' /\ task' = [task EXCEPT ![t] = Idle]
            <4>1. TaskOK(t, Idle)'
                BY <1>1, <1>6, IdleOK, TaskKept
            <4> QED BY <1>1, <1>3, <2>2, <4>1, IdleOK
        <3> QED BY <1>1, <1>6, <3>1, TaskPut DEF IInv
    <2> QED BY <1>3, <2>1, <2>2
<1> QED BY <1>4, <1>5, <1>6, <1>7, <1>8, MembersKept DEF IInv

\* Open groups are resolved; they can still be joined.
LEMMA ResolveOK ==
    ASSUME IInv, NEW Y \in SUBSET {y \in Roots : group[y] = "open"}, Resolve(Y),
           UNCHANGED <<status, gid, joined, cached>>
    PROVE  Forward /\ DbOK' /\ OneOpen' /\ JoinedOK' /\ LinksOK'
<1>1. group' = [y \in Roots |-> IF y \in Y THEN "resolved" ELSE group[y]]
    BY DEF Resolve
<1>2. DbOK'
    BY <1>1 DEF IInv, DbOK
<1>3. Forward
    BY <1>1 DEF Forward, Known, Live
<1>4. OneOpen'
    BY DEF IInv, OneOpen
<1> QED BY <1>2, <1>3, <1>4, MembersKept DEF IInv

\* The root is closed, or the janitor finds it closed.
LEMMA ResolveStep ==
    ASSUME IInv, SweepOrphanGroups \/ \E t \in Tasks : OnRootClosed(t)
    PROVE  IInv'
<1> USE DEF cache
<1>1. CASE SweepOrphanGroups
    <2>1. {y \in Roots : Orphan(y)} \in SUBSET {y \in Roots : group[y] = "open"}
        BY DEF Orphan
    <2>2. Forward /\ DbOK' /\ OneOpen' /\ JoinedOK' /\ LinksOK'
        BY <1>1, <2>1, ResolveOK DEF SweepOrphanGroups
    <2>3. PICK t \in Tasks : TRUE
        BY DEF Tasks
    <2>4. task[t] \in Task /\ TaskOK(t, task[t]) /\ task' = [task EXCEPT ![t] = task[t]]
        BY <1>1 DEF SweepOrphanGroups, IInv, TasksOK
    <2>5. PICK c \in Task : TaskOK(t, c) /\ task' = [task EXCEPT ![t] = c]
        BY <2>4
    <2>6. TasksOK'
        BY <2>2, <2>5, TaskKept, TaskPut DEF IInv
    <2> QED BY <2>2, <2>6 DEF IInv
<1>2. ASSUME NEW t \in Tasks, OnRootClosed(t) PROVE IInv'
    <2>1. PICK e \in Task : e = task[t] /\ TaskOK(t, e)
        BY DEF IInv, TasksOK
    <2>2. e.root \in Roots
        BY <1>2, <2>1 DEF OnRootClosed, TaskOK, Task
    <2>3. {y \in {e.root} : group[y] = "open"} \in SUBSET {y \in Roots : group[y] = "open"}
        BY <2>2
    <2>4. Forward /\ DbOK' /\ OneOpen' /\ JoinedOK' /\ LinksOK'
        BY <1>2, <2>1, <2>3, ResolveOK DEF OnRootClosed
    <2>5. TasksOK'
        BY <1>2, <2>4, IdleOK, TaskKept, TaskPut DEF IInv, OnRootClosed, Put
    <2> QED BY <2>4, <2>5 DEF IInv
<1> QED BY <1>1, <1>2

\* The purge takes no group that an open incident or a goroutine needs.
LEMMA PurgeStep == ASSUME IInv, NEW y \in Roots, PurgeOldGroups(y) PROVE IInv'
<1> USE DEF cache, ghosts
<1>1. group' = [group EXCEPT ![y] = "purged"] /\ UNCHANGED <<status, gid, joined, cached, task>>
    BY DEF PurgeOldGroups, Put
<1>2. DbOK'
    BY <1>1 DEF IInv, DbOK
<1>3. OneOpen' /\ LinksOK'
    BY <1>1 DEF IInv, OneOpen, LinksOK, Known, Linked
<1>4. ASSUME NEW z, z # y, Live(z) PROVE Live(z)'
    BY <1>1, <1>4 DEF IInv, DbOK, Live
<1>5. JoinedOK'
    <2>1. ASSUME NEW x \in joined
          PROVE  Known(x)' /\ gid'[x] \in Roots /\ (status'[x] = "open" => Live(gid[x])')
        <3>1. PICK z : z = gid[x] /\ z = gid'[x]
            BY <1>1
        <3>2. Known(x) /\ Known(x)' /\ z \in Roots /\ (status[x] = "open" => Live(z))
            BY <1>1, <3>1 DEF IInv, JoinedOK, Known
        <3>3. status[x] = "open" => z # y
            BY <3>1, <3>2 DEF PurgeOldGroups, Purgeable, Opened, Known
        <3> QED BY <1>1, <1>4, <3>1, <3>2, <3>3
    <2> QED BY <1>1, <2>1 DEF JoinedOK
<1>6. TasksOK'
    <2>1. ASSUME NEW t \in Tasks PROVE TaskOK(t, task[t])'
        <3>1. PICK c \in Task : c = task[t] /\ c = task'[t] /\ TaskOK(t, c) /\ c.root # y
            BY <1>1 DEF IInv, TasksOK, PurgeOldGroups
        <3>2. \A x : Known(x)' <=> Known(x)
            BY <1>1 DEF Known
        <3>3. \A x, z : Linked(x, z)' <=> Linked(x, z)
            BY <1>1 DEF Linked
        <3>4. TaskOK(t, c)'
            BY <1>4, <3>1, <3>2, <3>3 DEF TaskOK
        <3> QED BY <3>1, <3>4
    <2> QED BY <1>1, <2>1 DEF IInv, TasksOK
<1> QED BY <1>2, <1>3, <1>5, <1>6 DEF IInv

-----------------------------------------------------------------------------
(* Faults, and the whole.                                                   *)

\* A statement fails.
LEMMA FailStep == ASSUME IInv, NEW t \in Tasks, Fail(t) PROVE IInv'
<1>1. PICK e \in Task : e = task[t] /\ TaskOK(t, e)
    BY DEF IInv, TasksOK
<1>2. UNCHANGED <<status, group, cached>> /\ cached' \subseteq Hosts
    BY DEF Fail, IInv, DbOK
<1>3. CASE AttachEnds(t, FALSE) /\ e.pc \in {"attach", "find", "eligible", "ensure", "set"}
    <2>1. PICK c \in Task : TaskOK(t, c) /\ task' = [task EXCEPT ![t] = c]
        BY <1>1, <1>3, AttachEndsOK DEF IInv
    <2>2. CASE UNCHANGED <<gid, joined>>
        BY <1>2, <2>1, <2>2, QuietStep
    <2>3. CASE e.pc = "set" /\ Join(e.inc, e.root)
        <3>1. PICK x, y : x = e.inc /\ y = e.root
            OBVIOUS
        <3>2. Known(x) /\ Known(y) /\ Linked(x, y) /\ Live(y) /\ Join(x, y)
            BY <1>1, <2>3, <3>1 DEF TaskOK
        <3>3. Forward /\ DbOK' /\ OneOpen' /\ JoinedOK' /\ LinksOK'
            BY <1>2, <3>2, JoinOK
        <3>4. TasksOK'
            BY <2>1, <3>3, TaskKept, TaskPut DEF IInv
        <3> QED BY <3>3, <3>4 DEF IInv
    <2>4. UNCHANGED <<gid, joined>> \/ (e.pc = "set" /\ Join(e.inc, e.root))
        BY <1>1 DEF Fail
    <2> QED BY <2>2, <2>3, <2>4
<1>4. CASE /\ e.pc \in {"reroot", "refind", "cands", "retro", "match", "group", "join"}
           /\ task' = [task EXCEPT ![t] = Opening(e)] /\ UNCHANGED <<gid, joined>>
    <2>1. Known(e.inc)
        BY <1>1, <1>4 DEF TaskOK
    <2> QED BY <1>2, <1>4, <2>1, OpeningOK, QuietStep
<1>5. CASE task' = [task EXCEPT ![t] = Idle] /\ UNCHANGED <<gid, joined>>
    BY <1>2, <1>5, IdleOK, QuietStep
<1> QED BY <1>1, <1>3, <1>4, <1>5 DEF Fail, Put

\* The process dies, cacheTTL passes, nothing happens.
LEMMA RestStep == ASSUME IInv, Crash \/ Expire \/ UNCHANGED vars PROVE IInv'
<1> USE DEF db, cache, ghosts
<1>1. UNCHANGED <<status, gid, group, joined>> /\ cached' \subseteq Hosts
    BY DEF Crash, Expire, vars, IInv, DbOK
<1>2. Forward
    BY <1>1 DEF Forward, Known, Live
<1>3. DbOK' /\ OneOpen' /\ JoinedOK' /\ LinksOK'
    <2>1. DbOK' /\ OneOpen'
        BY <1>1 DEF IInv, DbOK, OneOpen
    <2> QED BY <1>1, <1>2, <2>1, MembersKept DEF IInv
<1>4. \A t \in Tasks : TaskOK(t, Idle)'
    BY <1>2, IdleOK, TaskKept
<1>5. TasksOK'
    <2>1. CASE Crash
        <3>1. task' \in [Tasks -> Task] /\ \A t \in Tasks : task'[t] = Idle
            BY <2>1, IdleOK DEF Crash
        <3>2. ASSUME NEW t \in Tasks PROVE TaskOK(t, task[t])'
            <4>1. PICK c : c = Idle /\ c = task'[t]
                BY <3>1
            <4>2. TaskOK(t, c)'
                BY <1>4, <4>1
            <4> QED BY <4>1, <4>2
        <3> QED BY <3>1, <3>2 DEF TasksOK
    <2>2. CASE task' = task
        <3>1. ASSUME NEW t \in Tasks PROVE TaskOK(t, task[t])'
            <4>1. PICK c \in Task : c = task[t] /\ c = task'[t] /\ TaskOK(t, c)
                BY <2>2 DEF IInv, TasksOK
            <4>2. TaskOK(t, c)'
                BY <1>2, <4>1, TaskKept
            <4> QED BY <4>1, <4>2
        <3> QED BY <2>2, <3>1 DEF IInv, TasksOK
    <2> QED BY <2>1, <2>2 DEF Expire, vars
<1> QED BY <1>3, <1>5 DEF IInv

\* The invariant is inductive.
LEMMA Invariance == Spec => []IInv
<1>1. Init => IInv
    <2> SUFFICES ASSUME Init PROVE IInv
        OBVIOUS
    <2> USE DEF Init
    <2>1. DbOK
        BY DEF DbOK
    <2>2. TasksOK
        BY IdleOK DEF TasksOK
    <2>3. OneOpen /\ JoinedOK /\ LinksOK
        BY DEF OneOpen, JoinedOK, LinksOK
    <2> QED BY <2>1, <2>2, <2>3 DEF IInv
<1>2. IInv /\ [Next]_vars => IInv'
    <2> SUFFICES ASSUME IInv, [Next]_vars PROVE IInv'
        OBVIOUS
    <2>1. ASSUME NEW t \in Tasks, Serve(t) \/ LoadRead(t) \/ LoadStamp(t) \/ LoadStore(t) PROVE IInv'
        BY <2>1, SnapshotStep
    <2>2. ASSUME NEW t \in Tasks, Find(t) PROVE IInv'
        BY <2>2, FindStep
    <2>3. ASSUME NEW t \in Tasks, EnsureGroup(t) \/ SetGroup(t) PROVE IInv'
        BY <2>3, GroupStep, JoinStep
    <2>4. ASSUME NEW t \in Tasks, OnRootOpened(t) PROVE IInv'
        BY <2>4, PassStep, MatchStep, GroupStep, JoinStep DEF OnRootOpened
    <2>5. ASSUME NEW t \in Tasks, OnRootClosed(t) PROVE IInv'
        BY <2>5, ResolveStep
    <2>6. ASSUME NEW t \in Tasks, \/ MemberEligible(t) \/ MarkSuppressed(t)
                                  \/ \E sent \in BOOLEAN : NotifyOpen(t, sent)
          PROVE  IInv'
        BY <2>6, GateStep
    <2>7. ASSUME NEW t \in Tasks, Fail(t) PROVE IInv'
        BY <2>7, FailStep
    <2>8. ASSUME NEW x \in Incidents, Open(x) \/ Close(x) \/ CloseDisabled(x) \/ CheckIncident(x) PROVE IInv'
        BY <2>8, OpenStep, CloseStep, CheckStep
    <2>9. CASE SweepOrphanGroups \/ \E y \in Roots : PurgeOldGroups(y)
        BY <2>9, ResolveStep, PurgeStep
    <2>10. CASE Expire \/ Crash \/ UNCHANGED vars
        BY <2>10, RestStep
    <2> QED BY <2>1, <2>2, <2>3, <2>4, <2>5, <2>6, <2>7, <2>8, <2>9, <2>10 DEF Next
<1> QED BY <1>1, <1>2, PTL DEF Spec

\* The ladder of an incident that was in a group has the end of a group to count from
\* (OpenUnacked's GREATEST), on any graph and after any faults: the purge takes no group
\* that an open incident counts from, and none is joined once it is purged.
THEOREM LadderRestarts == Spec => []NoVolley
<1>1. IInv => NoVolley
    <2> SUFFICES ASSUME IInv, NEW x \in Opened \cap joined, ~ Hidden(x)
                 PROVE  group[gid[x]] = "resolved"
        BY DEF NoVolley
    <2>1. x \in Incidents /\ status[x] = "open"
        BY DEF Opened
    <2>2. gid[x] \in Roots /\ group[gid[x]] \in {"open", "resolved"}
        BY <2>1 DEF IInv, JoinedOK, Live
    <2> QED BY <2>1, <2>2 DEF Hidden, Eligible
<1> QED BY <1>1, Invariance, PTL

\* The incidents of S are hidden behind each other only.
Ring(S) == S # {} /\ \A x \in S : Hidden(x) /\ gid[x] \in S

\* Incidents that are hidden behind each other only include the silence of a host that
\* depends on itself.
RingsAreCycles ==
    \A S \in SUBSET Incidents : Ring(S) => \E x \in S \cap Roots : Node(x) \in Ancestors(Node(x))

\* Attach and OnRootOpened silence incidents behind each other only along a cycle of the
\* dependencies, which concurrent Creates or label edges leave behind: on every graph, the
\* groups of hidden incidents end at one that the ladder sees or that is closed, unless a
\* silent host among them is its own ancestor.
THEOREM RingsNeedCycles == Spec => []RingsAreCycles
<1>1. IInv => RingsAreCycles
    <2> SUFFICES ASSUME IInv, NEW S \in SUBSET Incidents, Ring(S)
                 PROVE  \E x \in S \cap Roots : Node(x) \in Ancestors(Node(x))
        BY DEF RingsAreCycles
    <2>1. ASSUME NEW x \in S
          PROVE  /\ x \in Incidents /\ status[x] = "open" /\ gid[x] \in Roots /\ gid[x] \in S
                 /\ Up(x, gid[x])
        <3>1. x \in Incidents /\ status[x] = "open" /\ gid[x] \in Roots /\ gid[x] \in S
            BY DEF Ring, Hidden, Eligible
        <3>2. status[gid[x]] = "open"
            BY <3>1 DEF Ring, Hidden
        <3>3. gid[x] # None
            BY <3>1, IncidentFacts
        <3>4. Linked(x, gid[x])
            BY <3>1, <3>3 DEF IInv, LinksOK
        <3> QED BY <3>1, <3>2, <3>4 DEF Linked
    <2> DEFINE N == {Node(x) : x \in S \cap Roots}
    <2>2. N \in SUBSET Hosts
        BY IncidentFacts
    <2>3. N # {}
        BY <2>1 DEF Ring
    <2>4. ASSUME NEW n \in N PROVE \E m \in N : m \in Ancestors(n)
        <3>1. PICK x \in S \cap Roots : n = Node(x)
            OBVIOUS
        <3>2. Node(gid[x]) \in Ancestors(Node(x)) /\ gid[x] \in S \cap Roots
            BY <2>1, <3>1, IncidentFacts DEF Up
        <3> QED BY <3>1, <3>2
    <2>5. PICK n \in N : n \in Ancestors(n)
        <3> HIDE DEF N
        <3> QED BY <2>2, <2>3, <2>4, LoopIsCycle
    <2> QED BY <2>5
<1> QED BY <1>1, Invariance, PTL

-----------------------------------------------------------------------------
(* The roots that DownRoot names.                                           *)

\* The failed parents of a host in the snapshot d, the failed hosts above it, and those of
\* them that have no failed parent.
Fallen(d, n) == d \cap Parents(n)

ClosedIn(d, C) == \A p \in C : Fallen(d, p) \subseteq C

Over(d, n) == {m \in Hosts : \A C \in SUBSET Hosts : Fallen(d, n) \subseteq C /\ ClosedIn(d, C) => m \in C}

Peaks(d, n) == {m \in Over(d, n) : Fallen(d, m) = {}}

FirstOf(R) == {r \in R : \A q \in R : Rank[r] <= Rank[q]}

\* The walk in these terms.
LEMMA DownRootIs ==
    ASSUME NEW d \in SUBSET Hosts, NEW n \in Hosts
    PROVE  /\ ParentDown(d, n) <=> Peaks(d, n) # {}
           /\ DownRoot(d, n) = IF Peaks(d, n) # {} THEN FirstOf(Peaks(d, n)) ELSE {n} \cap d
<1>1. \A m : Walk(d, n)!DownParents(m) = Fallen(d, m)
    BY DEF Walk!DownParents, Fallen, Parents
<1>2. Walk(d, n)!Above(n) = Over(d, n)
    BY <1>1 DEF Walk!Above, Walk!Closed, Over, ClosedIn
<1>3. Walk(d, n)!Tops(n) = Peaks(d, n)
    BY <1>1, <1>2 DEF Walk!Tops, Peaks
<1>4. \A R : Walk(d, n)!First(R) = FirstOf(R)
    BY DEF Walk!First, FirstOf
<1> QED BY <1>3, <1>4 DEF ParentDown, DownRoot

\* What is over a host is failed and holds the failed parents of its members.
LEMMA OverClosed ==
    ASSUME NEW d \in SUBSET Hosts, NEW n \in Hosts
    PROVE  Fallen(d, n) \subseteq Over(d, n) /\ ClosedIn(d, Over(d, n)) /\ Over(d, n) \subseteq d
<1>1. \A m : Fallen(d, m) \subseteq d
    BY DEF Fallen
<1>2. Fallen(d, n) \subseteq Over(d, n)
    BY <1>1 DEF Over
<1>3. ASSUME NEW p \in Over(d, n), NEW q \in Fallen(d, p) PROVE q \in Over(d, n)
    <2>1. p \in Hosts /\ q \in Hosts
        BY <1>1 DEF Over
    <2>2. ASSUME NEW C \in SUBSET Hosts, Fallen(d, n) \subseteq C, ClosedIn(d, C) PROVE q \in C
        <3>1. p \in C
            BY <2>2 DEF Over
        <3> QED BY <1>3, <2>2, <3>1 DEF ClosedIn
    <2> QED BY <2>1, <2>2 DEF Over
<1>4. ClosedIn(d, d)
    BY <1>1 DEF ClosedIn
<1>5. Over(d, n) \subseteq d
    BY <1>1, <1>4 DEF Over
<1> QED BY <1>2, <1>3, <1>5 DEF ClosedIn

\* It is the least such set.
LEMMA OverLeast ==
    ASSUME NEW d \in SUBSET Hosts, NEW n \in Hosts, NEW C \in SUBSET Hosts,
           Fallen(d, n) \subseteq C, ClosedIn(d, C)
    PROVE  Over(d, n) \subseteq C
BY DEF Over

\* Without cycles there is somebody at the top as soon as a parent has failed.
LEMMA SomePeak ==
    ASSUME Acyclic, NEW d \in SUBSET Hosts, NEW n \in Hosts
    PROVE  Peaks(d, n) # {} <=> Fallen(d, n) # {}
<1>1. ASSUME Fallen(d, n) # {} PROVE Peaks(d, n) # {}
    <2>1. Over(d, n) \in SUBSET Hosts /\ Over(d, n) # {}
        BY <1>1, OverClosed DEF Over
    <2>2. PICK m \in Over(d, n) : Parents(m) \cap Over(d, n) = {}
        BY <2>1 DEF Acyclic
    <2>3. Fallen(d, m) \subseteq Over(d, n) /\ Fallen(d, m) \subseteq Parents(m)
        BY <2>2, OverClosed DEF ClosedIn, Fallen
    <2> QED BY <2>2, <2>3 DEF Peaks
<1>2. ASSUME Fallen(d, n) = {} PROVE Peaks(d, n) = {}
    <2>1. ClosedIn(d, {})
        BY DEF ClosedIn
    <2>2. Over(d, n) \subseteq {}
        BY <1>2, <2>1, OverLeast
    <2> QED BY <2>2 DEF Peaks
<1>3. CASE Fallen(d, n) = {}
    BY <1>2, <1>3
<1>4. CASE Fallen(d, n) # {}
    BY <1>1, <1>4
<1> QED BY <1>3, <1>4

\* The first of the hosts at the top is one.
LEMMA FirstIsOne ==
    ASSUME NEW R \in SUBSET Hosts, R # {}
    PROVE  \E r \in R : FirstOf(R) = {r}
<1>1. \A r \in R : Rank[r] \in Nat
    BY IncidentGroupAssumption
<1> DEFINE T == {Rank[r] : r \in R}
<1>2. T \subseteq Nat /\ T # {}
    BY <1>1
<1>3. PICK k \in T : \A m \in T : <<m, k>> \notin OpToRel(<, Nat)
    BY <1>2, NatLessThanWellFounded, WFMin
<1>4. k \in Nat /\ \A m \in T : ~ (m < k)
    BY <1>2, <1>3 DEF OpToRel
<1>5. PICK r \in R : k = Rank[r]
    OBVIOUS
<1>6. \A q \in R : Rank[r] <= Rank[q]
    BY <1>1, <1>4, <1>5
<1>7. ASSUME NEW q \in R, \A s \in R : Rank[q] <= Rank[s] PROVE q = r
    <2>1. Rank[q] = Rank[r]
        BY <1>1, <1>6, <1>7
    <2> QED BY <2>1, IncidentGroupAssumption
<1>8. FirstOf(R) = {r}
    BY <1>6, <1>7 DEF FirstOf
<1> QED BY <1>8

-----------------------------------------------------------------------------
(* What opening and closing do to the roots.                                *)

\* DownRoot names one failed host, if a parent or the host itself has failed: one that
\* has no failed parent, and the host itself only if it has none either.
LEMMA RootIsOne ==
    ASSUME Acyclic, NEW d \in SUBSET Hosts, NEW n \in Hosts
    PROVE  /\ DownRoot(d, n) = {} <=> Fallen(d, n) = {} /\ n \notin d
           /\ DownRoot(d, n) # {} => \E m \in d : DownRoot(d, n) = {m} /\ Fallen(d, m) = {}
           /\ Fallen(d, n) # {} => n \notin DownRoot(d, n)
           /\ Fallen(d, n) = {} => DownRoot(d, n) = {n} \cap d
<1>1. CASE Fallen(d, n) = {}
    <2>1. DownRoot(d, n) = {n} \cap d
        BY <1>1, SomePeak, DownRootIs
    <2> QED BY <1>1, <2>1
<1>2. CASE Fallen(d, n) # {}
    <2>1. Peaks(d, n) # {} /\ Peaks(d, n) \in SUBSET Hosts
        BY <1>2, SomePeak DEF Peaks, Over
    <2>2. PICK m \in Peaks(d, n) : FirstOf(Peaks(d, n)) = {m}
        BY <2>1, FirstIsOne
    <2>3. m \in d /\ Fallen(d, m) = {}
        BY OverClosed DEF Peaks
    <2>4. DownRoot(d, n) = {m}
        BY <2>1, <2>2, DownRootIs
    <2> QED BY <1>2, <2>3, <2>4
<1> QED BY <1>1, <1>2

\* The host DownRoot names is its own root.
LEMMA RootOfRoot ==
    ASSUME Acyclic, NEW d \in SUBSET Hosts, NEW n \in Hosts, NEW m \in Hosts, DownRoot(d, n) = {m}
    PROVE  DownRoot(d, m) = {m}
<1>1. m \in d /\ Fallen(d, m) = {}
    BY RootIsOne
<1>2. DownRoot(d, m) = {m} \cap d
    BY <1>1, RootIsOne
<1> QED BY <1>1, <1>2

\* When p is the only failed host that a snapshot lacks, what has a root now and none in
\* the snapshot has the root of p.
LEMMA RootOfNew ==
    ASSUME Acyclic, NEW d \in SUBSET Hosts, NEW s \in SUBSET Hosts, NEW n \in Hosts, NEW p \in d,
           d \subseteq s \cup {p}, Fallen(s, n) = {}, Fallen(d, n) # {}
    PROVE  DownRoot(d, n) = DownRoot(d, p)
<1>1. Fallen(d, n) = {p}
    BY DEF Fallen
<1> DEFINE C == {p} \cup Over(d, p)
<1>2. p \in Hosts /\ C \in SUBSET Hosts
    BY DEF Over
<1>3. Over(d, n) = C
    <2>1. ClosedIn(d, C)
        BY <1>2, OverClosed DEF ClosedIn
    <2>2. Over(d, n) \subseteq C
        BY <1>1, <1>2, <2>1, OverLeast
    <2>3. p \in Over(d, n) /\ ClosedIn(d, Over(d, n)) /\ Over(d, n) \in SUBSET Hosts
        BY <1>1, OverClosed DEF Over
    <2>4. Over(d, p) \subseteq Over(d, n)
        BY <1>2, <2>3, OverLeast DEF ClosedIn
    <2> QED BY <2>2, <2>3, <2>4
<1> HIDE DEF C
<1>4. CASE Fallen(d, p) = {}
    <2>1. ClosedIn(d, {})
        BY DEF ClosedIn
    <2>2. Over(d, p) = {}
        BY <1>2, <1>4, <2>1, OverLeast
    <2>3. Peaks(d, n) = {p}
        BY <1>3, <1>4, <2>2 DEF Peaks, C
    <2>4. FirstOf({p}) = {p}
        BY <1>2, FirstIsOne
    <2>5. DownRoot(d, n) = {p}
        BY <2>3, <2>4, DownRootIs
    <2>6. DownRoot(d, p) = {p}
        BY <1>2, <1>4, RootIsOne
    <2> QED BY <2>5, <2>6
<1>5. CASE Fallen(d, p) # {}
    <2>1. Peaks(d, n) = Peaks(d, p)
        BY <1>3, <1>5 DEF Peaks, C
    <2>2. Peaks(d, p) # {}
        BY <1>2, <1>5, SomePeak
    <2>3. DownRoot(d, n) = FirstOf(Peaks(d, p))
        BY <2>1, <2>2, DownRootIs
    <2>4. DownRoot(d, p) = FirstOf(Peaks(d, p))
        BY <1>2, <2>2, DownRootIs
    <2> QED BY <2>3, <2>4
<1> QED BY <1>4, <1>5

-----------------------------------------------------------------------------
(* Groups are complete: the inductive invariant.                            *)

Host == task["host"]
Member == task["metric"]

\* The stages of the host evaluator with a new incident: before its pass, and in it.
Ahead(l) == l \in {"attach", "find", "eligible", "ensure", "set", "reroot", "refind", "invalidate"}
Amid(l) == l \in {"cands", "retro", "match", "group", "join"}

\* The host that snapshots need not know: the pass will look at what is below it.
New == IF Ahead(Host.pc) THEN {Node(Host.inc)} ELSE {}

Top(x) == DownRoot(Down, Node(x))

MemberStages == {"idle", "attach", "find", "eligible", "ensure", "set", "notify"}
SchedulerStages == {"idle", "check", "gate", "attach", "find", "eligible", "ensure", "set"}

\* Which goroutine does what, and on which incidents.
WorkOK ==
    /\ Member.pc \in MemberStages /\ Member.inc \notin Roots
    /\ task["scheduler"].pc \in SchedulerStages
    /\ Host.pc \notin {"check", "gate"}
    /\ Ahead(Host.pc) \/ Amid(Host.pc) => Host.inc \in Opened \cap Roots
    /\ Host.pc = "invalidate" \/ Amid(Host.pc) => Host.root \in Opened \cap Roots
    /\ Host.pc = "closing" => Host.root \in Roots /\ status[Host.root] = "closed"

\* The group of an open root is not over, and a root has none before it opens.
GroupsOK ==
    \A y \in Roots :
        /\ status[y] = "open" => group[y] \in {"none", "open"}
        /\ status[y] = "none" => group[y] = "none"

\* A snapshot lacks no failed host but the new one, and in a pass it is exact.
Current(s) == Down \ New \subseteq s /\ (Amid(Host.pc) => s = Down)

SnapshotsOK ==
    /\ fresh => Current(cached)
    /\ \A t \in Tasks : task[t].load # "no" => Current(task[t].snap)
    /\ Host.pc = "match" => Host.snap = Down

\* x is open below a failed host other than its own cause.
Needy(x) ==
    /\ x \in Opened \ freed
    /\ Fallen(Down, Node(x)) # {} \/ (x \notin Roots /\ Node(x) \in Down)

\* The pass of the host evaluator's call c will come to x.
Awaited(x, c) ==
    \/ Ahead(c.pc) /\ Top(x) = Top(c.inc)
    \/ /\ \/ c.pc = "cands"
          \/ Amid(c.pc) /\ x \in c.cands
          \/ c.pc \in {"group", "join"} /\ x = c.cand
       /\ Top(x) = {Node(c.root)}

\* The Attach of the call c will put x into a group, or find that the root has closed.
Attaching(x, c) ==
    /\ c.inc = x
    /\ \/ c.pc \in {"attach", "eligible", "ensure", "set"}
       \/ c.pc = "find" /\ DownRoot(c.snap, Node(x)) # {}

CoveredOK ==
    \A x \in Incidents : Needy(x) => Hidden(x) \/ Awaited(x, Host) \/ Attaching(x, Member)

GInv == excused \/ (WorkOK /\ GroupsOK /\ SnapshotsOK /\ CoveredOK)

\* The state before a step without faults.
Sound == Acyclic /\ IInv /\ WorkOK /\ GroupsOK /\ SnapshotsOK /\ CoveredOK

-----------------------------------------------------------------------------

\* The failed hosts are those with an open incident of silence.
LEMMA DownFacts ==
    /\ Down \in SUBSET Hosts
    /\ \A m \in Down : \E y \in Opened \cap Roots : Node(y) = m
    /\ \A y \in Opened \cap Roots : Node(y) \in Down
BY IncidentFacts DEF Down, Opened

\* The root of an open incident.
LEMMA TopFacts ==
    ASSUME Acyclic, NEW x \in Incidents
    PROVE  /\ Fallen(Down, Node(x)) # {} => Node(x) \notin Top(x) /\ \E m \in Down : Top(x) = {m}
           /\ Fallen(Down, Node(x)) = {} => Top(x) = {Node(x)} \cap Down
<1>1. PICK d \in SUBSET Hosts : d = Down
    BY DownFacts
<1>2. PICK n \in Hosts : n = Node(x)
    BY IncidentFacts
<1>3. /\ Fallen(d, n) # {} => n \notin DownRoot(d, n) /\ \E m \in d : DownRoot(d, n) = {m}
      /\ Fallen(d, n) = {} => DownRoot(d, n) = {n} \cap d
    BY RootIsOne
<1> QED BY <1>1, <1>2, <1>3 DEF Top

\* Needy incidents are those with another's incident at their root.
LEMMA NeedyMeans ==
    ASSUME Acyclic, IInv, NEW x \in Opened \ freed
    PROVE  Needy(x) <=> \E y \in RootIncident(Top(x)) : y # x
<1>1. x \in Incidents /\ Node(x) \in Hosts /\ status[x] = "open"
    BY IncidentFacts DEF Opened
<1>2. CASE Fallen(Down, Node(x)) # {}
    <2>1. Node(x) \notin Top(x)
        BY <1>1, <1>2, TopFacts
    <2>2. PICK m \in Down : Top(x) = {m}
        BY <1>1, <1>2, TopFacts
    <2>3. PICK y \in Opened \cap Roots : Node(y) = m
        BY <2>2, DownFacts
    <2> QED BY <1>2, <2>1, <2>2, <2>3 DEF Needy, RootIncident
<1>3. CASE Fallen(Down, Node(x)) = {}
    <2>1. Top(x) = {Node(x)} \cap Down
        BY <1>1, <1>3, TopFacts
    <2>2. CASE x \in Roots
        <3>1. ASSUME NEW y \in RootIncident(Top(x)) PROVE y = x
            <4>1. Node(y) = Node(x) /\ y \in Roots /\ y \in Incidents /\ status[y] = "open"
                BY <2>1 DEF RootIncident, Opened, Roots
            <4> QED BY <1>1, <2>2, <4>1, IncidentFacts DEF IInv, OneOpen
        <3> QED BY <1>3, <2>2, <3>1 DEF Needy
    <2>3. CASE x \notin Roots /\ Node(x) \in Down
        <3>1. PICK y \in Opened \cap Roots : Node(y) = Node(x)
            BY <2>3, DownFacts
        <3> QED BY <2>1, <2>3, <3>1 DEF Needy, RootIncident
    <2>4. CASE x \notin Roots /\ Node(x) \notin Down
        BY <1>3, <2>1, <2>4 DEF Needy, RootIncident
    <2> QED BY <2>2, <2>3, <2>4
<1> QED BY <1>2, <1>3

\* A snapshot that does not show the root of a needy incident was taken before the new
\* incident, whose pass will come to it.
LEMMA UnseenIsAwaited ==
    ASSUME Sound, NEW x \in Incidents, Needy(x), NEW s \in SUBSET Hosts, Current(s),
           DownRoot(s, Node(x)) = {}
    PROVE  Awaited(x, Host)
<1>1. Acyclic /\ Node(x) \in Hosts /\ Down \in SUBSET Hosts
    BY IncidentFacts, DownFacts DEF Sound
<1>2. Fallen(s, Node(x)) = {} /\ Node(x) \notin s
    BY <1>1, RootIsOne
<1>3. CASE Ahead(Host.pc)
    <2>1. PICK p \in Down : p = Node(Host.inc)
        BY <1>3, DownFacts DEF Sound, WorkOK
    <2>2. Down \subseteq s \cup {p}
        BY <1>3, <2>1 DEF Current, New
    <2>3. CASE Fallen(Down, Node(x)) # {}
        BY <1>1, <1>2, <1>3, <2>1, <2>2, <2>3, RootOfNew DEF Awaited, Top
    <2>4. CASE Node(x) \in Down
        BY <1>2, <1>3, <2>1, <2>2, <2>4 DEF Awaited, Top
    <2> QED BY <2>3, <2>4 DEF Needy
<1>4. CASE ~ Ahead(Host.pc)
    <2>1. Down \subseteq s
        BY <1>4 DEF Current, New
    <2> QED BY <1>2, <2>1 DEF Needy, Fallen
<1> QED BY <1>3, <1>4

\* What the goroutines are.
LEMMA TaskMove ==
    ASSUME IInv, NEW t \in Tasks, NEW e, task' = [task EXCEPT ![t] = e]
    PROVE  task'[t] = e /\ \A u \in Tasks : u # t => task'[u] = task[u]
BY DEF IInv, TasksOK

\* What a step of one goroutine leaves: it opens and closes nothing, hides no less but for
\* what it frees, and stores no snapshot but its own.
Moves(t, e) ==
    /\ task' = [task EXCEPT ![t] = e] /\ status' = status
    /\ freed \subseteq freed' /\ GroupsOK'
    /\ \A x \in Opened : Hidden(x) => Hidden(x)' \/ x \in freed'
    /\ fresh' => (fresh /\ cached' = cached) \/ (task[t].load # "no" /\ cached' = task[t].snap)
    /\ e.load # "no" => e.snap = Down \/ (task[t].load # "no" /\ e.snap = task[t].snap)

\* A step of the scheduler or of the evaluator of members.
LEMMA OtherMoves ==
    ASSUME Sound, NEW t \in {"metric", "scheduler"}, NEW e \in Task, Moves(t, e),
           t = "scheduler" => e.pc \in SchedulerStages,
           t = "metric" => e.pc \in MemberStages /\ e.inc \notin Roots,
           t = "metric" => \A x \in Incidents : Needy(x) /\ x \notin freed' /\ Attaching(x, task[t]) =>
                               Hidden(x)' \/ Awaited(x, Host) \/ Attaching(x, e)
    PROVE  GInv'
<1> USE DEF Moves
<1>1. t \in Tasks /\ "host" \in Tasks /\ "metric" \in Tasks /\ "scheduler" \in Tasks
    BY DEF Tasks
<1>2. task'[t] = e /\ \A u \in Tasks : u # t => task'[u] = task[u]
    BY <1>1, TaskMove DEF Sound
<1>3. Host' = Host /\ Opened' = Opened /\ Down' = Down
    BY <1>1, <1>2 DEF Host, Opened, Down
<1>4. New' = New
    BY <1>3 DEF New
<1>5. WorkOK'
    BY <1>1, <1>2, <1>3 DEF Sound, WorkOK, Member
<1>6. SnapshotsOK'
    <2>1. Current(Down)
        BY DEF Current
    <2>2. fresh' => Current(cached')
        BY <1>1 DEF Sound, SnapshotsOK
    <2>3. fresh' => Current(cached)'
        BY <1>3, <1>4, <2>2 DEF Current
    <2>4. ASSUME NEW u \in Tasks, task'[u].load # "no" PROVE Current(task[u].snap)'
        <3>1. Current(task'[u].snap)
            BY <1>1, <1>2, <2>1, <2>4 DEF Sound, SnapshotsOK
        <3> QED BY <1>3, <1>4, <3>1 DEF Current
    <2> QED BY <1>3, <2>3, <2>4 DEF Sound, SnapshotsOK
<1>7. CoveredOK'
    <2> SUFFICES ASSUME NEW x \in Incidents, Needy(x)'
                 PROVE  Hidden(x)' \/ Awaited(x, Host)' \/ Attaching(x, Member)'
        BY DEF CoveredOK
    <2>1. Needy(x) /\ x \notin freed' /\ x \in Opened
        BY <1>3 DEF Needy
    <2>2. Awaited(x, Host) => Awaited(x, Host)'
        BY <1>3 DEF Awaited, Top
    <2>3. CASE Attaching(x, Member)
        <3>1. CASE t = "metric"
            <4>1. Member' = e /\ Member = task[t]
                BY <1>1, <1>2, <3>1 DEF Member
            <4> QED BY <2>1, <2>2, <2>3, <3>1, <4>1 DEF Attaching
        <3>2. CASE t # "metric"
            <4>1. Member' = Member
                BY <1>1, <1>2, <3>2 DEF Member
            <4> QED BY <2>3, <4>1 DEF Attaching
        <3> QED BY <3>1, <3>2
    <2> QED BY <2>1, <2>2, <2>3 DEF Sound, CoveredOK
<1> QED BY <1>5, <1>6, <1>7 DEF GInv

\* A step of the host evaluator: before the pass it stays with its incident, and it enters
\* the pass only by Invalidate.
LEMMA HostMoves ==
    ASSUME Sound, NEW e \in Task, Moves("host", e),
           e.pc \notin {"check", "gate", "closing"},
           Ahead(Host.pc) => Ahead(e.pc) /\ e.inc = Host.inc,
           Ahead(e.pc) => Ahead(Host.pc),
           Amid(e.pc) => Amid(Host.pc) /\ e.inc = Host.inc /\ e.root = Host.root,
           e.pc = "invalidate" => e.root \in Opened \cap Roots,
           e.pc = "match" => e.snap = Down,
           \A x \in Incidents : Needy(x) /\ x \notin freed' /\ Amid(Host.pc) /\ Awaited(x, Host) =>
               Hidden(x)' \/ Awaited(x, e)
    PROVE  GInv'
<1> USE DEF Moves
<1>1. "host" \in Tasks /\ "metric" \in Tasks /\ "scheduler" \in Tasks
    BY DEF Tasks
<1>2. Host = task["host"] /\ Host' = e /\ \A u \in Tasks : u # "host" => task'[u] = task[u]
    BY <1>1, TaskMove DEF Sound, Host
<1>3. Member' = Member /\ Opened' = Opened /\ Down' = Down
    BY <1>1, <1>2 DEF Member, Opened, Down
<1>4. New \subseteq New'
    BY <1>2 DEF New
<1>5. WorkOK'
    <2>1. Ahead(e.pc) \/ Amid(e.pc) => e.inc \in Opened \cap Roots
        BY DEF Sound, WorkOK
    <2>2. Amid(e.pc) => e.root \in Opened \cap Roots
        BY DEF Sound, WorkOK
    <2> QED BY <1>1, <1>2, <1>3, <2>1, <2>2 DEF Sound, WorkOK
<1>6. SnapshotsOK'
    <2>1. Current(Down)
        BY DEF Current
    <2>2. ASSUME NEW s, Current(s) PROVE Current(s)'
        BY <1>2, <1>3, <1>4, <2>2 DEF Current
    <2>3. PICK d : d = cached'
        OBVIOUS
    <2>4. fresh' => Current(d)
        BY <1>1, <2>3 DEF Sound, SnapshotsOK
    <2>5. fresh' => Current(cached)'
        BY <2>2, <2>3, <2>4 DEF Current
    <2>6. ASSUME NEW u \in Tasks, task'[u].load # "no" PROVE Current(task[u].snap)'
        <3>1. PICK s : s = task'[u].snap
            OBVIOUS
        <3>2. Current(s)
            BY <1>1, <1>2, <2>1, <2>6, <3>1 DEF Sound, SnapshotsOK
        <3> QED BY <2>2, <3>1, <3>2 DEF Current
    <2> QED BY <1>2, <1>3, <2>5, <2>6 DEF Sound, SnapshotsOK
<1>7. CoveredOK'
    <2> SUFFICES ASSUME NEW x \in Incidents, Needy(x)'
                 PROVE  Hidden(x)' \/ Awaited(x, Host)' \/ Attaching(x, Member)'
        BY DEF CoveredOK
    <2>1. Needy(x) /\ x \notin freed' /\ x \in Opened
        BY <1>3 DEF Needy
    <2>2. Attaching(x, Member) => Attaching(x, Member)'
        BY <1>3 DEF Attaching
    <2>3. Awaited(x, e) => Awaited(x, Host)'
        BY <1>2, <1>3 DEF Awaited, Top
    <2>4. Awaited(x, Host) => Hidden(x)' \/ Awaited(x, e)
        <3>1. CASE Ahead(Host.pc)
            BY <3>1 DEF Awaited, Ahead, Amid
        <3>2. CASE ~ Ahead(Host.pc)
            BY <2>1, <3>2 DEF Awaited, Amid
        <3> QED BY <3>1, <3>2
    <2> QED BY <2>1, <2>2, <2>3, <2>4 DEF Sound, CoveredOK
<1> QED BY <1>5, <1>6, <1>7 DEF GInv

-----------------------------------------------------------------------------
(* What hides an incident.                                                  *)

\* Memberships and groups that do not change hide the same incidents.
LEMMA HiddenSame ==
    ASSUME UNCHANGED <<status, gid, group>>, NEW x
    PROVE  Hidden(x)' <=> Hidden(x)
BY DEF Hidden, Eligible

\* Groups that do not change stay right.
LEMMA GroupsSame ==
    ASSUME GroupsOK, UNCHANGED <<status, group>>
    PROVE  GroupsOK'
BY DEF GroupsOK

\* INSERT ... ON CONFLICT DO NOTHING hides no less, and gives an open root an open group.
LEMMA EnsuredKeeps ==
    ASSUME IInv, GroupsOK, NEW y \in Roots, Known(y), group' = Put(group, y, Ensured(y)),
           UNCHANGED <<status, gid>>
    PROVE  /\ GroupsOK' /\ (status[y] = "open" => Ensured(y) = "open")
           /\ \A x : Hidden(x) => Hidden(x)'
<1>1. \A z \in Roots : group'[z] = IF z = y THEN Ensured(y) ELSE group[z]
    BY DEF IInv, DbOK, Put
<1>2. Ensured(y) = "open" \/ (Ensured(y) = group[y] /\ group[y] # "open")
    BY DEF Ensured
<1>3. ASSUME status[y] = "open" PROVE Ensured(y) = "open"
    <2>1. group[y] = "none" \/ group[y] = "open"
        BY <1>3 DEF GroupsOK
    <2> QED BY <2>1 DEF Ensured
<1>4. GroupsOK'
    BY <1>1, <1>3 DEF GroupsOK, Known
<1>5. \A x : Hidden(x) => Hidden(x)'
    BY <1>1, <1>2 DEF Hidden, Eligible
<1> QED BY <1>3, <1>4, <1>5

\* SetGroup hides no less, and hides an open incident if the group is open.
LEMMA JoinKeeps ==
    ASSUME IInv, NEW x \in Incidents, NEW y \in Roots, Join(x, y), UNCHANGED <<status, group>>
    PROVE  /\ \A z \in Incidents : Hidden(z) => Hidden(z)'
           /\ group[y] = "open" /\ status[x] = "open" => Hidden(x)'
<1>1. CASE ~ Eligible(x)
    <2>1. UNCHANGED gid
        BY <1>1 DEF Join
    <2> QED BY <1>1, <2>1 DEF Hidden, Eligible
<1>2. CASE Eligible(x)
    <2>1. \A z \in Incidents : gid'[z] = IF z = x THEN y ELSE gid[z]
        BY <1>2 DEF Join, IInv, DbOK, Put
    <2> QED BY <1>2, <2>1 DEF Hidden, Eligible
<1> QED BY <1>1, <1>2

\* A group that is resolved frees its members.
LEMMA ResolveKeeps ==
    ASSUME IInv, GroupsOK, NEW Y \in SUBSET Roots, Resolve(Y), UNCHANGED <<status, gid>>,
           \A y \in Y : status[y] # "open" /\ group[y] = "open"
    PROVE  /\ GroupsOK' /\ freed \subseteq freed'
           /\ \A x \in Opened : Hidden(x) => Hidden(x)' \/ x \in freed'
<1>1. \A y \in Roots : group'[y] = IF y \in Y THEN "resolved" ELSE group[y]
    BY DEF Resolve
<1>2. GroupsOK'
    BY <1>1 DEF GroupsOK
<1>3. freed' = freed \cup {x \in Opened : gid[x] \in Y}
    BY DEF Resolve
<1>4. ASSUME NEW x \in Opened, Hidden(x), x \notin freed' PROVE Hidden(x)'
    <2>1. gid[x] \notin Y
        BY <1>3, <1>4
    <2> QED BY <1>1, <1>4, <2>1 DEF Hidden, Eligible
<1> QED BY <1>2, <1>3, <1>4

-----------------------------------------------------------------------------
(* Attach.                                                                  *)

\* Attach returns: the member is in a group, or free.
LEMMA AttachReturns ==
    ASSUME Sound, NEW t \in Tasks, NEW ok \in BOOLEAN, AttachEnds(t, ok),
           task[t].pc \in {"find", "eligible", "ensure", "set"},
           UNCHANGED <<status, cached, fresh>>, freed \subseteq freed', GroupsOK',
           \A x \in Opened : Hidden(x) => Hidden(x)' \/ x \in freed',
           \A x \in Incidents : t = "metric" /\ Needy(x) /\ x \notin freed' /\ Attaching(x, task[t]) =>
               Hidden(x)'
    PROVE  GInv'
<1>1. PICK c \in Task :
              /\ task' = [task EXCEPT ![t] = c] /\ c.load = "no"
              /\ t = "host" => /\ c.inc = task[t].inc /\ c.pc = (IF ok THEN "reroot" ELSE "invalidate")
                               /\ c.root = (IF ok THEN None ELSE task[t].inc)
              /\ t = "metric" => c.inc = task[t].inc /\ c.pc = "notify"
              /\ t = "scheduler" => c.pc = "idle"
    BY AttachEndsIs DEF Sound, IInv
<1>2. Moves(t, c)
    BY <1>1 DEF Moves
<1>3. CASE t = "host"
    <2>1. Host = task[t] /\ Ahead(Host.pc) /\ ~ Amid(Host.pc)
        BY <1>3 DEF Host, Ahead, Amid
    <2>2. Host.inc \in Opened \cap Roots
        BY <2>1 DEF Sound, WorkOK
    <2>3. Ahead(c.pc) /\ ~ Amid(c.pc) /\ c.pc \in {"reroot", "invalidate"}
        BY <1>1, <1>3 DEF Ahead, Amid
    <2>4. c.inc = Host.inc /\ (c.pc = "invalidate" => c.root = Host.inc)
        BY <1>1, <1>3, <2>1
    <2> QED BY <1>2, <1>3, <2>1, <2>2, <2>3, <2>4, HostMoves
<1>4. CASE t = "metric"
    <2>1. c.pc \in MemberStages /\ c.inc \notin Roots
        BY <1>1, <1>4 DEF Sound, WorkOK, MemberStages, Member
    <2> QED BY <1>2, <1>4, <2>1, OtherMoves
<1>5. CASE t = "scheduler"
    <2>1. c.pc \in SchedulerStages
        BY <1>1, <1>5 DEF SchedulerStages
    <2> QED BY <1>2, <1>5, <2>1, OtherMoves
<1> QED BY <1>3, <1>4, <1>5 DEF Tasks

\* Attach goes on with the root it has found.
LEMMA AttachProceeds ==
    ASSUME Sound, NEW t \in Tasks, NEW e \in Task, task' = [task EXCEPT ![t] = e],
           task[t].pc \in {"find", "eligible", "ensure"}, e.pc \in {"eligible", "ensure", "set"},
           e.inc = task[t].inc, e.load = "no",
           UNCHANGED <<status, cached, fresh>>, freed \subseteq freed', GroupsOK',
           \A x \in Opened : Hidden(x) => Hidden(x)' \/ x \in freed'
    PROVE  GInv'
<1>1. Moves(t, e)
    BY DEF Moves
<1>2. CASE t = "host"
    <2>1. Host = task[t] /\ Ahead(Host.pc) /\ ~ Amid(Host.pc)
        BY <1>2 DEF Host, Ahead, Amid
    <2>2. Ahead(e.pc) /\ ~ Amid(e.pc)
        BY DEF Ahead, Amid
    <2> QED BY <1>1, <1>2, <2>1, <2>2, HostMoves
<1>3. CASE t = "metric"
    <2>1. e.pc \in MemberStages /\ e.inc \notin Roots
        BY <1>3 DEF Sound, WorkOK, MemberStages, Member
    <2>2. \A x \in Incidents : Attaching(x, task[t]) => Attaching(x, e)
        BY DEF Attaching
    <2> QED BY <1>1, <1>3, <2>1, <2>2, OtherMoves
<1>4. CASE t = "scheduler"
    <2>1. e.pc \in SchedulerStages
        BY DEF SchedulerStages
    <2> QED BY <1>1, <1>4, <2>1, OtherMoves
<1> QED BY <1>2, <1>3, <1>4 DEF Tasks

\* A member of a lost root is free.
LEMMA LostIsFree ==
    ASSUME Sound, NEW lost \in BOOLEAN, NEW t \in Tasks, RootLost(t, lost)
    PROVE  /\ freed \subseteq freed'
           /\ lost => \A x \in Incidents : t = "metric" /\ Attaching(x, task[t]) => x \in freed'
BY DEF RootLost, Attaching, Sound, WorkOK, Member

\* RootIncident of DownRoot: there is a root to go on with, or it is lost.
LEMMA FindCovered == ASSUME Sound, NEW t \in Tasks, Find(t) PROVE GInv'
<1> USE DEF db, cache, ghosts
<1>1. PICK e \in Task : e = task[t] /\ TaskOK(t, e)
    BY DEF Sound, IInv, TasksOK
<1>2. task \in [Tasks -> Task] /\ e.pc = "find" /\ e.load = "no"
    BY <1>1 DEF Sound, IInv, TasksOK, TaskOK, Find, Task
<1>3. UNCHANGED <<status, gid, group, cached, fresh>>
    BY DEF Find
<1>4. GroupsOK' /\ \A x : Hidden(x)' <=> Hidden(x)
    BY <1>3, HiddenSame, GroupsSame DEF Sound
<1> DEFINE lost == DownRoot(task[t].snap, Node(task[t].inc)) # {}
<1>5. CASE AttachEnds(t, FALSE) /\ RootLost(t, lost)
    <2>1. /\ freed \subseteq freed'
          /\ lost => \A x \in Incidents : t = "metric" /\ Attaching(x, task[t]) => x \in freed'
        <3>1. lost \in BOOLEAN
            OBVIOUS
        <3> HIDE DEF lost
        <3> QED BY <1>5, <3>1, LostIsFree
    <2>2. \A x : Attaching(x, task[t]) => lost
        BY <1>1, <1>2 DEF Attaching
    <2> HIDE DEF lost
    <2> QED BY <1>1, <1>2, <1>3, <1>4, <1>5, <2>1, <2>2, AttachReturns
<1>6. ASSUME NEW y \in RootIncident(DownRoot(e.snap, Node(e.inc))), UNCHANGED freed,
             task' = [task EXCEPT ![t].pc = "eligible", ![t].snap = {},
                                  ![t].root = y, ![t].informing = y \in notified]
      PROVE  GInv'
    <2> DEFINE b == y \in notified
    <2>1. b \in BOOLEAN /\ y \in Roots
        BY DEF RootIncident
    <2> DEFINE c == [e EXCEPT !.pc = "eligible", !.snap = {}, !.root = y, !.informing = b]
    <2>2. c \in Task
        <3> HIDE DEF b
        <3> QED BY <2>1 DEF Task, Stages
    <2>3. task' = [task EXCEPT ![t] = c]
        BY <1>1, <1>2, <1>6 DEF Task
    <2>4. c.pc = "eligible" /\ c.load = e.load /\ c.inc = e.inc
        BY DEF Task
    <2> HIDE DEF b, c
    <2>5. freed \subseteq freed' /\ \A x \in Opened : Hidden(x) => Hidden(x)' \/ x \in freed'
        BY <1>4, <1>6
    <2> QED BY <1>1, <1>2, <1>3, <1>4, <2>2, <2>3, <2>4, <2>5, AttachProceeds
<1> QED BY <1>1, <1>5, <1>6 DEF Find

\* MemberEligible: a member that is not eligible is hidden.
LEMMA EligibleCovered == ASSUME Sound, NEW t \in Tasks, MemberEligible(t) PROVE GInv'
<1> USE DEF db, cache, ghosts
<1>1. PICK e \in Task : e = task[t] /\ TaskOK(t, e)
    BY DEF Sound, IInv, TasksOK
<1>2. task \in [Tasks -> Task] /\ e.pc = "eligible" /\ e.load = "no"
    BY <1>1 DEF Sound, IInv, TasksOK, TaskOK, MemberEligible, Task
<1>3. UNCHANGED <<status, gid, group, cached, fresh, freed>>
    BY DEF MemberEligible
<1>4. GroupsOK' /\ \A x : Hidden(x)' <=> Hidden(x)
    BY <1>3, HiddenSame, GroupsSame DEF Sound
<1>5. CASE ~ Eligible(e.inc) /\ AttachEnds(t, FALSE)
    <2>1. \A x \in Incidents : Needy(x) /\ Attaching(x, task[t]) => Hidden(x)
        BY <1>1, <1>5 DEF Needy, Attaching, Hidden, Opened
    <2> QED BY <1>1, <1>2, <1>3, <1>4, <1>5, <2>1, AttachReturns
<1>6. CASE task' = [task EXCEPT ![t].pc = "ensure"]
    <2> DEFINE c == [e EXCEPT !.pc = "ensure"]
    <2>1. c \in Task
        BY DEF Task, Stages
    <2>2. task' = [task EXCEPT ![t] = c]
        BY <1>1, <1>2, <1>6 DEF Task
    <2>3. c.pc = "ensure" /\ c.load = e.load /\ c.inc = e.inc
        BY DEF Task
    <2> HIDE DEF c
    <2> QED BY <1>1, <1>2, <1>3, <1>4, <2>1, <2>2, <2>3, AttachProceeds
<1> QED BY <1>1, <1>5, <1>6 DEF MemberEligible

\* EnsureGroup: the group is open, or the root is lost.
LEMMA EnsureCovered == ASSUME Sound, NEW t \in Tasks, EnsureGroup(t) PROVE GInv'
<1> USE DEF cache
<1>1. PICK e \in Task : e = task[t] /\ TaskOK(t, e)
    BY DEF Sound, IInv, TasksOK
<1>2. task \in [Tasks -> Task] /\ e.pc = "ensure" /\ e.load = "no" /\ Known(e.root)
    BY <1>1 DEF Sound, IInv, TasksOK, TaskOK, EnsureGroup, Task
<1>3. PICK y \in Roots : y = e.root
    BY <1>2, IncidentFacts DEF Task, Known
<1>4. UNCHANGED <<status, gid, cached, fresh>> /\ group' = Put(group, y, Ensured(y))
    BY <1>1, <1>3 DEF EnsureGroup
<1>5. GroupsOK' /\ \A x : Hidden(x) => Hidden(x)'
    BY <1>2, <1>3, <1>4, EnsuredKeeps DEF Sound
<1>6. PICK lost \in BOOLEAN : lost <=> Ensured(y) # "open"
    OBVIOUS
<1>7. RootLost(t, lost)
    BY <1>1, <1>3, <1>6 DEF EnsureGroup, RootLost
<1>8. /\ freed \subseteq freed'
      /\ lost => \A x \in Incidents : t = "metric" /\ Attaching(x, task[t]) => x \in freed'
    BY <1>7, LostIsFree
<1>9. CASE Ensured(y) # "open" /\ AttachEnds(t, FALSE)
    BY <1>1, <1>2, <1>4, <1>5, <1>6, <1>8, <1>9, AttachReturns
<1>10. CASE task' = [task EXCEPT ![t].pc = "set"]
    <2> DEFINE c == [e EXCEPT !.pc = "set"]
    <2>1. c \in Task
        BY DEF Task, Stages
    <2>2. task' = [task EXCEPT ![t] = c]
        BY <1>1, <1>2, <1>10 DEF Task
    <2>3. c.pc = "set" /\ c.load = e.load /\ c.inc = e.inc
        BY DEF Task
    <2> HIDE DEF c
    <2> QED BY <1>1, <1>2, <1>4, <1>5, <1>8, <2>1, <2>2, <2>3, AttachProceeds
<1> QED BY <1>1, <1>3, <1>9, <1>10 DEF EnsureGroup

\* SetGroup: the member is hidden, or the group is over.
LEMMA SetCovered == ASSUME Sound, NEW t \in Tasks, SetGroup(t) PROVE GInv'
<1> USE DEF cache
<1>1. PICK e \in Task : e = task[t] /\ TaskOK(t, e)
    BY DEF Sound, IInv, TasksOK
<1>2. e.pc = "set" /\ e.load = "no" /\ Known(e.root) /\ Known(e.inc)
    BY <1>1 DEF TaskOK, SetGroup, Task
<1>3. PICK y \in Roots : y = e.root
    BY <1>2, IncidentFacts DEF Task, Known
<1>4. PICK i \in Incidents : i = e.inc
    BY <1>2 DEF Known
<1>5. UNCHANGED <<status, group, cached, fresh>> /\ Join(i, y)
    BY <1>1, <1>3, <1>4 DEF SetGroup
<1>6. /\ \A z \in Incidents : Hidden(z) => Hidden(z)'
      /\ group[y] = "open" /\ status[i] = "open" => Hidden(i)'
    BY <1>5, JoinKeeps DEF Sound
<1>7. GroupsOK'
    BY <1>5, GroupsSame DEF Sound
<1>8. PICK lost \in BOOLEAN : lost <=> group[y] # "open"
    OBVIOUS
<1>9. RootLost(t, lost)
    BY <1>1, <1>3, <1>8 DEF SetGroup, RootLost
<1>10. /\ freed \subseteq freed'
       /\ lost => \A x \in Incidents : t = "metric" /\ Attaching(x, task[t]) => x \in freed'
    BY <1>9, LostIsFree
<1>11. \A x \in Incidents : t = "metric" /\ Needy(x) /\ x \notin freed' /\ Attaching(x, task[t]) => Hidden(x)'
    BY <1>1, <1>4, <1>6, <1>8, <1>10 DEF Needy, Opened, Attaching
<1>12. PICK ok \in BOOLEAN : ok <=> Eligible(e.inc)
    OBVIOUS
<1>13. AttachEnds(t, ok)
    BY <1>1, <1>12 DEF SetGroup, AttachEnds
<1>14. \A x \in Opened : Hidden(x) => Hidden(x)'
    BY <1>6 DEF Opened
<1> QED BY <1>1, <1>2, <1>5, <1>7, <1>10, <1>11, <1>13, <1>14, AttachReturns

-----------------------------------------------------------------------------
(* getSnapshot.                                                             *)

\* getSnapshot returns s, which is current: a member either sees a root or is awaited.
LEMMA ReturnCovered ==
    ASSUME Sound, NEW t \in Tasks, NEW e \in Task, Moves(t, e), UNCHANGED <<status, gid, group>>,
           NEW s \in SUBSET Hosts, Current(s), task[t].pc \in {"attach", "reroot", "retro", "check"},
           e.pc = Return(task[t].pc), e.load = "no", e.snap = s,
           e.inc = task[t].inc, e.root = task[t].root, e.cands = task[t].cands, e.cand = task[t].cand
    PROVE  GInv'
<1>1. Return(task[t].pc) = IF task[t].pc = "attach" THEN "find" ELSE IF task[t].pc = "reroot" THEN "refind"
                           ELSE IF task[t].pc = "retro" THEN "match" ELSE "gate"
    BY DEF Return
<1>2. CASE t = "host"
    <2>1. Host = task[t] /\ Host.pc \in {"attach", "reroot", "retro"}
        BY <1>2 DEF Host, Sound, WorkOK
    <2>2. CASE Host.pc = "retro"
        <3>1. e.pc = "match" /\ Amid(Host.pc) /\ Amid(e.pc) /\ ~ Ahead(Host.pc) /\ ~ Ahead(e.pc)
            BY <1>1, <2>1, <2>2 DEF Ahead, Amid
        <3>2. e.snap = Down
            BY <3>1 DEF Current
        <3>3. \A x \in Incidents : Awaited(x, Host) => Awaited(x, e)
            BY <2>1, <2>2, <3>1 DEF Awaited
        <3> QED BY <1>2, <2>1, <3>1, <3>2, <3>3, HostMoves
    <2>3. CASE Host.pc # "retro"
        <3>1. e.pc \in {"find", "refind"}
            BY <1>1, <2>1, <2>3
        <3>2. Ahead(Host.pc) /\ Ahead(e.pc) /\ ~ Amid(e.pc) /\ ~ Amid(Host.pc)
            BY <2>1, <2>3, <3>1 DEF Ahead, Amid
        <3> QED BY <1>2, <2>1, <3>1, <3>2, HostMoves
    <2> QED BY <2>2, <2>3
<1>3. CASE t = "metric"
    <2>1. Member = task[t] /\ Member.pc = "attach" /\ Member.inc \notin Roots
        BY <1>3 DEF Member, Sound, WorkOK, MemberStages
    <2>2. e.pc = "find" /\ e.pc \in MemberStages
        BY <1>1, <2>1 DEF MemberStages
    <2>3. ASSUME NEW x \in Incidents, Needy(x), Attaching(x, task[t])
          PROVE  Awaited(x, Host) \/ Attaching(x, e)
        <3>1. e.inc = x
            BY <2>3 DEF Attaching
        <3>2. CASE DownRoot(s, Node(x)) = {}
            BY <2>3, <3>2, UnseenIsAwaited
        <3>3. CASE DownRoot(s, Node(x)) # {}
            BY <2>2, <3>1, <3>3 DEF Attaching
        <3> QED BY <3>2, <3>3
    <2> QED BY <1>3, <2>1, <2>2, <2>3, OtherMoves
<1>4. CASE t = "scheduler"
    <2>1. task[t].pc \in {"attach", "check"}
        BY <1>4 DEF Sound, WorkOK, SchedulerStages
    <2>2. e.pc \in SchedulerStages
        BY <1>1, <2>1 DEF SchedulerStages
    <2> QED BY <1>4, <2>2, OtherMoves
<1> QED BY <1>2, <1>3, <1>4 DEF Tasks

\* The load goes on.
LEMMA LoadCovered ==
    ASSUME Sound, NEW t \in Tasks, NEW e \in Task, Moves(t, e), UNCHANGED <<status, gid, group>>,
           task[t].pc \in {"attach", "reroot", "retro", "check"},
           e.pc = task[t].pc, e.inc = task[t].inc, e.root = task[t].root,
           e.cands = task[t].cands, e.cand = task[t].cand
    PROVE  GInv'
<1>1. CASE t = "host"
    <2>1. Host = task[t] /\ e.pc \in {"attach", "reroot", "retro"}
        BY <1>1 DEF Host, Sound, WorkOK
    <2>2. \A x \in Incidents : Awaited(x, Host) => Awaited(x, e)
        BY <2>1 DEF Awaited
    <2> QED BY <1>1, <2>1, <2>2, HostMoves
<1>2. CASE t = "metric"
    <2>1. e.pc = "attach" /\ e.pc \in MemberStages /\ e.inc \notin Roots
        BY <1>2 DEF Member, Sound, WorkOK, MemberStages
    <2>2. \A x \in Incidents : Attaching(x, task[t]) => Attaching(x, e)
        BY <2>1 DEF Attaching
    <2> QED BY <1>2, <2>1, <2>2, OtherMoves
<1>3. CASE t = "scheduler"
    <2>1. e.pc \in SchedulerStages
        BY <1>3 DEF SchedulerStages, Sound, WorkOK
    <2> QED BY <1>3, <2>1, OtherMoves
<1> QED BY <1>1, <1>2, <1>3 DEF Tasks

\* getSnapshot, from the cache or by a load.
LEMMA SnapshotCovered ==
    ASSUME Sound, NEW t \in Tasks, Serve(t) \/ LoadRead(t) \/ LoadStamp(t) \/ LoadStore(t)
    PROVE  GInv'
<1> USE DEF db, cache, ghosts
<1>1. PICK e \in Task : e = task[t] /\ TaskOK(t, e)
    BY DEF Sound, IInv, TasksOK
<1>2. cached \in SUBSET Hosts /\ Down \in SUBSET Hosts /\ e.snap \in SUBSET Hosts
    BY DownFacts DEF Sound, IInv, DbOK, Task
<1>3. task \in [Tasks -> Task] /\ e.load \in {"no", "read", "stamped"}
    BY DEF Sound, IInv, TasksOK, Task
<1>4. UNCHANGED <<status, gid, group, freed>>
    BY DEF Serve, LoadRead, LoadStamp, LoadStore
<1>5. GroupsOK' /\ \A x : Hidden(x) => Hidden(x)'
    BY <1>4, HiddenSame, GroupsSame DEF Sound
<1>6. e.pc \in {"attach", "reroot", "retro", "check"}
    BY <1>1 DEF Serve, LoadRead, LoadStamp, LoadStore, Calls, TaskOK
<1>7. CASE Serve(t)
    <2> DEFINE c == [e EXCEPT !.pc = Return(e.pc), !.load = "no", !.snap = cached]
    <2>1. c \in Task
        BY <1>1, <1>2, <1>6, Returned
    <2>2. task' = [task EXCEPT ![t] = c]
        BY <1>1, <1>3, <1>7 DEF Serve, Task
    <2>3. /\ c.pc = Return(e.pc) /\ c.load = "no" /\ c.snap = cached /\ c.inc = e.inc
          /\ c.root = e.root /\ c.cands = e.cands /\ c.cand = e.cand
        BY DEF Task
    <2> HIDE DEF c
    <2>4. fresh /\ UNCHANGED <<cached, fresh>>
        BY <1>7 DEF Serve
    <2>5. Moves(t, c)
        BY <1>4, <1>5, <2>2, <2>3, <2>4 DEF Moves
    <2>6. Current(cached)
        BY <2>4 DEF Sound, SnapshotsOK
    <2> QED BY <1>1, <1>2, <1>4, <1>6, <2>1, <2>3, <2>5, <2>6, ReturnCovered
<1>8. CASE LoadRead(t)
    <2> DEFINE c == [e EXCEPT !.load = "read", !.snap = Down]
    <2>1. c \in Task
        BY <1>2 DEF Task
    <2>2. task' = [task EXCEPT ![t] = c]
        BY <1>1, <1>3, <1>8 DEF LoadRead, Task
    <2>3. /\ c.pc = e.pc /\ c.snap = Down /\ c.inc = e.inc
          /\ c.root = e.root /\ c.cands = e.cands /\ c.cand = e.cand
        BY DEF Task
    <2> HIDE DEF c
    <2>4. UNCHANGED <<cached, fresh>>
        BY <1>8 DEF LoadRead
    <2>5. Moves(t, c)
        BY <1>4, <1>5, <2>2, <2>3, <2>4 DEF Moves
    <2> QED BY <1>1, <1>4, <1>6, <2>1, <2>3, <2>5, LoadCovered
<1>9. CASE LoadStamp(t)
    <2> DEFINE c == [e EXCEPT !.load = "stamped"]
    <2>1. c \in Task
        BY DEF Task
    <2>2. task' = [task EXCEPT ![t] = c]
        BY <1>1, <1>3, <1>9 DEF LoadStamp, Task
    <2>3. /\ c.pc = e.pc /\ c.snap = e.snap /\ c.inc = e.inc
          /\ c.root = e.root /\ c.cands = e.cands /\ c.cand = e.cand
        BY DEF Task
    <2> HIDE DEF c
    <2>4. UNCHANGED <<cached, fresh>> /\ task[t].load = "read"
        BY <1>9 DEF LoadStamp
    <2>5. Moves(t, c)
        BY <1>1, <1>4, <1>5, <2>2, <2>3, <2>4 DEF Moves
    <2> QED BY <1>1, <1>4, <1>6, <2>1, <2>3, <2>5, LoadCovered
<1>10. CASE LoadStore(t)
    <2> DEFINE c == [e EXCEPT !.pc = Return(e.pc), !.load = "no", !.snap = e.snap]
    <2>1. c \in Task
        BY <1>1, <1>2, <1>6, Returned
    <2>2. task' = [task EXCEPT ![t] = c]
        BY <1>1, <1>3, <1>10 DEF LoadStore, Task
    <2>3. /\ c.pc = Return(e.pc) /\ c.load = "no" /\ c.snap = e.snap /\ c.inc = e.inc
          /\ c.root = e.root /\ c.cands = e.cands /\ c.cand = e.cand
        BY DEF Task
    <2> HIDE DEF c
    <2>4. task[t].load # "no" /\ (UNCHANGED <<cached, fresh>> \/ cached' = task[t].snap)
        BY <1>10 DEF LoadStore
    <2>5. Moves(t, c)
        BY <1>4, <1>5, <2>2, <2>3, <2>4 DEF Moves
    <2>6. Current(e.snap)
        BY <1>1, <2>4 DEF Sound, SnapshotsOK
    <2> QED BY <1>1, <1>2, <1>4, <1>6, <2>1, <2>3, <2>5, <2>6, ReturnCovered
<1> QED BY <1>7, <1>8, <1>9, <1>10

-----------------------------------------------------------------------------
(* The scheduler, the end of a call, the janitor and the clock.             *)

\* A goroutine is done: it was not to cover anybody.
LEMMA EndCovered ==
    ASSUME Sound, NEW t \in Tasks, Moves(t, Idle), task[t].pc \in {"notify", "closing", "gate"}
    PROVE  GInv'
<1>1. Idle \in Task /\ Idle.pc = "idle" /\ Idle.inc = None /\ Idle.load = "no"
    BY IdleOK DEF Idle
<1>2. CASE t = "host"
    <2>1. Host = task[t] /\ ~ Ahead(Host.pc) /\ ~ Amid(Host.pc)
        BY <1>2 DEF Host, Ahead, Amid
    <2>2. ~ Ahead(Idle.pc) /\ ~ Amid(Idle.pc)
        BY <1>1 DEF Ahead, Amid
    <2> QED BY <1>1, <1>2, <2>1, <2>2, HostMoves
<1>3. CASE t = "metric"
    <2>1. None \notin Roots
        BY IncidentFacts
    <2>2. Idle.pc \in MemberStages
        BY <1>1 DEF MemberStages
    <2>3. \A x : ~ Attaching(x, task[t])
        BY DEF Attaching
    <2> QED BY <1>1, <1>3, <2>1, <2>2, <2>3, OtherMoves
<1>4. CASE t = "scheduler"
    <2>1. Idle.pc \in SchedulerStages
        BY <1>1 DEF SchedulerStages
    <2> QED BY <1>1, <1>4, <2>1, OtherMoves
<1> QED BY <1>2, <1>3, <1>4 DEF Tasks

\* The opening is announced or not.
LEMMA NotifyCovered == ASSUME Sound, NEW t \in Tasks, NEW sent \in BOOLEAN, NotifyOpen(t, sent) PROVE GInv'
<1> USE DEF cache, ghosts
<1>1. UNCHANGED <<status, gid, group, cached, fresh, freed>> /\ task' = [task EXCEPT ![t] = Idle]
    BY DEF NotifyOpen, Put
<1>2. GroupsOK' /\ \A x : Hidden(x) => Hidden(x)'
    BY <1>1, HiddenSame, GroupsSame DEF Sound
<1>3. Idle.load = "no" /\ task[t].pc = "notify"
    BY DEF Idle, NotifyOpen
<1>4. Moves(t, Idle)
    BY <1>1, <1>2, <1>3 DEF Moves
<1> QED BY <1>3, <1>4, EndCovered

\* OnRootClosed frees the members of the group.
LEMMA ClosedCovered == ASSUME Sound, NEW t \in Tasks, OnRootClosed(t) PROVE GInv'
<1> USE DEF cache
<1>1. task[t].pc = "closing" /\ t = "host"
    BY DEF OnRootClosed, Sound, WorkOK, MemberStages, SchedulerStages, Member, Tasks
<1>2. UNCHANGED <<status, gid, cached, fresh>> /\ task' = [task EXCEPT ![t] = Idle]
    BY DEF OnRootClosed, Put
<1>3. task[t].root \in Roots /\ status[task[t].root] = "closed"
    BY <1>1 DEF Sound, WorkOK, Host
<1> DEFINE Y == {y \in {task[t].root} : group[y] = "open"}
<1>4. Y \in SUBSET Roots /\ Resolve(Y) /\ \A y \in Y : status[y] # "open" /\ group[y] = "open"
    BY <1>3 DEF OnRootClosed
<1> HIDE DEF Y
<1>5. GroupsOK' /\ freed \subseteq freed' /\ \A x \in Opened : Hidden(x) => Hidden(x)' \/ x \in freed'
    BY <1>2, <1>4, ResolveKeeps DEF Sound
<1>6. Moves(t, Idle)
    BY <1>2, <1>5 DEF Moves, Idle
<1> QED BY <1>1, <1>6, EndCovered

\* MarkSuppressed of the scheduler.
LEMMA SuppressCovered == ASSUME Sound, NEW t \in Tasks, MarkSuppressed(t) PROVE GInv'
<1> USE DEF db, cache, ghosts
<1>1. PICK e \in Task : e = task[t]
    BY DEF Sound, IInv, TasksOK
<1>2. task \in [Tasks -> Task] /\ e.load = "no"
    BY <1>1 DEF Sound, IInv, TasksOK, TaskOK, MarkSuppressed, Task
<1>3. task[t].pc = "gate" /\ t = "scheduler"
    BY DEF MarkSuppressed, Sound, WorkOK, MemberStages, Member, Host, Tasks
<1>4. UNCHANGED <<status, gid, group, cached, fresh, freed>>
    BY DEF MarkSuppressed
<1>5. GroupsOK' /\ \A x : Hidden(x) => Hidden(x)'
    BY <1>4, HiddenSame, GroupsSame DEF Sound
<1>6. CASE task' = [task EXCEPT ![t] = Idle]
    <2>1. Moves(t, Idle)
        BY <1>4, <1>5, <1>6 DEF Moves, Idle
    <2> QED BY <1>3, <2>1, EndCovered
<1>7. CASE task' = [task EXCEPT ![t].pc = "attach", ![t].snap = {}]
    <2> DEFINE c == [e EXCEPT !.pc = "attach", !.snap = {}]
    <2>1. c \in Task
        BY DEF Task, Stages
    <2>2. task' = [task EXCEPT ![t] = c]
        BY <1>1, <1>2, <1>7 DEF Task
    <2>3. c.pc = "attach" /\ c.load = "no"
        BY <1>2 DEF Task
    <2> HIDE DEF c
    <2>4. Moves(t, c) /\ c.pc \in SchedulerStages
        BY <1>4, <1>5, <2>2, <2>3 DEF Moves, SchedulerStages
    <2> QED BY <1>3, <2>1, <2>4, OtherMoves
<1> QED BY <1>6, <1>7 DEF MarkSuppressed, Put

\* CheckIncident of the scheduler.
LEMMA CheckCovered == ASSUME Sound, NEW x \in Incidents, CheckIncident(x) PROVE GInv'
<1> USE DEF db, cache, ghosts
<1>1. "scheduler" \in Tasks /\ task["scheduler"] = Idle /\ Idle \in Task
    BY IdleOK DEF CheckIncident, Free, Tasks
<1>2. task \in [Tasks -> Task]
    BY DEF Sound, IInv, TasksOK
<1>3. UNCHANGED <<status, gid, group, cached, fresh, freed>>
    BY DEF CheckIncident
<1>4. GroupsOK' /\ \A z : Hidden(z) => Hidden(z)'
    BY <1>3, HiddenSame, GroupsSame DEF Sound
<1> DEFINE c == [Idle EXCEPT !.pc = "check", !.inc = x]
<1>5. c.pc = "check" /\ c.load = "no" /\ c \in Task
    BY <1>1 DEF Idle, Task, Stages
<1>6. task' = [task EXCEPT !["scheduler"] = c]
    BY <1>1, <1>2 DEF CheckIncident, Task
<1> HIDE DEF c
<1>7. Moves("scheduler", c) /\ c.pc \in SchedulerStages
    BY <1>3, <1>4, <1>5, <1>6 DEF Moves, SchedulerStages
<1> QED BY <1>5, <1>7, OtherMoves

\* The sweep frees the members of the groups it resolves, the purge hides nobody less, and an
\* expired cache gives out nothing.
LEMMA JanitorCovered ==
    ASSUME Sound, SweepOrphanGroups \/ (\E y \in Roots : PurgeOldGroups(y)) \/ Expire \/ UNCHANGED vars
    PROVE  GInv'
<1> USE DEF db, cache, ghosts, vars
<1> DEFINE e == task["scheduler"]
<1>1. e \in Task /\ task = [task EXCEPT !["scheduler"] = e] /\ e.pc \in SchedulerStages
    BY DEF Sound, IInv, TasksOK, WorkOK, Tasks
<1> HIDE DEF e
<1>2. UNCHANGED <<status, task, gid>> /\ (fresh' => fresh /\ cached' = cached)
    BY DEF SweepOrphanGroups, PurgeOldGroups, Expire
<1>3. GroupsOK' /\ freed \subseteq freed' /\ \A x \in Opened : Hidden(x) => Hidden(x)' \/ x \in freed'
    <2>1. CASE SweepOrphanGroups
        <3> DEFINE Y == {y \in Roots : Orphan(y)}
        <3>1. Y \in SUBSET Roots /\ Resolve(Y) /\ \A y \in Y : status[y] # "open" /\ group[y] = "open"
            BY <2>1 DEF SweepOrphanGroups, Orphan
        <3> HIDE DEF Y
        <3> QED BY <1>2, <3>1, ResolveKeeps DEF Sound
    <2>2. ASSUME NEW y \in Roots, PurgeOldGroups(y)
          PROVE  GroupsOK' /\ freed \subseteq freed' /\ \A x \in Opened : Hidden(x) => Hidden(x)'
        <3>1. \A z \in Roots : group'[z] = IF z = y THEN "purged" ELSE group[z]
            BY <2>2 DEF PurgeOldGroups, Put, Sound, IInv, DbOK
        <3>2. group[y] = "resolved" /\ freed' = freed
            BY <2>2 DEF PurgeOldGroups, Purgeable
        <3>3. GroupsOK'
            BY <1>2, <3>1, <3>2 DEF Sound, GroupsOK
        <3> QED BY <1>2, <3>1, <3>2, <3>3 DEF Hidden, Eligible
    <2>3. CASE Expire \/ UNCHANGED vars
        BY <2>3, HiddenSame, GroupsSame DEF Sound, Expire
    <2> QED BY <2>1, <2>2, <2>3
<1>4. Moves("scheduler", e)
    BY <1>1, <1>2, <1>3 DEF Moves, e
<1> QED BY <1>1, <1>4, OtherMoves

-----------------------------------------------------------------------------
(* The pass of OnRootOpened.                                                *)

\* A stage of the pass is one of the host evaluator.
LEMMA PassIsHost ==
    ASSUME Sound, NEW t \in Tasks,
           task[t].pc \in {"refind", "invalidate", "cands", "match", "group", "join"}
    PROVE  t = "host" /\ Host = task[t]
BY DEF Sound, WorkOK, MemberStages, SchedulerStages, Member, Host, Tasks

\* The end of the pass or its next candidate: whoever is among the rest is awaited.
LEMMA RestCovered ==
    ASSUME Sound, NEW c \in Task, Amid(Host.pc), c.inc = Host.inc, c.root = Host.root, c.load = "no",
           Moves("host", Rest(c)),
           \A x \in Incidents : Needy(x) /\ x \notin freed' /\ Awaited(x, Host) => Hidden(x)' \/ x \in c.cands
    PROVE  GInv'
<1>1. ~ Ahead(Host.pc)
    BY DEF Ahead, Amid
<1>2. CASE c.cands = {}
    <2>1. Rest(c) = Opening(c) /\ Rest(c) \in Task
        BY <1>2, IdleOK DEF Rest, Opening, Task, Stages
    <2>2. Rest(c).pc = "notify" /\ Rest(c).load = "no"
        BY <2>1 DEF Opening, Idle
    <2>3. ~ Ahead(Rest(c).pc) /\ ~ Amid(Rest(c).pc)
        BY <2>2 DEF Ahead, Amid
    <2>4. PICK e \in Task : e = Rest(c)
        BY <2>1
    <2> QED BY <1>1, <1>2, <2>2, <2>3, <2>4, HostMoves
<1>3. CASE c.cands # {}
    <2> DEFINE e == [c EXCEPT !.pc = "retro", !.cand = None]
    <2>1. e \in Task
        BY DEF Task, Stages
    <2>2. e.pc = "retro" /\ e.load = c.load /\ e.inc = c.inc /\ e.root = c.root /\ e.cands = c.cands
        BY DEF Task
    <2>3. Rest(c) = e
        BY <1>3 DEF Rest
    <2> HIDE DEF e
    <2>4. ~ Ahead(e.pc) /\ Amid(e.pc)
        BY <2>2 DEF Ahead, Amid
    <2>5. ASSUME NEW x \in Incidents, Awaited(x, Host), x \in c.cands PROVE Awaited(x, e)
        BY <1>1, <2>2, <2>4, <2>5 DEF Awaited
    <2> QED BY <1>1, <2>1, <2>2, <2>3, <2>4, <2>5, HostMoves
<1> QED BY <1>2, <1>3

\* The root of the pass is an open one, or there is no pass.
LEMMA RefindCovered == ASSUME Sound, NEW t \in Tasks, Refind(t) PROVE GInv'
<1> USE DEF db, cache
<1>1. PICK e \in Task : e = task[t]
    BY DEF Sound, IInv, TasksOK
<1>2. task \in [Tasks -> Task] /\ e.pc = "refind" /\ e.load = "no" /\ t = "host" /\ Host = e
    BY <1>1, PassIsHost DEF Sound, IInv, TasksOK, TaskOK, Refind, Task
<1>3. CASE excused' = TRUE
    BY <1>3 DEF GInv
<1>4. ASSUME NEW y \in RootIncident(DownRoot(e.snap, Node(e.inc))),
             task' = [task EXCEPT ![t].pc = "invalidate", ![t].root = y, ![t].snap = {}]
      PROVE  GInv'
    <2>1. y \in Opened \cap Roots
        BY DEF RootIncident
    <2> DEFINE c == [e EXCEPT !.pc = "invalidate", !.root = y, !.snap = {}]
    <2>2. c \in Task
        BY <2>1 DEF Task, Stages
    <2>3. task' = [task EXCEPT ![t] = c]
        BY <1>1, <1>2, <1>4 DEF Task
    <2>4. c.pc = "invalidate" /\ c.load = "no" /\ c.inc = e.inc /\ c.root = y
        BY <1>2 DEF Task
    <2> HIDE DEF c
    <2>5. UNCHANGED <<status, gid, group, cached, fresh, freed>>
        BY DEF Refind
    <2>6. Moves("host", c)
        BY <1>2, <2>3, <2>4, <2>5, HiddenSame, GroupsSame DEF Moves, Sound
    <2>7. Ahead(Host.pc) /\ Ahead(c.pc) /\ ~ Amid(Host.pc) /\ ~ Amid(c.pc)
        BY <1>2, <2>4 DEF Ahead, Amid
    <2> QED BY <1>2, <2>1, <2>2, <2>4, <2>6, <2>7, HostMoves
<1> QED BY <1>1, <1>3, <1>4 DEF Refind

\* The pass begins.  Every load that is under way is of the present state, or the step is
\* excused; and what is below the new incident's root is below the pass's, or is passed.
LEMMA InvalidateCovered == ASSUME Sound, NEW t \in Tasks, Invalidate(t) PROVE GInv'
<1> USE DEF db
<1>1. PICK e \in Task : e = task[t]
    BY DEF Sound, IInv, TasksOK
<1>2. task \in [Tasks -> Task] /\ e.pc = "invalidate" /\ t = "host" /\ Host = e
    BY <1>1, PassIsHost DEF Sound, IInv, TasksOK, Invalidate
<1>3. e.inc \in Opened \cap Roots /\ e.root \in Opened \cap Roots /\ Ahead(e.pc) /\ ~ Amid(e.pc)
    BY <1>2 DEF Sound, WorkOK, Ahead, Amid
<1> DEFINE c == [e EXCEPT !.pc = "cands"]
<1>4. c \in Task
    BY DEF Task, Stages
<1>5. task' = [task EXCEPT ![t] = c]
    BY <1>1, <1>2 DEF Invalidate, Task
<1>6. c.pc = "cands" /\ c.load = e.load /\ c.snap = e.snap /\ c.inc = e.inc /\ c.root = e.root
    BY DEF Task
<1> HIDE DEF c
<1>7. UNCHANGED <<status, gid, group>> /\ ~ fresh' /\ freed' = freed \cup Passed(t)
    BY DEF Invalidate, DropCache
<1>8. "host" \in Tasks /\ "metric" \in Tasks /\ "scheduler" \in Tasks
    BY DEF Tasks
<1>9. Host' = c /\ \A u \in Tasks : u # "host" => task'[u] = task[u]
    BY <1>2, <1>5, <1>8, TaskMove DEF Sound, Host
<1>10. Member' = Member /\ Opened' = Opened /\ Down' = Down
    BY <1>7, <1>8, <1>9 DEF Member, Opened, Down
<1>11. WorkOK'
    BY <1>3, <1>6, <1>7, <1>8, <1>9, <1>10 DEF Sound, WorkOK, Ahead
<1>12. GroupsOK'
    BY <1>7, GroupsSame DEF Sound
<1>13. CASE \E u \in Tasks : task[u].load # "no" /\ task[u].snap # Down
    BY <1>13 DEF Invalidate, GInv
<1>14. CASE \A u \in Tasks : task[u].load # "no" => task[u].snap = Down
    <2>1. SnapshotsOK'
        <3>1. \A u \in Tasks : task'[u].load # "no" => task'[u].snap = Down'
            BY <1>2, <1>6, <1>9, <1>10, <1>14 DEF Host
        <3>2. \A s : s = Down' => Current(s)'
            BY DEF Current
        <3>3. \A u \in Tasks : task'[u].load # "no" => Current(task[u].snap)'
            BY <3>1 DEF Current
        <3> QED BY <1>6, <1>7, <1>9, <3>3 DEF SnapshotsOK
    <2>2. CoveredOK'
        <3> SUFFICES ASSUME NEW x \in Incidents, Needy(x)'
                     PROVE  Hidden(x)' \/ Awaited(x, Host)' \/ Attaching(x, Member)'
            BY DEF CoveredOK
        <3>1. Needy(x) /\ x \in Opened /\ x \notin Passed(t)
            BY <1>7, <1>10 DEF Needy
        <3>2. Hidden(x) => Hidden(x)'
            BY <1>7, HiddenSame
        <3>3. Attaching(x, Member) => Attaching(x, Member)'
            BY <1>10 DEF Attaching
        <3>4. CASE Awaited(x, Host)
            <4>1. Top(x) = Top(e.inc)
                BY <1>2, <1>3, <3>4 DEF Awaited
            <4>2. RootIncident(Top(x)) = {e.root}
                BY <1>1, <3>1, <4>1 DEF Passed, Top
            <4>3. e.inc \in Incidents
                BY <1>3 DEF Opened
            <4>4. \E m \in Down : Top(x) = {m}
                <5>1. Fallen(Down, Node(x)) # {} => \E m \in Down : Top(x) = {m}
                    BY TopFacts DEF Sound
                <5>2. Fallen(Down, Node(x)) = {} => Top(x) = {Node(x)} \cap Down
                    BY TopFacts DEF Sound
                <5> QED BY <3>1, <5>1, <5>2 DEF Needy
            <4>5. Node(e.root) \in Top(x)
                BY <4>2 DEF RootIncident
            <4>6. Top(x) = {Node(c.root)}
                BY <1>6, <4>4, <4>5
            <4> QED BY <1>6, <1>9, <1>10, <4>6 DEF Awaited, Top
        <3> QED BY <3>1, <3>2, <3>3, <3>4 DEF Sound, CoveredOK
    <2> QED BY <1>11, <1>12, <2>1, <2>2 DEF GInv
<1> QED BY <1>13, <1>14

\* openCandidates takes all that are not hidden; the root itself is not needy.
LEMMA CandidatesCovered == ASSUME Sound, NEW t \in Tasks, OpenCandidates(t) PROVE GInv'
<1> USE DEF db, cache, ghosts
<1>1. PICK e \in Task : e = task[t]
    BY DEF Sound, IInv, TasksOK
<1>2. e.pc = "cands" /\ e.load = "no" /\ t = "host" /\ Host = e
    BY <1>1, PassIsHost DEF Sound, IInv, TasksOK, TaskOK, OpenCandidates, Task
<1> DEFINE C == {x \in Opened : Eligible(x) /\ Foreign(e.root, x)}
           c == [e EXCEPT !.cands = C]
<1>3. C \in SUBSET Incidents
    BY DEF Opened
<1>4. c \in Task /\ c.inc = e.inc /\ c.root = e.root /\ c.load = "no" /\ c.cands = C
    <2> HIDE DEF C
    <2> QED BY <1>2, <1>3 DEF Task
<1>5. task' = [task EXCEPT !["host"] = Rest(c)]
    BY <1>1, <1>2 DEF OpenCandidates, Put
<1>6. UNCHANGED <<status, gid, group, cached, fresh, freed>>
    BY DEF OpenCandidates
<1>7. Amid(Host.pc)
    BY <1>2 DEF Amid
<1>8. e.root \in Opened \cap Roots
    BY <1>2, <1>7 DEF Sound, WorkOK
<1>9. ASSUME NEW x \in Incidents, Needy(x), Awaited(x, Host) PROVE Hidden(x) \/ x \in C
    <2>1. x \in Opened /\ status[x] = "open" /\ Top(x) = {Node(e.root)}
        BY <1>2, <1>9 DEF Needy, Opened, Awaited, Ahead
    <2>2. x # e.root
        <3>1. Fallen(Down, Node(x)) # {} => Node(x) \notin Top(x)
            BY TopFacts DEF Sound
        <3> QED BY <1>8, <1>9, <2>1, <3>1 DEF Needy
    <2> QED BY <2>1, <2>2 DEF Hidden, Foreign
<1> HIDE DEF C, c
<1>10. Rest(c).load = "no"
    BY <1>4 DEF Rest, Opening, Idle, Task
<1>11. Moves("host", Rest(c))
    BY <1>5, <1>6, <1>10, HiddenSame, GroupsSame DEF Moves, Sound
<1> QED BY <1>2, <1>4, <1>6, <1>7, <1>9, <1>11, HiddenSame, RestCovered

\* A candidate that is passed over has another root in the present state.
LEMMA MatchCovered == ASSUME Sound, NEW t \in Tasks, NEW x \in Incidents, Match(t, x) PROVE GInv'
<1> USE DEF db, cache, ghosts
<1>1. PICK e \in Task : e = task[t]
    BY DEF Sound, IInv, TasksOK
<1>2. e.pc = "match" /\ e.load = "no" /\ t = "host" /\ Host = e
    BY <1>1, PassIsHost DEF Sound, IInv, TasksOK, TaskOK, Match, Task
<1>3. e.snap = Down /\ Amid(Host.pc) /\ ~ Ahead(Host.pc)
    BY <1>2 DEF Sound, SnapshotsOK, Amid, Ahead
<1> DEFINE c == [e EXCEPT !.cands = @ \ {x}, !.snap = {}]
<1>4. c \in Task /\ c.inc = e.inc /\ c.root = e.root /\ c.load = "no" /\ c.cands = e.cands \ {x}
    BY <1>2 DEF Task
<1>5. UNCHANGED <<status, gid, group, cached, fresh, freed>>
    BY DEF Match
<1>6. \A z \in Incidents : Awaited(z, Host) => z \in e.cands /\ Top(z) = {Node(e.root)}
    BY <1>2, <1>3 DEF Awaited
<1>7. CASE Top(x) # {Node(e.root)} /\ task' = [task EXCEPT !["host"] = Rest(c)]
    <2> HIDE DEF c
    <2>1. Rest(c).load = "no"
        BY <1>4 DEF Rest, Opening, Idle, Task
    <2>2. Moves("host", Rest(c))
        BY <1>5, <1>7, <2>1, HiddenSame, GroupsSame DEF Moves, Sound
    <2>3. \A z \in Incidents : Awaited(z, Host) => z \in c.cands
        BY <1>4, <1>6, <1>7
    <2> QED BY <1>2, <1>3, <1>4, <2>2, <2>3, RestCovered
<1>8. ASSUME NEW l \in {"join", "group"}, Top(x) = {Node(e.root)},
             task' = [task EXCEPT !["host"] = [c EXCEPT !.pc = l, !.cand = x]]
      PROVE  GInv'
    <2> DEFINE f == [c EXCEPT !.pc = l, !.cand = x]
    <2> HIDE DEF c
    <2>1. f \in Task
        BY <1>4 DEF Task, Stages
    <2>2. f.pc = l /\ f.cand = x /\ f.inc = e.inc /\ f.root = e.root /\ f.load = "no" /\ f.cands = e.cands \ {x}
        BY <1>4 DEF Task
    <2>3. task' = [task EXCEPT !["host"] = f]
        BY <1>8
    <2> HIDE DEF f
    <2>4. Moves("host", f)
        BY <1>5, <2>2, <2>3, HiddenSame, GroupsSame DEF Moves, Sound
    <2>5. Amid(f.pc) /\ ~ Ahead(f.pc) /\ f.pc \in {"join", "group"}
        BY <2>2 DEF Amid, Ahead
    <2>6. \A z \in Incidents : Awaited(z, Host) => Awaited(z, f)
        BY <1>6, <2>2, <2>5 DEF Awaited
    <2> QED BY <1>2, <1>3, <2>1, <2>2, <2>4, <2>5, <2>6, HostMoves
<1>9. task' = [task EXCEPT !["host"] =
                   IF Top(x) = {Node(c.root)}
                   THEN [c EXCEPT !.pc = IF c.grp THEN "join" ELSE "group", !.cand = x] ELSE Rest(c)]
    BY <1>1, <1>2, <1>3 DEF Match, Put, Top
<1> HIDE DEF c
<1> QED BY <1>4, <1>7, <1>8, <1>9

\* The group of an open root is open after EnsureGroup.
LEMMA GroupCovered == ASSUME Sound, NEW t \in Tasks, GroupOfRoot(t) PROVE GInv'
<1> USE DEF cache, ghosts
<1>1. PICK e \in Task : e = task[t]
    BY DEF Sound, IInv, TasksOK
<1>2. e.pc = "group" /\ e.load = "no" /\ t = "host" /\ Host = e
    BY <1>1, PassIsHost DEF Sound, IInv, TasksOK, TaskOK, GroupOfRoot, Task
<1>3. Amid(Host.pc) /\ ~ Ahead(Host.pc)
    BY <1>2 DEF Amid, Ahead
<1>4. PICK y \in Roots : y = e.root /\ status[y] = "open" /\ Known(y)
    BY <1>2, <1>3, IncidentFacts DEF Sound, WorkOK, Opened, Known
<1>5. UNCHANGED <<status, gid, cached, fresh, freed>> /\ group' = Put(group, y, Ensured(y))
    BY <1>1, <1>4 DEF GroupOfRoot
<1>6. GroupsOK' /\ Ensured(y) = "open" /\ \A x : Hidden(x) => Hidden(x)'
    BY <1>4, <1>5, EnsuredKeeps DEF Sound
<1> DEFINE c == [e EXCEPT !.pc = "join", !.grp = TRUE]
<1>7. c \in Task
    BY DEF Task, Stages
<1>8. task' = [task EXCEPT !["host"] = c]
    BY <1>1, <1>2, <1>4, <1>6 DEF GroupOfRoot, Put
<1>9. /\ c.pc = "join" /\ c.load = "no" /\ c.inc = e.inc /\ c.root = e.root
      /\ c.cands = e.cands /\ c.cand = e.cand
    BY <1>2 DEF Task
<1> HIDE DEF c
<1>10. Moves("host", c)
    BY <1>5, <1>6, <1>8, <1>9 DEF Moves
<1>11. Amid(c.pc) /\ ~ Ahead(c.pc)
    BY <1>9 DEF Amid, Ahead
<1>12. \A x \in Incidents : Awaited(x, Host) => Awaited(x, c)
    BY <1>2, <1>3, <1>9, <1>11 DEF Awaited
<1> QED BY <1>2, <1>3, <1>7, <1>9, <1>10, <1>11, <1>12, HostMoves

\* The candidate at hand is hidden.
LEMMA JoinCovered == ASSUME Sound, NEW t \in Tasks, JoinCandidate(t) PROVE GInv'
<1> USE DEF cache
<1>1. PICK e \in Task : e = task[t] /\ TaskOK(t, e)
    BY DEF Sound, IInv, TasksOK
<1>2. e.pc = "join" /\ e.load = "no" /\ t = "host" /\ Host = e
    BY <1>1, PassIsHost DEF TaskOK, JoinCandidate, Task
<1>3. Amid(Host.pc) /\ ~ Ahead(Host.pc)
    BY <1>2 DEF Amid, Ahead
<1>4. PICK y \in Roots : y = e.root /\ status[y] = "open"
    BY <1>2, <1>3 DEF Sound, WorkOK, Opened
<1>5. PICK z \in Incidents : z = e.cand
    BY <1>1, <1>2 DEF TaskOK, Known
<1>6. group[y] = "open"
    BY <1>1, <1>2, <1>4 DEF TaskOK, Live, Sound, GroupsOK
<1>7. UNCHANGED <<status, group, cached, fresh, freed>> /\ Join(z, y)
    BY <1>1, <1>4, <1>5 DEF JoinCandidate
<1>8. /\ \A x \in Incidents : Hidden(x) => Hidden(x)'
      /\ status[z] = "open" => Hidden(z)'
    BY <1>6, <1>7, JoinKeeps DEF Sound
<1>9. \A x \in Opened : Hidden(x) => Hidden(x)'
    BY <1>8 DEF Opened
<1>10. task' = [task EXCEPT !["host"] = Rest(e)]
    BY <1>1, <1>2 DEF JoinCandidate, Put
<1>11. Rest(e).load = "no"
    BY <1>2 DEF Rest, Opening, Idle, Task
<1>12. Moves("host", Rest(e))
    BY <1>7, <1>9, <1>10, <1>11, GroupsSame DEF Moves, Sound
<1>13. ASSUME NEW x \in Incidents, Needy(x), Awaited(x, Host) PROVE Hidden(x)' \/ x \in e.cands
    <2>1. x \in e.cands \/ x = z
        BY <1>2, <1>3, <1>5, <1>13 DEF Awaited
    <2> QED BY <1>8, <1>13, <2>1 DEF Needy, Opened
<1> QED BY <1>2, <1>3, <1>12, <1>13, RestCovered

-----------------------------------------------------------------------------
(* Incidents open and close.                                                *)

\* What Open does.
LEMMA OpenFacts ==
    ASSUME IInv, NEW x \in Incidents, Open(x)
    PROVE  \E c \in Task :
              /\ task' = [task EXCEPT ![Evaluator(x)] = c]
              /\ c.pc = "attach" /\ c.load = "no" /\ c.inc = x
              /\ task[Evaluator(x)] = Idle /\ Evaluator(x) \in Tasks /\ status[x] = "none"
              /\ \A z \in Incidents : status'[z] = IF z = x THEN "open" ELSE status[z]
              /\ Opened' = Opened \cup {x} /\ x \notin Opened
              /\ UNCHANGED <<gid, group, cached, fresh>>
<1> USE DEF cache
<1> DEFINE t == Evaluator(x)
           c == [Idle EXCEPT !.pc = "attach", !.inc = x]
<1>1. t \in Tasks /\ task \in [Tasks -> Task] /\ task[t] = Idle
    BY DEF IInv, TasksOK, Open, Free, Evaluator, Tasks
<1>2. c \in Task /\ c.pc = "attach" /\ c.load = "no" /\ c.inc = x
    BY IdleOK DEF Task, Stages, Idle
<1>3. task' = [task EXCEPT ![t] = c]
    BY <1>1, IdleOK DEF Open, Task
<1>4. \A z \in Incidents : status'[z] = IF z = x THEN "open" ELSE status[z]
    BY DEF Open, Put, IInv, DbOK
<1>5. status[x] = "none"
    <2>1. x[3] \in Nat
        BY IncidentGroupAssumption
    <2>2. status[x] = IF x[3] < x[3] THEN "closed" ELSE "none"
        BY DEF Open, Startable
    <2> QED BY <2>1, <2>2
<1>6. Opened' = Opened \cup {x} /\ x \notin Opened
    BY <1>4, <1>5 DEF Opened
<1>7. UNCHANGED <<gid, group, cached, fresh>>
    BY DEF Open
<1> HIDE DEF c, t
<1> QED BY <1>1, <1>2, <1>3, <1>4, <1>5, <1>6, <1>7 DEF t

\* A host falls silent: the incidents whose root is new have the root of the new one, whose
\* pass will come to them.
LEMMA OpenRootCovered == ASSUME Sound, NEW p \in Roots, Open(p) PROVE GInv'
<1>1. p \in Incidents /\ Evaluator(p) = "host" /\ Node(p) \in Hosts
    BY IncidentFacts DEF Evaluator
<1>2. PICK c \in Task :
              /\ task' = [task EXCEPT !["host"] = c]
              /\ c.pc = "attach" /\ c.load = "no" /\ c.inc = p
              /\ task["host"] = Idle /\ status[p] = "none"
              /\ \A z \in Incidents : status'[z] = IF z = p THEN "open" ELSE status[z]
              /\ Opened' = Opened \cup {p} /\ p \notin Opened
              /\ UNCHANGED <<gid, group, cached, fresh>>
    BY <1>1, OpenFacts DEF Sound
<1>3. "host" \in Tasks /\ "metric" \in Tasks /\ "scheduler" \in Tasks
    BY DEF Tasks
<1>4. Host' = c /\ \A u \in Tasks : u # "host" => task'[u] = task[u]
    BY <1>2, <1>3, TaskMove DEF Sound, Host
<1>5. Member' = Member /\ Host = Idle /\ Host.pc = "idle"
    BY <1>2, <1>3, <1>4 DEF Member, Host, Idle
<1>6. Down' = Down \cup {Node(p)}
    BY <1>2 DEF Down
<1>7. New = {} /\ New' = {Node(p)} /\ ~ Amid(Host.pc)' /\ Ahead(Host.pc)' /\ ~ Amid(Host.pc) /\ ~ Ahead(Host.pc)
    BY <1>2, <1>4, <1>5 DEF New, Ahead, Amid
<1>8. PICK d \in SUBSET Hosts :
          d = Down' /\ freed' = {z \in freed : DownRoot(d, Node(z)) # {Node(p)}}
    <2>1. PICK d : d = Down \cup {Node(y) : y \in {p} \cap Roots}
        OBVIOUS
    <2>2. freed' = {z \in freed : DownRoot(d, Node(z)) # {Node(p)}}
        BY <2>1 DEF Open
    <2>3. d = Down \cup {Node(p)}
        BY <2>1
    <2> QED BY <1>1, <1>6, <2>2, <2>3, DownFacts
<1>9. WorkOK'
    BY <1>2, <1>3, <1>4, <1>5 DEF Sound, WorkOK, Ahead, Amid
<1>10. GroupsOK'
    BY <1>1, <1>2, IncidentFacts DEF Sound, GroupsOK
<1>11. SnapshotsOK'
    <2>1. ASSUME NEW s, Current(s) PROVE Current(s)'
        BY <1>6, <1>7, <2>1 DEF Current
    <2>2. fresh' => Current(cached)'
        <3>1. fresh => Current(cached)
            BY DEF Sound, SnapshotsOK
        <3>2. PICK s : s = cached
            OBVIOUS
        <3> QED BY <1>2, <2>1, <3>1, <3>2 DEF Current
    <2>3. ASSUME NEW u \in Tasks, task'[u].load # "no" PROVE Current(task[u].snap)'
        <3>1. u # "host" /\ task'[u] = task[u]
            BY <1>2, <1>4, <2>3 DEF Host
        <3>2. PICK s : s = task[u].snap /\ Current(s)
            BY <2>3, <3>1 DEF Sound, SnapshotsOK
        <3> QED BY <2>1, <3>1, <3>2 DEF Current
    <2> QED BY <1>2, <1>4, <2>2, <2>3 DEF SnapshotsOK
<1>12. CoveredOK'
    <2> SUFFICES ASSUME NEW x \in Incidents, Needy(x)'
                 PROVE  Hidden(x)' \/ Awaited(x, Host)' \/ Attaching(x, Member)'
        BY DEF CoveredOK
    <2>1. d = Down'
        BY <1>8
    <2>2. PICK n \in Hosts : n = Node(x)
        BY IncidentFacts
    <2>3. PICK s \in SUBSET Hosts : s = Down
        BY DownFacts
    <2>4. Acyclic /\ Node(p) \in d /\ d = s \cup {Node(p)}
        BY <1>6, <2>1, <2>3 DEF Sound
    <2>5. DownRoot(d, n) = DownRoot(d, Node(p)) => Awaited(x, Host)'
        BY <1>2, <1>4, <1>7, <2>1, <2>2 DEF Awaited, Top
    <2>6. x \in Opened \cup {p} /\ x \notin freed' /\ (Fallen(d, n) # {} \/ (x \notin Roots /\ n \in d))
        BY <1>2, <2>1, <2>2 DEF Needy
    <2>7. CASE x = p
        BY <2>2, <2>5, <2>7
    <2>8. CASE x \in freed
        <3>1. DownRoot(d, n) = {Node(p)}
            BY <1>8, <2>1, <2>2, <2>6, <2>8
        <3> QED BY <1>1, <2>4, <2>5, <3>1, RootOfRoot
    <2>9. CASE x # p /\ x \notin freed /\ Needy(x)
        <3>1. Hidden(x) => Hidden(x)'
            BY <1>2, <2>9 DEF Hidden, Eligible
        <3>2. ~ Awaited(x, Host)
            BY <1>5, <1>7 DEF Awaited
        <3>3. Attaching(x, Member) => Attaching(x, Member)'
            BY <1>5 DEF Attaching
        <3> QED BY <2>9, <3>1, <3>2, <3>3 DEF Sound, CoveredOK
    <2>10. CASE x # p /\ x \notin freed /\ ~ Needy(x)
        <3>1. Fallen(s, n) = {} /\ (x \in Roots \/ n \notin s)
            BY <2>2, <2>3, <2>6, <2>10 DEF Needy
        <3>2. CASE Fallen(d, n) # {}
            BY <2>4, <2>5, <3>1, <3>2, RootOfNew
        <3>3. CASE x \notin Roots /\ n \in d
            <4>1. n = Node(p)
                BY <2>4, <3>1, <3>3
            <4> QED BY <2>5, <4>1
        <3> QED BY <2>6, <3>2, <3>3
    <2> QED BY <2>7, <2>8, <2>9, <2>10
<1> QED BY <1>9, <1>10, <1>11, <1>12 DEF GInv

\* The failed hosts stay when an incident of a metric opens or closes.
LEMMA DownSame ==
    ASSUME \A z \in Roots : z \in Opened' <=> z \in Opened
    PROVE  Down' = Down /\ \A z : z \in Opened' \cap Roots <=> z \in Opened \cap Roots
BY DEF Down

\* A metric's incident opens: its own Attach will look.
LEMMA OpenMemberCovered == ASSUME Sound, NEW p \in Incidents \ Roots, Open(p) PROVE GInv'
<1>1. p \in Incidents /\ Evaluator(p) = "metric"
    BY DEF Evaluator
<1>2. PICK c \in Task :
              /\ task' = [task EXCEPT !["metric"] = c]
              /\ c.pc = "attach" /\ c.load = "no" /\ c.inc = p
              /\ task["metric"] = Idle
              /\ \A z \in Incidents : status'[z] = IF z = p THEN "open" ELSE status[z]
              /\ Opened' = Opened \cup {p} /\ p \notin Opened
              /\ UNCHANGED <<gid, group, cached, fresh>>
    BY <1>1, OpenFacts DEF Sound
<1>3. "host" \in Tasks /\ "metric" \in Tasks /\ "scheduler" \in Tasks
    BY DEF Tasks
<1>4. Member' = c /\ \A u \in Tasks : u # "metric" => task'[u] = task[u]
    BY <1>2, <1>3, TaskMove DEF Sound, Member
<1>5. Host' = Host /\ Member = Idle /\ Member.pc = "idle"
    BY <1>2, <1>3, <1>4 DEF Member, Host, Idle
<1>6. Down' = Down /\ \A z : z \in Opened' \cap Roots <=> z \in Opened \cap Roots
    BY <1>2, DownSame
<1>7. New' = New /\ freed' = freed
    BY <1>5 DEF New, Open
<1>8. WorkOK'
    <2>1. \A z \in Roots : status'[z] = status[z]
        BY <1>2, IncidentFacts
    <2> QED BY <1>2, <1>3, <1>4, <1>5, <1>6, <2>1 DEF Sound, WorkOK, MemberStages
<1>9. GroupsOK'
    BY <1>2, IncidentFacts DEF Sound, GroupsOK
<1>10. SnapshotsOK'
    <2>1. fresh' => Current(cached)'
        BY <1>2, <1>5, <1>6, <1>7 DEF Current, Sound, SnapshotsOK
    <2>2. ASSUME NEW u \in Tasks, task'[u].load # "no" PROVE Current(task[u].snap)'
        <3>1. u # "metric" /\ task'[u] = task[u]
            BY <1>2, <1>4, <2>2 DEF Member
        <3> QED BY <1>5, <1>6, <1>7, <2>2, <3>1 DEF Current, Sound, SnapshotsOK
    <2> QED BY <1>5, <1>6, <2>1, <2>2 DEF Sound, SnapshotsOK
<1>11. CoveredOK'
    <2> SUFFICES ASSUME NEW x \in Incidents, Needy(x)'
                 PROVE  Hidden(x)' \/ Awaited(x, Host)' \/ Attaching(x, Member)'
        BY DEF CoveredOK
    <2>1. CASE x = p
        BY <1>2, <1>4, <2>1 DEF Attaching
    <2>2. CASE x # p
        <3>1. Needy(x)
            BY <1>2, <1>6, <1>7, <2>2 DEF Needy
        <3>2. Hidden(x) => Hidden(x)'
            BY <1>2, <2>2 DEF Hidden, Eligible
        <3>3. Awaited(x, Host) => Awaited(x, Host)'
            BY <1>5, <1>6 DEF Awaited, Top
        <3>4. ~ Attaching(x, Member)
            BY <1>5 DEF Attaching
        <3> QED BY <3>1, <3>2, <3>3, <3>4 DEF Sound, CoveredOK
    <2> QED BY <2>1, <2>2
<1> QED BY <1>8, <1>9, <1>10, <1>11 DEF GInv

\* A host speaks again: nobody has a root who had none.
LEMMA CloseRootCovered == ASSUME Sound, NEW p \in Roots, Close(p) \/ CloseDisabled(p) PROVE GInv'
<1> USE DEF cache
<1> DEFINE closing == [Idle EXCEPT !.pc = "closing", !.root = p]
<1>1. p \in Incidents /\ Evaluator(p) = "host"
    BY IncidentFacts DEF Evaluator
<1>2. task \in [Tasks -> Task] /\ "host" \in Tasks /\ "metric" \in Tasks /\ "scheduler" \in Tasks
    BY DEF Sound, IInv, TasksOK, Tasks
<1>3. /\ task["host"] = Idle /\ Idle.pc = "idle" /\ Idle.load = "no"
      /\ closing.pc = "closing" /\ closing.root = p /\ closing.load = "no"
    BY <1>1 DEF Close, CloseDisabled, Resolved, Free, Idle
<1>4. PICK c \in {Idle, closing} : task' = [task EXCEPT !["host"] = c]
    <2>1. CASE Close(p)
        BY <1>1, <1>2, <1>3, <2>1, IdleOK DEF Close, Task
    <2>2. CASE CloseDisabled(p)
        BY <1>2, <1>3, <2>2 DEF CloseDisabled
    <2> QED BY <2>1, <2>2
<1> HIDE DEF closing
<1>5. Host' = c /\ \A u \in Tasks : u # "host" => task'[u] = task[u]
    BY <1>2, <1>4, TaskMove DEF Sound, Host
<1>6. (c.pc = "idle" \/ (c.pc = "closing" /\ c.root = p)) /\ c.load = "no"
    BY <1>3
<1>7. Member' = Member /\ Host = Idle /\ Host.pc = "idle"
    BY <1>2, <1>3, <1>5 DEF Member, Host, Idle
<1>8. /\ \A z \in Incidents : status'[z] = IF z = p THEN "closed" ELSE status[z]
      /\ UNCHANGED <<gid, group, cached, fresh>> /\ freed \subseteq freed' \cup {p}
    BY <1>1 DEF Close, CloseDisabled, Resolved, Put, Sound, IInv, DbOK
<1>9. Opened' \subseteq Opened /\ p \notin Opened'
    BY <1>8 DEF Opened
<1>10. Down' \subseteq Down
    BY <1>9 DEF Down
<1>11. New = {} /\ New' = {} /\ ~ Amid(Host.pc)' /\ ~ Ahead(Host.pc)' /\ ~ Amid(Host.pc) /\ ~ Ahead(Host.pc)
    BY <1>5, <1>6, <1>7 DEF New, Ahead, Amid
<1>12. WorkOK'
    BY <1>1, <1>2, <1>3, <1>5, <1>6, <1>7, <1>8, <1>11 DEF Sound, WorkOK
<1>13. GroupsOK'
    BY <1>1, <1>8, IncidentFacts DEF Sound, GroupsOK
<1>14. SnapshotsOK'
    <2>1. fresh' => Current(cached)'
        BY <1>8, <1>10, <1>11 DEF Current, Sound, SnapshotsOK
    <2>2. ASSUME NEW u \in Tasks, task'[u].load # "no" PROVE Current(task[u].snap)'
        <3>1. u # "host" /\ task'[u] = task[u]
            BY <1>5, <1>6, <2>2 DEF Host
        <3> QED BY <1>10, <1>11, <2>2, <3>1 DEF Current, Sound, SnapshotsOK
    <2> QED BY <1>5, <1>6, <2>1, <2>2 DEF SnapshotsOK
<1>15. CoveredOK'
    <2> SUFFICES ASSUME NEW x \in Incidents, Needy(x)'
                 PROVE  Hidden(x)' \/ Awaited(x, Host)' \/ Attaching(x, Member)'
        BY DEF CoveredOK
    <2>1. x \in Opened' /\ x \in Opened /\ x # p
        BY <1>9 DEF Needy
    <2>2. Needy(x)
        BY <1>8, <1>10, <2>1 DEF Needy, Fallen
    <2>3. Hidden(x) => Hidden(x)'
        BY <1>8, <2>1 DEF Hidden, Eligible
    <2>4. ~ Awaited(x, Host)
        BY <1>7, <1>11 DEF Awaited
    <2>5. Attaching(x, Member) => Attaching(x, Member)'
        BY <1>7 DEF Attaching
    <2> QED BY <2>2, <2>3, <2>4, <2>5 DEF Sound, CoveredOK
<1> QED BY <1>12, <1>13, <1>14, <1>15 DEF GInv

\* A metric's incident is resolved: it hides nobody.
LEMMA CloseMemberCovered == ASSUME Sound, NEW p \in Incidents \ Roots, Close(p) PROVE GInv'
<1> USE DEF cache
<1>1. p \in Incidents /\ task' = task
    BY DEF Close
<1>2. Host' = Host /\ Member' = Member
    BY <1>1 DEF Host, Member
<1>3. /\ \A z \in Incidents : status'[z] = IF z = p THEN "closed" ELSE status[z]
      /\ UNCHANGED <<gid, group, cached, fresh>> /\ freed \subseteq freed' \cup {p}
    BY DEF Close, Resolved, Put, Sound, IInv, DbOK
<1>4. Opened' = Opened \ {p}
    BY <1>3 DEF Opened
<1>5. Down' = Down /\ \A z : z \in Opened' \cap Roots <=> z \in Opened \cap Roots
    BY <1>4, DownSame
<1>6. New' = New
    BY <1>2 DEF New
<1>7. WorkOK'
    <2>1. \A z \in Roots : status'[z] = status[z]
        BY <1>3, IncidentFacts
    <2> QED BY <1>1, <1>2, <1>5, <2>1 DEF Sound, WorkOK
<1>8. GroupsOK'
    BY <1>3, IncidentFacts DEF Sound, GroupsOK
<1>9. SnapshotsOK'
    BY <1>1, <1>2, <1>3, <1>5, <1>6 DEF Sound, SnapshotsOK, Current
<1>10. CoveredOK'
    <2> SUFFICES ASSUME NEW x \in Incidents, Needy(x)'
                 PROVE  Hidden(x)' \/ Awaited(x, Host)' \/ Attaching(x, Member)'
        BY DEF CoveredOK
    <2>1. Needy(x) /\ x # p
        BY <1>3, <1>4, <1>5 DEF Needy
    <2>2. Hidden(x) => Hidden(x)'
        BY <1>3, <2>1 DEF Hidden, Eligible
    <2>3. Awaited(x, Host) => Awaited(x, Host)'
        BY <1>2, <1>5 DEF Awaited, Top
    <2>4. Attaching(x, Member) => Attaching(x, Member)'
        BY <1>2 DEF Attaching
    <2> QED BY <2>1, <2>2, <2>3, <2>4 DEF Sound, CoveredOK
<1> QED BY <1>7, <1>8, <1>9, <1>10 DEF GInv

-----------------------------------------------------------------------------

\* An excuse stays one.
LEMMA ExcusedStays == ASSUME excused, [Next]_vars PROVE excused'
<1> USE DEF ghosts
<1>1. ASSUME NEW t \in Tasks, Serve(t) \/ LoadRead(t) \/ LoadStamp(t) \/ LoadStore(t) PROVE excused'
    BY <1>1 DEF Serve, LoadRead, LoadStamp, LoadStore
<1>2. ASSUME NEW t \in Tasks, Find(t) \/ MemberEligible(t) \/ EnsureGroup(t) \/ SetGroup(t) PROVE excused'
    BY <1>2 DEF Find, MemberEligible, EnsureGroup, SetGroup
<1>3. ASSUME NEW t \in Tasks, OnRootOpened(t) PROVE excused'
    BY <1>3 DEF OnRootOpened, Refind, Invalidate, OpenCandidates, Match, GroupOfRoot, JoinCandidate
<1>4. ASSUME NEW t \in Tasks, OnRootClosed(t) \/ MarkSuppressed(t) \/ Fail(t) PROVE excused'
    BY <1>4 DEF OnRootClosed, MarkSuppressed, Fail, Fault
<1>5. ASSUME NEW t \in Tasks, NEW sent \in BOOLEAN, NotifyOpen(t, sent) PROVE excused'
    BY <1>5 DEF NotifyOpen
<1>6. ASSUME NEW x \in Incidents, Open(x) \/ Close(x) \/ CloseDisabled(x) \/ CheckIncident(x) PROVE excused'
    BY <1>6 DEF Open, Close, CloseDisabled, Resolved, CheckIncident
<1>7. CASE SweepOrphanGroups \/ (\E y \in Roots : PurgeOldGroups(y)) \/ Expire \/ Crash
    BY <1>7 DEF SweepOrphanGroups, PurgeOldGroups, Expire, Crash, Fault
<1>8. CASE UNCHANGED vars
    BY <1>8 DEF vars
<1> QED BY <1>1, <1>2, <1>3, <1>4, <1>5, <1>6, <1>7, <1>8 DEF Next

\* Every step keeps the incidents covered.
LEMMA StepCovered == ASSUME Acyclic, IInv, GInv, [Next]_vars PROVE GInv'
<1>1. CASE excused
    BY <1>1, ExcusedStays DEF GInv
<1>2. CASE ~ excused
    <2>1. Sound
        BY <1>2 DEF GInv, Sound
    <2>2. ASSUME NEW t \in Tasks, Serve(t) \/ LoadRead(t) \/ LoadStamp(t) \/ LoadStore(t) PROVE GInv'
        BY <2>1, <2>2, SnapshotCovered
    <2>3. ASSUME NEW t \in Tasks, Find(t) \/ MemberEligible(t) \/ EnsureGroup(t) \/ SetGroup(t) PROVE GInv'
        BY <2>1, <2>3, FindCovered, EligibleCovered, EnsureCovered, SetCovered
    <2>4. ASSUME NEW t \in Tasks, OnRootOpened(t) PROVE GInv'
        BY <2>1, <2>4, RefindCovered, InvalidateCovered, CandidatesCovered, MatchCovered, GroupCovered,
           JoinCovered DEF OnRootOpened
    <2>5. ASSUME NEW t \in Tasks, OnRootClosed(t) \/ MarkSuppressed(t) PROVE GInv'
        BY <2>1, <2>5, ClosedCovered, SuppressCovered
    <2>6. ASSUME NEW t \in Tasks, Fail(t) PROVE GInv'
        BY <2>6 DEF Fail, Fault, GInv
    <2>7. ASSUME NEW t \in Tasks, NEW sent \in BOOLEAN, NotifyOpen(t, sent) PROVE GInv'
        BY <2>1, <2>7, NotifyCovered
    <2>8. ASSUME NEW x \in Incidents, Open(x) \/ Close(x) \/ CloseDisabled(x) PROVE GInv'
        BY <2>1, <2>8, OpenRootCovered, OpenMemberCovered, CloseRootCovered, CloseMemberCovered
           DEF CloseDisabled
    <2>9. ASSUME NEW x \in Incidents, CheckIncident(x) PROVE GInv'
        BY <2>1, <2>9, CheckCovered
    <2>10. CASE SweepOrphanGroups \/ (\E y \in Roots : PurgeOldGroups(y)) \/ Expire \/ UNCHANGED vars
        BY <2>1, <2>10, JanitorCovered
    <2>11. CASE Crash
        BY <2>11 DEF Crash, Fault, GInv
    <2> QED BY <2>2, <2>3, <2>4, <2>5, <2>6, <2>7, <2>8, <2>9, <2>10, <2>11 DEF Next
<1> QED BY <1>1, <1>2

\* Where the dependencies have no cycle, and no fault, overtaken load or lost pass
\* interferes, every open incident below a failed host is a member of an open group once
\* the evaluators are at rest, whichever of the two opened first: Attach of groupGate or
\* the pass of OnRootOpened has found it, through whatever snapshots the cache gave out.
THEOREM GroupsAreComplete == Acyclic => (Spec => []GroupIsComplete)
<1>1. Init => GInv
    <2> SUFFICES ASSUME Init PROVE GInv
        OBVIOUS
    <2> USE DEF Init
    <2>1. Host = Idle /\ Member = Idle /\ task["scheduler"] = Idle /\ Opened = {}
        BY DEF Host, Member, Tasks, Opened
    <2>2. Idle.pc = "idle" /\ Idle.inc = None /\ Idle.load = "no" /\ None \notin Roots
        BY IncidentFacts DEF Idle
    <2>3. WorkOK
        BY <2>1, <2>2 DEF WorkOK, MemberStages, SchedulerStages, Ahead, Amid
    <2>4. GroupsOK
        BY IncidentFacts DEF GroupsOK
    <2>5. SnapshotsOK
        BY <2>1, <2>2 DEF SnapshotsOK
    <2>6. CoveredOK
        BY <2>1 DEF CoveredOK, Needy
    <2> QED BY <2>3, <2>4, <2>5, <2>6 DEF GInv
<1>2. Acyclic /\ IInv /\ GInv => GroupIsComplete
    <2> SUFFICES ASSUME Acyclic, IInv, GInv, ~ excused, task["host"] = Idle, task["metric"] = Idle,
                        NEW x \in Opened \ freed, NEW y \in RootIncident(DownRoot(Down, Node(x))), y # x
                 PROVE  Hidden(x)
        BY DEF GroupIsComplete
    <2>1. Needy(x) /\ x \in Incidents
        BY NeedyMeans DEF Top, Opened
    <2>2. Host.pc = "idle" /\ Member.pc = "idle"
        BY DEF Host, Member, Idle
    <2>3. ~ Awaited(x, Host) /\ ~ Attaching(x, Member)
        BY <2>2 DEF Awaited, Attaching, Ahead, Amid
    <2> QED BY <2>1, <2>3 DEF GInv, CoveredOK
<1>3. SUFFICES ASSUME Acyclic PROVE Spec => []GroupIsComplete
    OBVIOUS
<1>4. IInv /\ GInv /\ [Next]_vars => GInv'
    BY <1>3, StepCovered
<1>5. IInv /\ GInv => GroupIsComplete
    BY <1>2, <1>3
<1> QED BY <1>1, <1>4, <1>5, Invariance, PTL DEF Spec

=============================================================================
