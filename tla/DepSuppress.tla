---------------------------- MODULE DepSuppress ----------------------------
(***************************************************************************)
(* internal/depsuppress/suppressor.go: the two walks up the dependency     *)
(* graph of a snapshot.  ParentDown decides whether an alert is suppressed *)
(* and DownRoot names the node whose incident groups it.  The graph is any *)
(* graph: Store.Create refuses cycles only among explicit nodes and only   *)
(* without a concurrent Create, and edges with a label selector follow the *)
(* hosts' labels.                                                          *)
(***************************************************************************)
EXTENDS Integers

CONSTANTS
    Nodes,      \* hosts and monitors
    Rank        \* the order of DownRoot's sort: hosts before monitors, then ids

ASSUME DepSuppressAssumption ==
    /\ Rank \in [Nodes -> Nat]
    /\ \A m, n \in Nodes : Rank[m] = Rank[n] => m = n

VARIABLES
    (* the snapshot and the call *)
    edges,      \* <<child, parent>>: the child matches an edge of the parent
    down,       \* nodes with an open incident that counts (silent host, monitor)
    query,      \* "ParentDown" or "DownRoot"
    start,
    (* the walk *)
    visited,
    stack,      \* the nodes on the stack: the walk is checked for every order of popping
    roots,      \* DownRoot's list
    (* the result *)
    done,
    suppressed, \* ParentDown's answer
    root        \* DownRoot's answer: one node or none

snapshot == <<edges, down, query, start>>
vars == <<snapshot, visited, stack, roots, done, suppressed, root>>

\* matchingParents (which skips a node that matches its own label edge) and parentIsDown.
DownParents(n) == {p \in down : <<n, p>> \in edges /\ p # n}

\* The walk's variables have their types, and an answer is one node at most.
TypeOK ==
    /\ edges \subseteq Nodes \X Nodes /\ down \subseteq Nodes
    /\ query \in {"ParentDown", "DownRoot"} /\ start \in Nodes
    /\ visited \subseteq Nodes /\ stack \subseteq Nodes /\ roots \subseteq Nodes
    /\ done \in BOOLEAN /\ suppressed \in BOOLEAN
    /\ root \subseteq Nodes /\ \A m, n \in root : m = n

Init ==
    /\ edges \in SUBSET (Nodes \X Nodes) /\ down \in SUBSET Nodes
    /\ query \in {"ParentDown", "DownRoot"} /\ start \in Nodes
    /\ visited = {start} /\ stack = DownParents(start) /\ roots = {}
    /\ done = FALSE /\ suppressed = FALSE /\ root = {}

\* A walk that follows edges without remembering where it was.
SeenNever(p) == FALSE

Seen(p) == p \in visited

\* A walk that takes a node whose parents were all visited for a root.
IsRootOfUnseen(p) == DownParents(p) \subseteq visited

IsRoot(p) == DownParents(p) = {}

\* visited[p]: popped and skipped.
Skip(p) ==
    /\ ~ done /\ p \in stack /\ Seen(p)
    /\ stack' = stack \ {p}
    /\ UNCHANGED <<snapshot, visited, roots, done, suppressed, root>>

\* A down root: ParentDown returns true, DownRoot collects it.
Anchor(p) ==
    /\ ~ done /\ p \in stack /\ ~ Seen(p) /\ IsRoot(p)
    /\ visited' = visited \cup {p}
    /\ stack' = stack \ {p}
    /\ \/ /\ query = "ParentDown"
          /\ done' = TRUE /\ suppressed' = TRUE
          /\ UNCHANGED roots
       \/ /\ query = "DownRoot"
          /\ roots' = roots \cup {p}
          /\ UNCHANGED <<done, suppressed>>
    /\ UNCHANGED <<snapshot, root>>

Climb(p) ==
    /\ ~ done /\ p \in stack /\ ~ Seen(p) /\ ~ IsRoot(p)
    /\ visited' = visited \cup {p}
    /\ stack' = (stack \ {p}) \cup DownParents(p)
    /\ UNCHANGED <<snapshot, roots, done, suppressed, root>>

\* An answer that is not sorted down to one node.
FirstAny(R) == R

\* roots[0] after the sort.
First(R) == {r \in R : \A q \in R : Rank[r] <= Rank[q]}

\* The stack is empty.  DownRoot without a root above: the node itself if it is down.
Return ==
    /\ ~ done /\ stack = {}
    /\ done' = TRUE
    /\ root' = IF query = "ParentDown" THEN {}
               ELSE IF roots # {} THEN First(roots)
               ELSE {start} \cap down
    /\ UNCHANGED <<snapshot, visited, stack, roots, suppressed>>

Next == Return \/ \E p \in Nodes : Skip(p) \/ Anchor(p) \/ Climb(p)

Spec == Init /\ [][Next]_vars /\ WF_vars(Next)

----------------------------------------------------------------------------
(* Properties                                                               *)

Closed(C) == \A p \in C : DownParents(p) \subseteq C

\* The failed ancestors of n: the least set that holds its failed parents and
\* theirs, and theirs ...
Above(n) ==
    {m \in Nodes : \A C \in SUBSET Nodes : DownParents(n) \subseteq C /\ Closed(C) => m \in C}

\* Those of them that page themselves, because nothing above them has failed.
Tops(n) == {m \in Above(n) : DownParents(m) = {}}

\* No black hole: ParentDown suppresses a node exactly if a failed ancestor without
\* failed parents, which itself is not suppressed, speaks for it.  Nodes of a cycle
\* of failed parents all page.
ParentDownIsRight ==
    done /\ query = "ParentDown" => (suppressed <=> Tops(start) # {})

\* DownRoot returns the first of the same ancestors, so an incident is grouped
\* under a node that pages; only if there is none, the failed node itself.
DownRootIsRight ==
    done /\ query = "DownRoot" =>
        root = IF Tops(start) # {} THEN First(Tops(start)) ELSE {start} \cap down

\* The walk ends on every graph, cyclic ones included.
WalkEnds == <>done
=============================================================================
