------------------------- MODULE DepSuppressProofs -------------------------
(***************************************************************************)
(* The walks of DepSuppress are right on every graph, whatever the order   *)
(* in which the stack is popped.  The inductive invariant says that a walk *)
(* stays among the failed ancestors of its start, that the parents of what *)
(* it visited are visited or on the stack, and that the roots it has met   *)
(* are exactly the ones recorded; with an empty stack the visited nodes    *)
(* are then a closed set, which contains all ancestors.                    *)
(***************************************************************************)
EXTENDS DepSuppress, TLAPS

\* The visited ancestors that no failed parent stands above.
Met == {p \in visited \ {start} : DownParents(p) = {}}

\* Everything met is an ancestor of the start.
Sound == stack \cup (visited \ {start}) \subseteq Above(start)

\* What was visited has its parents visited or waiting, until ParentDown returns.
Complete == ~ suppressed => \A p \in visited : DownParents(p) \subseteq visited \cup stack

\* The roots met are recorded: in the list, or as the answer.
Recorded ==
    /\ query = "DownRoot" => roots = Met /\ ~ suppressed
    /\ query = "ParentDown" => (suppressed <=> Met # {})

\* A walk that returned without a root was at the end of its stack.
Finished ==
    /\ done /\ ~ suppressed => stack = {}
    /\ done /\ query = "DownRoot" =>
           root = IF roots # {} THEN First(roots) ELSE {start} \cap down
    /\ suppressed => done

IInv ==
    /\ TypeOK
    /\ start \in visited
    /\ Sound
    /\ Complete
    /\ Recorded
    /\ Finished

----------------------------------------------------------------------------
(* Ancestors                                                                *)

\* The failed parents are ancestors, and so are the failed parents of ancestors.
LEMMA AboveIsClosed ==
    ASSUME TypeOK, NEW n \in Nodes
    PROVE  DownParents(n) \subseteq Above(n) /\ Closed(Above(n))
<1>1. \A m \in Nodes : DownParents(m) \subseteq Nodes
  BY DEF DownParents, TypeOK
<1>2. DownParents(n) \subseteq Above(n)
  BY <1>1 DEF Above
<1>3. ASSUME NEW p \in Above(n), NEW q \in DownParents(p) PROVE q \in Above(n)
  <2>1. p \in Nodes /\ q \in Nodes
    BY <1>1, <1>3 DEF Above
  <2>2. ASSUME NEW C \in SUBSET Nodes, DownParents(n) \subseteq C, Closed(C) PROVE q \in C
    <3>1. p \in C
      BY <2>2 DEF Above
    <3>2. QED
      BY <3>1, <1>3, <2>2 DEF Closed
  <2>3. QED
    BY <2>1, <2>2 DEF Above
<1>4. QED
  BY <1>2, <1>3 DEF Closed

\* The ancestors are the least such set.
LEMMA AboveIsLeast ==
    ASSUME NEW n \in Nodes, NEW C \in SUBSET Nodes, DownParents(n) \subseteq C, Closed(C)
    PROVE  Above(n) \subseteq C
BY DEF Above

\* The start is no root above itself: with no failed parents it has no ancestors.
LEMMA StartIsNoTop ==
    ASSUME TypeOK, NEW n \in Nodes, n \in Above(n)
    PROVE  DownParents(n) # {}
<1>1. SUFFICES ASSUME DownParents(n) = {} PROVE FALSE
  OBVIOUS
<1>2. Above(n) \subseteq {}
  BY <1>1, AboveIsLeast DEF Closed
<1>3. QED
  BY <1>2

\* At the end of the stack everything above the start has been visited, and the
\* roots met are all there are.
LEMMA MetAll ==
    ASSUME IInv, stack = {}, ~ suppressed
    PROVE  Met = Tops(start)
<1>1. start \in Nodes /\ visited \in SUBSET Nodes
  BY DEF IInv, TypeOK
<1>2. DownParents(start) \subseteq visited /\ Closed(visited)
  BY DEF IInv, Complete, Closed
<1>3. Above(start) \subseteq visited
  BY <1>1, <1>2, AboveIsLeast
<1>4. start \in Above(start) => DownParents(start) # {}
  BY <1>1, StartIsNoTop DEF IInv
<1>5. visited \ {start} \subseteq Above(start)
  BY DEF IInv, Sound
<1>6. QED
  BY <1>3, <1>4, <1>5 DEF Met, Tops

----------------------------------------------------------------------------
(* The steps keep the invariant                                             *)

\* A walk starts among the ancestors, with nothing met.
LEMMA InitInv == Init => IInv
<1> SUFFICES ASSUME Init PROVE IInv
  OBVIOUS
<1>1. TypeOK /\ start \in visited
  BY DEF Init, TypeOK, DownParents
<1>2. Sound
  BY <1>1, AboveIsClosed DEF Init, Sound, TypeOK
<1>3. Complete
  BY DEF Init, Complete
<1>4. Met = {}
  BY DEF Init, Met
<1>5. QED
  BY <1>1, <1>2, <1>3, <1>4 DEF Init, IInv, Recorded, Finished

\* The snapshot does not change under a walk.
LEMMA SnapshotKept ==
    ASSUME UNCHANGED snapshot
    PROVE  /\ \A n : DownParents(n)' = DownParents(n)
           /\ Above(start)' = Above(start)
           /\ start' = start /\ query' = query /\ down' = down
<1>1. edges' = edges /\ down' = down /\ start' = start /\ query' = query
  BY DEF snapshot
<1>2. \A n : DownParents(n)' = DownParents(n)
  BY <1>1 DEF DownParents
<1>3. Above(start)' = Above(start)
  BY <1>1, <1>2 DEF Above, Closed, DownParents
<1>4. QED
  BY <1>1, <1>2, <1>3

\* A popped node that was visited is dropped: nothing was missed.
LEMMA SkipStep ==
    ASSUME IInv, NEW p \in Nodes, Skip(p)
    PROVE  IInv'
<1> USE DEF Skip, Seen
<1>1. \A n : DownParents(n)' = DownParents(n)
  BY SnapshotKept
<1>2. Above(start)' = Above(start) /\ start' = start /\ query' = query /\ down' = down
  BY SnapshotKept
<1>3. Met' = Met
  BY <1>1, <1>2 DEF Met
<1>4. TypeOK' /\ (start \in visited)'
  BY DEF IInv, TypeOK, snapshot
<1>5. Sound'
  BY <1>2 DEF IInv, Sound
<1>6. Complete'
  BY <1>1 DEF IInv, Complete
<1>7. Recorded'
  BY <1>2, <1>3 DEF IInv, Recorded
<1>8. Finished'
  BY <1>2 DEF IInv, Finished
<1>9. QED
  BY <1>4, <1>5, <1>6, <1>7, <1>8 DEF IInv

\* A root that is met is recorded.
LEMMA AnchorStep ==
    ASSUME IInv, NEW p \in Nodes, Anchor(p)
    PROVE  IInv'
<1> USE DEF Anchor, Seen, IsRoot
<1>1. \A n : DownParents(n)' = DownParents(n)
  BY SnapshotKept
<1>2. Above(start)' = Above(start) /\ start' = start /\ query' = query /\ down' = down
  BY SnapshotKept
<1>3. p # start /\ p \notin visited /\ DownParents(p) = {}
  BY DEF IInv
<1>4. Met' = Met \cup {p}
  BY <1>1, <1>2, <1>3 DEF Met
<1>5. TypeOK' /\ (start \in visited)'
  BY DEF IInv, TypeOK, snapshot
<1>6. Sound'
  BY <1>2 DEF IInv, Sound
<1>7. Complete'
  BY <1>1, <1>3 DEF IInv, Complete, Finished
<1>8. Recorded'
  <2>1. CASE query = "ParentDown"
    BY <2>1, <1>2, <1>4 DEF IInv, Recorded
  <2>2. CASE query = "DownRoot"
    BY <2>2, <1>2, <1>4 DEF IInv, Recorded
  <2>3. QED
    BY <2>1, <2>2
<1>9. Finished'
  BY <1>2 DEF IInv, Finished
<1>10. QED
  BY <1>5, <1>6, <1>7, <1>8, <1>9 DEF IInv

\* The parents of an ancestor are ancestors, and go on the stack.
LEMMA ClimbStep ==
    ASSUME IInv, NEW p \in Nodes, Climb(p)
    PROVE  IInv'
<1> USE DEF Climb, Seen, IsRoot
<1>1. \A n : DownParents(n)' = DownParents(n)
  BY SnapshotKept
<1>2. Above(start)' = Above(start) /\ start' = start /\ query' = query /\ down' = down
  BY SnapshotKept
<1>3. Met' = Met
  BY <1>1, <1>2 DEF Met
<1>4. TypeOK' /\ (start \in visited)'
  BY DEF IInv, TypeOK, snapshot, DownParents
<1>5. Sound'
  <2>1. p \in Above(start) /\ Closed(Above(start))
    BY AboveIsClosed DEF IInv, Sound, TypeOK
  <2>2. DownParents(p) \subseteq Above(start)
    BY <2>1 DEF Closed
  <2>3. QED
    BY <1>2, <2>1, <2>2 DEF IInv, Sound
<1>6. Complete'
  BY <1>1 DEF IInv, Complete
<1>7. Recorded'
  BY <1>2, <1>3 DEF IInv, Recorded
<1>8. Finished'
  BY <1>2 DEF IInv, Finished
<1>9. QED
  BY <1>4, <1>5, <1>6, <1>7, <1>8 DEF IInv

\* The answer is read off the list of roots when the stack is empty.
LEMMA ReturnStep ==
    ASSUME IInv, Return
    PROVE  IInv'
<1> USE DEF Return
<1>1. \A n : DownParents(n)' = DownParents(n)
  BY SnapshotKept
<1>2. Above(start)' = Above(start) /\ start' = start /\ query' = query /\ down' = down
  BY SnapshotKept
<1>3. Met' = Met
  BY <1>1, <1>2 DEF Met
<1>4. First(roots) \subseteq Nodes /\ \A m, n \in First(roots) : m = n
  <2>1. ASSUME NEW m \in First(roots), NEW n \in First(roots) PROVE m = n
    <3>1. Rank[m] <= Rank[n] /\ Rank[n] <= Rank[m] /\ m \in Nodes /\ n \in Nodes
      BY DEF First, IInv, TypeOK
    <3>2. Rank[m] = Rank[n]
      BY <3>1, DepSuppressAssumption
    <3>3. QED
      BY <3>1, <3>2, DepSuppressAssumption
  <2>2. QED
    BY <2>1 DEF First, IInv, TypeOK
<1>5. TypeOK' /\ (start \in visited)'
  BY <1>4 DEF IInv, TypeOK, snapshot
<1>6. Sound'
  BY <1>2 DEF IInv, Sound
<1>7. Complete'
  BY <1>1 DEF IInv, Complete
<1>8. Recorded'
  BY <1>2, <1>3 DEF IInv, Recorded
<1>9. Finished'
  BY <1>2 DEF IInv, Finished, First
<1>10. QED
  BY <1>5, <1>6, <1>7, <1>8, <1>9 DEF IInv

\* Every step keeps the invariant ...
LEMMA StepInv == IInv /\ [Next]_vars => IInv'
<1> SUFFICES ASSUME IInv, [Next]_vars PROVE IInv'
  OBVIOUS
<1>1. CASE Return
  BY <1>1, ReturnStep
<1>2. ASSUME NEW p \in Nodes, Skip(p) \/ Anchor(p) \/ Climb(p) PROVE IInv'
  BY <1>2, SkipStep, AnchorStep, ClimbStep
<1>3. CASE UNCHANGED vars
  <2>1. UNCHANGED <<edges, down, query, start, visited, stack, roots, done, suppressed, root>>
    BY <1>3 DEF vars, snapshot
  <2>2. \A n : DownParents(n)' = DownParents(n)
    BY <2>1 DEF DownParents
  <2>3. Above(start)' = Above(start)
    BY <2>1, SnapshotKept DEF snapshot
  <2>4. Met' = Met
    BY <2>1, <2>2 DEF Met
  <2>5. TypeOK' /\ (start \in visited)' /\ Sound'
    BY <2>1, <2>3 DEF IInv, TypeOK, Sound
  <2>6. Complete'
    BY <2>1, <2>2 DEF IInv, Complete
  <2>7. Recorded'
    BY <2>1, <2>4 DEF IInv, Recorded
  <2>8. Finished'
    BY <2>1 DEF IInv, Finished, First
  <2>9. QED
    BY <2>5, <2>6, <2>7, <2>8 DEF IInv
<1>4. QED
  BY <1>1, <1>2, <1>3 DEF Next

\* ... so it always holds.
LEMMA Inductive == Spec => []IInv
<1>1. QED
  BY InitInv, StepInv, PTL DEF Spec

----------------------------------------------------------------------------
(* Theorems                                                                 *)

\* The walks keep their types, and DownRoot answers with one node at most.
THEOREM TypeCorrect == Spec => []TypeOK
<1>1. IInv => TypeOK
  BY DEF IInv
<1>2. QED
  BY <1>1, Inductive, PTL

\* parentDownFromSnapshot is right on every graph: suppression is always anchored in
\* a failed ancestor that pages, and a node that has one is always suppressed.
THEOREM NoBlackHole == Spec => []ParentDownIsRight
<1>1. IInv => ParentDownIsRight
  <2> SUFFICES ASSUME IInv, done, query = "ParentDown"
               PROVE  suppressed <=> Tops(start) # {}
    BY DEF ParentDownIsRight
  <2>1. CASE suppressed
    <3>1. Met \subseteq Tops(start)
      BY DEF IInv, Sound, Met, Tops
    <3>2. QED
      BY <2>1, <3>1 DEF IInv, Recorded
  <2>2. CASE ~ suppressed
    <3>1. Met = Tops(start)
      BY <2>2, MetAll DEF IInv, Finished
    <3>2. QED
      BY <2>2, <3>1 DEF IInv, Recorded
  <2>3. QED
    BY <2>1, <2>2
<1>2. QED
  BY <1>1, Inductive, PTL

\* downRootFromSnapshot is right on every graph and agrees with ParentDown.
THEOREM GroupedUnderTop == Spec => []DownRootIsRight
<1>1. IInv => DownRootIsRight
  <2> SUFFICES ASSUME IInv, done, query = "DownRoot"
               PROVE  root = IF Tops(start) # {} THEN First(Tops(start)) ELSE {start} \cap down
    BY DEF DownRootIsRight
  <2>1. ~ suppressed /\ roots = Met
    BY DEF IInv, Recorded
  <2>2. Met = Tops(start)
    BY <2>1, MetAll DEF IInv, Finished
  <2>3. QED
    BY <2>1, <2>2 DEF IInv, Finished
<1>2. QED
  BY <1>1, Inductive, PTL
=============================================================================
