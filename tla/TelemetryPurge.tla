--------------------------- MODULE TelemetryPurge ---------------------------
(***************************************************************************)
(* internal/telemetry/purge_queue.go and purge.go: the telemetry of        *)
(* deleted projects is deleted from ClickHouse on request of the           *)
(* transaction that deleted the project (org/project.go), while the        *)
(* Batcher of an ingest process may still hold rows of it.                 *)
(***************************************************************************)
EXTENDS Batcher

CONSTANTS
    Workers,        \* PurgeWorker, one for each replica
    Nobody

ASSUME PurgeAssumption == IsFiniteSet(Projects) /\ Nobody \notin Workers \cup Projects

VARIABLES
    status,     \* projects: "none" (not created), "live" or "deleted"
    queue,      \* project_purge_queue, by enqueued_at
    table,      \* the rows in the tables of ClickHouse
    lock,       \* who holds purgeWorkerLockID
    wpc,        \* a worker is at: "idle", "claim", "purge", "done" or "live"
    cur,        \* the project it purges
    seen,       \* the projects Reconcile found in ClickHouse
    afterwards  \* rows written after their project was deleted

purgeVars == <<status, queue, table, lock, wpc, cur, seen, afterwards>>
vars == <<batcherVars, purgeVars>>

RowsOf(p) == {i \in Rows : feed[i].project = p}
Live == {p \in Projects : status[p] = "live"}
Deleted == {p \in Projects : status[p] = "deleted"}
InTables == {p \in Projects : table \cap RowsOf(p) # {}}

Init ==
    /\ BatcherInit
    /\ status = [p \in Projects |-> "none"]
    /\ queue = <<>> /\ table = {} /\ lock = Nobody /\ afterwards = {}
    /\ wpc = [w \in Workers |-> "idle"] /\ cur = [w \in Workers |-> Nobody]
    /\ seen = [w \in Workers |-> {}]

----------------------------------------------------------------------------
(* The ingest process                                                       *)

\* A row comes after its request was authenticated, in time or not.
Ingest ==
    /\ Add /\ status[feed[added'].project] # "none"
    /\ UNCHANGED purgeVars

\* What the flush writes is in the tables.
FlushStep ==
    /\ Flush
    /\ LET new == {i \in Rows : written'[i] > written[i]}
       IN  /\ table' = table \cup new
           /\ afterwards' = afterwards \cup {i \in new : feed[i].project \in Deleted}
    /\ UNCHANGED <<status, queue, lock, wpc, cur, seen>>

\* The rest of what the process does.
ProcessStep == (Deadline \/ Close \/ Drained \/ Crash) /\ UNCHANGED purgeVars

----------------------------------------------------------------------------
(* Projects                                                                 *)

\* Projects without rows to come are of no interest.
CreateProject(p) ==
    /\ status[p] = "none" /\ RowsOf(p) # {}
    /\ status' = [status EXCEPT ![p] = "live"]
    /\ UNCHANGED <<batcherVars, queue, table, lock, wpc, cur, seen, afterwards>>

\* INSERT ... ON CONFLICT (project_id) DO NOTHING.
Requested(ps) == queue \o SetToSeq(ps \ ToSet(queue))

\* DELETE of the row of p, if it is there.
Without(p) ==
    IF p \in ToSet(queue) THEN RemoveAt(queue, CHOOSE k \in DOMAIN queue : queue[k] = p) ELSE queue

\* The request is committed before the project is deleted.
DeleteRequestFirst(p) ==
    /\ status[p] = "live"
    /\ queue' = Requested({p})
    /\ UNCHANGED <<batcherVars, status, table, lock, wpc, cur, seen, afterwards>>

\* One transaction writes the request and deletes the project.
DeleteProject(p) ==
    /\ status[p] = "live"
    /\ queue' = Requested({p})
    /\ status' = [status EXCEPT ![p] = "deleted"]
    /\ UNCHANGED <<batcherVars, table, lock, wpc, cur, seen, afterwards>>

----------------------------------------------------------------------------
(* PurgeWorker                                                              *)

\* withPurgeLock: the pass begins with the first statement under the lock.
WithPurgeLock(w) == wpc[w] = "idle" /\ lock = Nobody /\ lock' = w

\* The function returns and the lock is released, if the session still has it.
Finish(w) ==
    /\ wpc' = [wpc EXCEPT ![w] = "idle"] /\ cur' = [cur EXCEPT ![w] = Nobody]
    /\ seen' = [seen EXCEPT ![w] = {}]
    /\ lock' = IF lock = w THEN Nobody ELSE lock

\* Tick: Claim takes the oldest request and leaves it in the queue.  A pass over an empty
\* queue does nothing.
Claim(w) ==
    /\ \/ WithPurgeLock(w) \/ (wpc[w] = "claim" /\ UNCHANGED lock)
    /\ queue # <<>>
    /\ cur' = [cur EXCEPT ![w] = Head(queue)] /\ wpc' = [wpc EXCEPT ![w] = "purge"]
    /\ UNCHANGED <<batcherVars, status, queue, table, seen, afterwards>>

\* No request is left.
TickEnds(w) ==
    /\ wpc[w] = "claim" /\ queue = <<>>
    /\ Finish(w)
    /\ UNCHANGED <<batcherVars, status, queue, table, afterwards>>

\* PurgeProject: DELETE in every table, with mutations_sync.
PurgeProject(w) ==
    /\ wpc[w] = "purge"
    /\ table' = table \ RowsOf(cur[w])
    /\ wpc' = [wpc EXCEPT ![w] = "done"]
    /\ UNCHANGED <<batcherVars, status, queue, lock, cur, seen, afterwards>>

\* A request that failed is taken off.
FailGivesUp(w) == Without(cur[w])

\* Fail notes the error; the request stays.
Fail(w) == queue

\* The DELETE fails, in the first table or after some; the pass ends.
PurgeFails(w) ==
    /\ wpc[w] = "purge" /\ Upset
    /\ \E gone \in SUBSET RowsOf(cur[w]) : table' = table \ gone
    /\ queue' = Fail(w)
    /\ Finish(w)
    /\ UNCHANGED <<feed, added, mode, buffer, counters, flushing, written, fates, status, afterwards>>

Done(w) ==
    /\ wpc[w] = "done"
    /\ queue' = Without(cur[w])
    /\ wpc' = [wpc EXCEPT ![w] = "claim"] /\ cur' = [cur EXCEPT ![w] = Nobody]
    /\ UNCHANGED <<batcherVars, status, table, lock, seen, afterwards>>

\* reconcileLocked: first the projects that have rows in ClickHouse ...
Scan(w) ==
    /\ WithPurgeLock(w)
    /\ seen' = [seen EXCEPT ![w] = InTables] /\ wpc' = [wpc EXCEPT ![w] = "live"]
    /\ UNCHANGED <<batcherVars, status, queue, table, cur, afterwards>>

\* Nothing is found.
NoOrphans(w) == {}

\* ... then which of them are live.  The others were deleted, for good.
Orphans(w) == seen[w] \ Live

Reconcile(w) ==
    /\ wpc[w] = "live"
    /\ queue' = Requested(Orphans(w))
    /\ Finish(w)
    /\ UNCHANGED <<batcherVars, status, table, afterwards>>

\* A statement fails, or the process dies.
WorkerFails(w) ==
    /\ wpc[w] # "idle" /\ Upset
    /\ Finish(w)
    /\ UNCHANGED <<feed, added, mode, buffer, counters, flushing, written, fates,
                   status, queue, table, afterwards>>

\* The session breaks and frees the lock; the worker, on other connections, goes on.
LoseSession(w) ==
    /\ lock = w /\ Upset
    /\ lock' = Nobody
    /\ UNCHANGED <<feed, added, mode, buffer, counters, flushing, written, fates,
                   status, queue, table, wpc, cur, seen, afterwards>>

WorkerStep(w) == PurgeProject(w) \/ Done(w) \/ TickEnds(w) \/ Reconcile(w)

Next ==
    \/ Ingest \/ FlushStep \/ ProcessStep
    \/ \E p \in Projects : CreateProject(p) \/ DeleteProject(p)
    \/ \E w \in Workers :
          \/ Claim(w) \/ Scan(w) \/ WorkerStep(w) \/ PurgeFails(w) \/ WorkerFails(w) \/ LoseSession(w)

\* Run waits on two tickers and select takes either when both are due.
Fairness ==
    /\ WF_vars(FlushStep) /\ WF_vars(Drained /\ UNCHANGED purgeVars)
    /\ \A w \in Workers : WF_vars(WorkerStep(w))
    /\ SF_vars(\E w \in Workers : Claim(w)) /\ SF_vars(\E w \in Workers : Scan(w))

Spec == Init /\ [][Next]_vars /\ Fairness

----------------------------------------------------------------------------
(* Properties                                                               *)

\* No request names a live project, also when a project is created while Reconcile
\* compares; a request ends only when the rows written before the deletion are gone,
\* whoever works on it and whatever fails.
PurgeIsExact ==
    /\ ToSet(queue) \cap Live = {} /\ \A w \in Workers : cur[w] \notin Live
    /\ \A p \in Deleted \ ToSet(queue) : table \cap RowsOf(p) \subseteq afterwards

\* Rows of a deleted project that a buffer held back are found and deleted too.
DeletedIsGone == []<>(\A p \in Deleted : p \notin InTables)
=============================================================================
