------------------------------- MODULE Export -------------------------------
(***************************************************************************)
(* internal/export: one export job, its row in export_jobs, its files in   *)
(* GOTCHA_EXPORT_DIR and the processes that work on them: the workers of   *)
(* overlapping processes (worker.go), the janitor (janitor.go) and the     *)
(* author who deletes the job (web/exports.go).  Both file names depend on *)
(* the job only, so the attempts of a job share them.  Jobs share the disk *)
(* budget, which is a choice of the environment here.                      *)
(***************************************************************************)
EXTENDS Integers

CONSTANTS
    Workers,        \* export.Worker of each process
    NoOne,          \* not a worker: the advisory lock is free
    MaxAttempts,    \* maxAttempts
    JobTimeout,     \* Config.JobTimeout
    LeaseTTL,       \* leaseTTL
    TTL,            \* Config.TTL: how long the file of a done job is kept
    RowRetention,   \* Janitor.RowRetention
    StalePartAge,   \* stalePartAge
    MaxFaults       \* bound: crashes, stops, lost sessions and answers, overslept leases

\* JobTimeout < LeaseTTL is Config.Validate, TTL <= RowRetention exportRowRetention of
\* main.go; leaseTTL and stalePartAge are constants of the package.
ASSUME ExportAssumption ==
    /\ NoOne \notin Workers
    /\ MaxAttempts \in Nat \ {0} /\ MaxFaults \in Nat
    /\ JobTimeout \in Nat \ {0} /\ LeaseTTL \in Nat /\ JobTimeout < LeaseTTL
    /\ TTL \in Nat /\ RowRetention \in Nat /\ TTL <= RowRetention
    /\ StalePartAge \in Nat /\ LeaseTTL < StalePartAge

VARIABLES
    (* the row; "gone" when it is deleted *)
    status, attempts,
    leaseAge,   \* now - claimed_at
    doneAge,    \* now - finished_at
    (* the files: the attempt that wrote them, 0 for none *)
    part, partAge, file,
    (* the processes *)
    lock,       \* who holds the advisory lock
    phase, attempt,
    ctxAge,     \* age of jobCtx, which starts a few statements before the claim
    stopping,   \* runCtx is cancelled
    janitor, author,
    (* observations *)
    mails,      \* emails about the outcome
    released,   \* attempts ended by Release
    permanent,  \* the job was refused for good
    overslept,  \* a live worker outlived its lease
    doubtful,   \* the answer to Done was lost
    faults

row == <<status, attempts, leaseAge, doneAge>>
files == <<part, partAge, file>>
worker == <<lock, phase, attempt, ctxAge, stopping>>
observed == <<mails, released, permanent, overslept, doubtful, faults>>
vars == <<row, files, worker, janitor, author, observed>>

AttemptNumbers == 0 .. MaxAttempts + MaxFaults
Terminal == {"done", "failed", "expired"}
Phases == {"idle", "sweep", "mailSwept", "claim", "building", "written", "renamed", "fail",
           "failPermanent", "release", "mailDone", "mailFailed", "unlock"}

\* The row, the files and the processes have their types; attempts never
\* outgrow the limit by more than the attempts that were given back.
TypeOK ==
    /\ status \in {"queued", "running", "gone"} \cup Terminal
    /\ attempts \in AttemptNumbers
    /\ leaseAge \in 0 .. LeaseTTL + 1 /\ doneAge \in 0 .. RowRetention + 1
    /\ part \in AttemptNumbers /\ file \in AttemptNumbers /\ partAge \in 0 .. StalePartAge
    /\ lock \in Workers \cup {NoOne}
    /\ phase \in [Workers -> Phases] /\ attempt \in [Workers -> AttemptNumbers]
    /\ ctxAge \in [Workers -> 0 .. JobTimeout] /\ stopping \in [Workers -> BOOLEAN]
    /\ janitor \in {"idle", "mark", "purge", "orphans"}
    /\ author \in {"idle", "remove", "delete"}
    /\ mails \in Nat /\ released \in Nat /\ permanent \in BOOLEAN
    /\ overslept \in BOOLEAN /\ doubtful \in BOOLEAN /\ faults \in 0 .. MaxFaults
    /\ attempts <= MaxAttempts + released

Init ==
    /\ status = "queued" /\ attempts = 0 /\ leaseAge = 0 /\ doneAge = 0
    /\ part = 0 /\ partAge = 0 /\ file = 0
    /\ lock = NoOne /\ phase = [w \in Workers |-> "idle"]
    /\ attempt = [w \in Workers |-> 0]
    /\ ctxAge = [w \in Workers |-> 0] /\ stopping = [w \in Workers |-> FALSE]
    /\ janitor = "idle" /\ author = "idle"
    /\ mails = 0 /\ released = 0 /\ permanent = FALSE
    /\ overslept = FALSE /\ doubtful = FALSE /\ faults = 0

Fault == faults < MaxFaults /\ faults' = faults + 1
Goto(w, p) == phase' = [phase EXCEPT ![w] = p]

TimedOut(w) == ctxAge[w] = JobTimeout
Expired == leaseAge > LeaseTTL

-----------------------------------------------------------------------------
(* The worker's pass (Worker.Tick): the lock, SweepStale and Claim. *)

TickStart(w) ==
    /\ phase[w] = "idle" /\ lock = NoOne
    /\ lock' = w /\ Goto(w, "sweep")
    /\ UNCHANGED <<row, files, attempt, ctxAge, stopping, janitor, author, observed>>

Dead(w) == TimedOut(w) \/ stopping[w]

SweepStale(w) ==
    /\ phase[w] = "sweep"
    /\ IF ~Dead(w) /\ status = "running" /\ Expired /\ attempts >= MaxAttempts
       THEN status' = "failed" /\ doneAge' = 0 /\ Goto(w, "mailSwept")
       ELSE Goto(w, "claim") /\ UNCHANGED <<status, doneAge>>
    /\ UNCHANGED <<attempts, leaseAge, files, lock, attempt, ctxAge, stopping,
                   janitor, author, observed>>

\* A running job is taken over whatever the age of its lease.
ClaimableAlways == status = "queued" \/ (status = "running" /\ attempts < MaxAttempts)

\* A running job that used up its attempts is given out once more.
ClaimableTooOften == status = "queued" \/ (status = "running" /\ Expired)

\* A running job is never taken over.
ClaimableQueued == status = "queued"

Claimable == status = "queued" \/ (status = "running" /\ Expired /\ attempts < MaxAttempts)

Claim(w) ==
    /\ phase[w] = "claim"
    /\ IF ~Dead(w) /\ Claimable
       THEN /\ status' = "running" /\ attempts' = attempts + 1 /\ leaseAge' = 0
            /\ attempt' = [attempt EXCEPT ![w] = attempts + 1]
            /\ ctxAge' = [ctxAge EXCEPT ![w] = 0]
            /\ Goto(w, "building")
       ELSE Goto(w, "unlock") /\ UNCHANGED <<status, attempts, leaseAge, attempt, ctxAge>>
    /\ UNCHANGED <<doneAge, files, lock, stopping, janitor, author, observed>>

\* The session's lock goes with Unlock; a stopped process is then replaced.
Unlock(w) ==
    /\ phase[w] = "unlock"
    /\ lock' = IF lock = w THEN NoOne ELSE lock
    /\ Goto(w, "idle") /\ stopping' = [stopping EXCEPT ![w] = FALSE]
    /\ attempt' = [attempt EXCEPT ![w] = 0]
    /\ UNCHANGED <<row, files, ctxAge, janitor, author, observed>>

-----------------------------------------------------------------------------
(* The build (Worker.process). *)

\* No room on the disk: nothing was opened yet.
NoSpace(w) ==
    /\ phase[w] = "building" /\ part # attempt[w]
    /\ Goto(w, "fail")
    /\ UNCHANGED <<row, files, lock, attempt, ctxAge, stopping, janitor, author, observed>>

\* Records go to the part file, the first one opens it with O_TRUNC.
WriteFile(w) ==
    /\ phase[w] = "building" /\ ~Dead(w)
    /\ part' = attempt[w] /\ partAge' = 0
    /\ \/ Goto(w, "written")
       \/ part # attempt[w] /\ UNCHANGED phase
    /\ UNCHANGED <<row, file, lock, attempt, ctxAge, stopping, janitor, author, observed>>

\* After an error the part file is removed; the order of the cases is the
\* code's: refused for good, stopped, failed.
WriteFails(w) ==
    /\ phase[w] = "building"
    /\ part' = 0 /\ partAge' = 0
    /\ \/ Goto(w, "failPermanent")
       \/ stopping[w] /\ Goto(w, "release")
       \/ ~stopping[w] /\ Goto(w, "fail")
    /\ UNCHANGED <<row, file, lock, attempt, ctxAge, stopping, janitor, author, observed>>

\* A rename that fails, for want of the part file too, removes what is left.
Rename(w) ==
    /\ phase[w] = "written"
    /\ part' = 0 /\ partAge' = 0
    /\ \/ part # 0 /\ file' = part /\ Goto(w, "renamed")
       \/ Goto(w, "fail") /\ UNCHANGED file
    /\ UNCHANGED <<row, lock, attempt, ctxAge, stopping, janitor, author, observed>>

\* The attempt is not compared.
OwnsAnyAttempt(w) == status = "running"

\* The status is not compared.
OwnsByAttempt(w) == attempts = attempt[w] /\ attempts > 0

\* The row still belongs to the attempt: status = 'running' AND attempts = $n.
Owns(w) == status = "running" /\ attempts = attempt[w]

DoneCtxAlive(w) == stopping[w] \/ ~TimedOut(w)

\* Done writes with jobCtx, or detached from it when the process stops; after
\* any error, a stale claim included, the file is removed.
Done(w) ==
    /\ phase[w] = "renamed"
    /\ IF Owns(w) /\ DoneCtxAlive(w)
       THEN /\ status' = "done" /\ doneAge' = 0
            /\ Goto(w, "mailDone") /\ UNCHANGED file
       ELSE file' = 0 /\ Goto(w, "unlock") /\ UNCHANGED <<status, doneAge>>
    /\ UNCHANGED <<attempts, leaseAge, part, partAge, lock, attempt, ctxAge, stopping,
                   janitor, author, observed>>

\* Done is applied and its answer is lost.
DoneUnanswered(w) ==
    /\ phase[w] = "renamed" /\ Fault
    /\ Owns(w) /\ DoneCtxAlive(w)
    /\ status' = "done" /\ doneAge' = 0 /\ file' = 0 /\ doubtful' = TRUE
    /\ Goto(w, "unlock")
    /\ UNCHANGED <<attempts, leaseAge, part, partAge, lock, attempt, ctxAge, stopping,
                   janitor, author, mails, released, permanent, overslept>>

\* Store.Fail: back to the queue, or failed when the attempts are used up.
Fail(w) ==
    /\ phase[w] = "fail"
    /\ IF Owns(w)
       THEN IF attempts >= MaxAttempts
            THEN status' = "failed" /\ doneAge' = 0 /\ Goto(w, "mailFailed")
            ELSE status' = "queued" /\ Goto(w, "unlock") /\ UNCHANGED doneAge
       ELSE Goto(w, "unlock") /\ UNCHANGED <<status, doneAge>>
    /\ UNCHANGED <<attempts, leaseAge, files, lock, attempt, ctxAge, stopping,
                   janitor, author, observed>>

FailPermanent(w) ==
    /\ phase[w] = "failPermanent"
    /\ IF Owns(w)
       THEN status' = "failed" /\ doneAge' = 0 /\ permanent' = TRUE /\ Goto(w, "mailFailed")
       ELSE Goto(w, "unlock") /\ UNCHANGED <<status, doneAge, permanent>>
    /\ UNCHANGED <<attempts, leaseAge, files, lock, attempt, ctxAge, stopping, janitor, author,
                   mails, released, overslept, doubtful, faults>>

\* Store.Release leaves attempts as Claim left it.
Release(w) ==
    /\ phase[w] = "release"
    /\ IF Owns(w) THEN status' = "queued" /\ released' = released + 1
                  ELSE UNCHANGED <<status, released>>
    /\ Goto(w, "unlock")
    /\ UNCHANGED <<attempts, leaseAge, doneAge, files, lock, attempt, ctxAge, stopping,
                   janitor, author, mails, permanent, overslept, doubtful, faults>>

\* Fail, FailPermanent, Release or Done is not applied and returns an error.
StatementFails(w) ==
    /\ phase[w] \in {"fail", "failPermanent", "release", "renamed"} /\ Fault
    /\ file' = IF phase[w] = "renamed" THEN 0 ELSE file
    /\ Goto(w, "unlock")
    /\ UNCHANGED <<row, part, partAge, lock, attempt, ctxAge, stopping, janitor, author,
                   mails, released, permanent, overslept, doubtful>>

\* The email may fail (no address, no mail server, a dead context): it is not
\* tried again.
Notify(w) ==
    /\ phase[w] \in {"mailSwept", "mailDone", "mailFailed"}
    /\ mails' \in {mails, mails + 1}
    /\ Goto(w, IF phase[w] = "mailSwept" THEN "claim" ELSE "unlock")
    /\ UNCHANGED <<row, files, lock, attempt, ctxAge, stopping, janitor, author,
                   released, permanent, overslept, doubtful, faults>>

-----------------------------------------------------------------------------
(* What happens to a process. *)

Stop(w) ==
    /\ phase[w] # "idle" /\ ~stopping[w] /\ Fault
    /\ stopping' = [stopping EXCEPT ![w] = TRUE]
    /\ UNCHANGED <<row, files, lock, phase, attempt, ctxAge, janitor, author,
                   mails, released, permanent, overslept, doubtful>>

Crash(w) ==
    /\ phase[w] # "idle" /\ Fault
    /\ Goto(w, "idle") /\ lock' = IF lock = w THEN NoOne ELSE lock
    /\ stopping' = [stopping EXCEPT ![w] = FALSE]
    /\ attempt' = [attempt EXCEPT ![w] = 0]
    /\ UNCHANGED <<row, files, ctxAge, janitor, author,
                   mails, released, permanent, overslept, doubtful>>

\* The session that holds the advisory lock breaks; the build goes on.
LoseSession(w) ==
    /\ lock = w /\ phase[w] # "unlock" /\ Fault
    /\ lock' = NoOne
    /\ UNCHANGED <<row, files, phase, attempt, ctxAge, stopping, janitor, author,
                   mails, released, permanent, overslept, doubtful>>

\* A worker still has a step of its attempt to take.
AtWork(w) == phase[w] \in {"building", "written", "renamed", "fail", "failPermanent", "release"}

Older(age, most) == IF age < most THEN age + 1 ELSE age

\* A build is cancelled before its lease is up, so an attempt outlives its
\* lease only by a fault.
Tick ==
    LET late == leaseAge = LeaseTTL /\ \E w \in Workers : AtWork(w) /\ Owns(w)
    IN  /\ leaseAge' = IF status = "running" THEN Older(leaseAge, LeaseTTL + 1) ELSE 0
        /\ doneAge' = IF status \in Terminal THEN Older(doneAge, RowRetention + 1) ELSE 0
        /\ partAge' = IF part # 0 THEN Older(partAge, StalePartAge) ELSE 0
        /\ ctxAge' = [w \in Workers |-> IF AtWork(w) THEN Older(ctxAge[w], JobTimeout) ELSE 0]
        /\ IF late THEN Fault ELSE UNCHANGED faults
        /\ overslept' = (overslept \/ late)
        /\ UNCHANGED <<status, attempts, part, file, lock, phase, attempt, stopping,
                       janitor, author, mails, released, permanent, doubtful>>

-----------------------------------------------------------------------------
(* The janitor's pass, the author and the project's deletion. *)

Gone == status' = "gone" /\ attempts' = 0 /\ leaseAge' = 0 /\ doneAge' = 0

\* DueForExpiry, and the file is removed before the row is marked.
ExpireDue ==
    /\ janitor = "idle"
    /\ IF status = "done" /\ doneAge > TTL
       THEN file' = 0 /\ janitor' = "mark"
       ELSE janitor' = "purge" /\ UNCHANGED file
    /\ UNCHANGED <<row, part, partAge, worker, author, observed>>

MarkExpired ==
    /\ janitor = "mark"
    /\ status' = IF status = "done" THEN "expired" ELSE status
    /\ janitor' = "purge"
    /\ UNCHANGED <<attempts, leaseAge, doneAge, files, worker, author, observed>>

PurgeRows ==
    /\ janitor = "purge"
    /\ IF status \in Terminal /\ doneAge > RowRetention THEN Gone ELSE UNCHANGED row
    /\ janitor' = "orphans"
    /\ UNCHANGED <<files, worker, author, observed>>

\* The final file of a deleted job is never looked for.
OrphanedNever == FALSE

\* The final file goes when its row is gone.
Orphaned == status = "gone"

RemoveOrphans ==
    /\ janitor = "orphans"
    /\ IF partAge = StalePartAge THEN part' = 0 /\ partAge' = 0 ELSE UNCHANGED <<part, partAge>>
    /\ file' = IF Orphaned THEN 0 ELSE file
    /\ janitor' = "idle"
    /\ UNCHANGED <<row, worker, author, observed>>

\* exportsDelete reads the row, then removes the file, then the row.
AskDelete ==
    /\ author = "idle" /\ status \in Terminal
    /\ author' = "remove"
    /\ UNCHANGED <<row, files, worker, janitor, observed>>

RemoveFile ==
    /\ author = "remove"
    /\ file' = 0 /\ author' = "delete"
    /\ UNCHANGED <<row, part, partAge, worker, janitor, observed>>

Delete ==
    /\ author = "delete"
    /\ IF status \in Terminal THEN Gone ELSE UNCHANGED row
    /\ author' = "idle"
    /\ UNCHANGED <<files, worker, janitor, observed>>

\* The cascade of the project's deletion, at any time.
DeleteProject ==
    /\ status # "gone" /\ Gone
    /\ UNCHANGED <<files, worker, janitor, author, observed>>

WorkerStep(w) ==
    \/ TickStart(w) \/ SweepStale(w) \/ Claim(w) \/ Unlock(w)
    \/ NoSpace(w) \/ WriteFile(w) \/ WriteFails(w) \/ Rename(w) \/ Done(w)
    \/ Fail(w) \/ FailPermanent(w) \/ Release(w) \/ Notify(w)

JanitorStep == ExpireDue \/ MarkExpired \/ PurgeRows \/ RemoveOrphans

Next ==
    \/ \E w \in Workers :
        \/ WorkerStep(w) \/ DoneUnanswered(w) \/ StatementFails(w)
        \/ Stop(w) \/ Crash(w) \/ LoseSession(w)
    \/ JanitorStep
    \/ AskDelete \/ RemoveFile \/ Delete \/ DeleteProject
    \/ Tick

\* Worker.Run and Janitor.Run are tickers; a process that dies is replaced.
Fairness ==
    /\ \A w \in Workers : WF_vars(WorkerStep(w))
    /\ WF_vars(JanitorStep)
    /\ WF_vars(RemoveFile) /\ WF_vars(Delete)
    /\ WF_vars(Tick)

Spec == Init /\ [][Next]_vars /\ Fairness

-----------------------------------------------------------------------------
(* Properties. *)

\* A job that says "done" has the file of the attempt that finished it, until
\* it expires or is being deleted: the lease, the timeout of the build and the
\* fence on attempts keep the attempts of a job apart although they share
\* their file names.  Two cases are excused: a build that outlives its lease,
\* and an answer to Done that is lost.
DoneHasFile ==
    status = "done" =>
        file = attempts \/ doneAge > TTL \/ author = "delete" \/ overslept \/ doubtful

\* The author gets at most one email about the outcome of a job, whatever
\* workers, sweeps and restarts do.
OneMail == mails <= 1

\* The verdict of a job is final: no late attempt takes it back, an expired job
\* is never done again, and finished_at, from which the retention of the row
\* and the file counts, does not move.
VerdictIsFinal ==
    [][(status \in Terminal) =>
        \/ status' = "gone"
        \/ /\ status' = status \/ (status = "done" /\ status' = "expired")
           /\ doneAge' >= doneAge]_vars

\* A job does not stay queued or running for good.
JobEnds == []<>(status \notin {"queued", "running"})

\* Export files hold personal data: neither the finished nor the partial file
\* stays on the disk for good, even when the process died next to it.
FilesGo == []<>(file = 0) /\ []<>(part = 0)

\* A stopped build does not cost an attempt: a job that is not refused for
\* good fails only after MaxAttempts attempts that were not given back.
RestartIsFree == status = "failed" /\ ~permanent => attempts - released >= MaxAttempts
=============================================================================
