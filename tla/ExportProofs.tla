---------------------------- MODULE ExportProofs ----------------------------
(***************************************************************************)
(* Proofs about Export for any set of workers, any limits and timeouts     *)
(* that Config.Validate admits, and any number of faults.                  *)
(***************************************************************************)
EXTENDS Export, FiniteSetTheorems, TLAPS

\* Workers whose stop may still give an attempt back.
Spendable == {w \in Workers : stopping[w] /\ phase[w] # "unlock"}

\* Each attempt given back is paid for by the stop of a process.
Budget ==
    /\ IsFiniteSet(Spendable)
    /\ Cardinality(Spendable) + released <= faults
    /\ \A w \in Workers : phase[w] = "release" => stopping[w]

\* A queued job has an attempt left.
QueuedHasAttempt == status = "queued" => attempts < MaxAttempts + released

TypeInv == TypeOK /\ Budget /\ QueuedHasAttempt

Mailing(w) == phase[w] \in {"mailSwept", "mailDone", "mailFailed"}

\* The right to send the email comes with the verdict, is held by one worker,
\* and is used up by the email.
MailInv ==
    /\ mails <= 1
    /\ status \in {"queued", "running"} => mails = 0 /\ \A w \in Workers : ~Mailing(w)
    /\ \A w \in Workers : Mailing(w) => mails = 0
    /\ \A w, v \in Workers : Mailing(w) /\ Mailing(v) => w = v

\* The attempts of a job do not overlap unless a lease was outlived.
Apart ==
    ~overslept /\ status # "gone" =>
        /\ \A w \in Workers : AtWork(w) => Owns(w)
        /\ \A w, v \in Workers : AtWork(w) /\ AtWork(v) => w = v
        /\ Expired => \A w \in Workers : ~AtWork(w)

\* So what a worker finds under the shared names is its own work.
OwnFiles ==
    ~overslept /\ status # "gone" =>
        \A w \in Workers :
            /\ phase[w] = "written" => part \in {0, attempt[w]}
            /\ phase[w] = "renamed" => file = attempt[w]

\* The author deletes what has a verdict.
AuthorInv == author # "idle" => status \in Terminal \cup {"gone"}

FileInv == Apart /\ OwnFiles /\ AuthorInv /\ DoneHasFile

-----------------------------------------------------------------------------
(* The row, the files and the processes keep their types; attempts are      *)
(* counted against the limit and the stops.                                 *)

\* Nothing but Stop makes a worker spendable.
LEMMA SpendableShrinks ==
    ASSUME Budget, faults \in Nat, faults' \in Nat, faults <= faults', released \in Nat,
           released' = released,
           \A w \in Workers : stopping'[w] /\ phase'[w] # "unlock" => stopping[w] /\ phase[w] # "unlock",
           \A w \in Workers : phase'[w] = "release" => stopping'[w]
    PROVE  Budget'
<1>1. Spendable' \in SUBSET Spendable
    BY DEF Spendable
<1>2. IsFiniteSet(Spendable') /\ Cardinality(Spendable') <= Cardinality(Spendable)
    BY <1>1, FS_Subset DEF Budget
<1>3. Cardinality(Spendable) \in Nat /\ Cardinality(Spendable') \in Nat
    BY <1>2, FS_CardinalityType DEF Budget
<1> QED BY <1>2, <1>3 DEF Budget

\* Release spends the stop of its worker.
LEMMA ReleaseSpends ==
    ASSUME TypeInv, NEW w \in Workers, Release(w)
    PROVE  Budget'
<1>1. Spendable' = Spendable \ {w}
    BY DEF TypeInv, TypeOK, Release, Goto, Spendable
<1>2. w \in Spendable
    BY DEF TypeInv, TypeOK, Budget, Release, Spendable
<1>3. /\ IsFiniteSet(Spendable \ {w})
      /\ Cardinality(Spendable \ {w}) = Cardinality(Spendable) - 1
    BY <1>2, FS_RemoveElement DEF TypeInv, Budget
<1>4. Cardinality(Spendable) \in Nat
    BY FS_CardinalityType DEF TypeInv, Budget
<1>5. Cardinality(Spendable') + released' <= faults'
    BY <1>1, <1>3, <1>4 DEF TypeInv, TypeOK, Budget, Release
<1>6. \A v \in Workers : phase'[v] = "release" => stopping'[v]
    BY DEF TypeInv, TypeOK, Budget, Release, Goto
<1> QED BY <1>1, <1>3, <1>5, <1>6 DEF Budget

\* Stop is a fault, which pays for one release.
LEMMA StopPays ==
    ASSUME TypeInv, NEW w \in Workers, Stop(w)
    PROVE  Budget'
<1>1. Spendable' \in SUBSET (Spendable \cup {w})
    BY DEF TypeInv, TypeOK, Stop, Spendable
<1>2. /\ IsFiniteSet(Spendable \cup {w})
      /\ Cardinality(Spendable \cup {w}) <= Cardinality(Spendable) + 1
      /\ Cardinality(Spendable) \in Nat
    <2>1. IsFiniteSet(Spendable)
        BY DEF TypeInv, Budget
    <2>2. Cardinality(Spendable) \in Nat
        BY <2>1, FS_CardinalityType
    <2>3. /\ IsFiniteSet(Spendable \cup {w})
          /\ Cardinality(Spendable \cup {w}) =
                IF w \in Spendable THEN Cardinality(Spendable) ELSE Cardinality(Spendable) + 1
        BY <2>1, FS_AddElement
    <2> QED BY <2>2, <2>3
<1>3. IsFiniteSet(Spendable') /\ Cardinality(Spendable') <= Cardinality(Spendable \cup {w})
    BY <1>1, <1>2, FS_Subset
<1>4. Cardinality(Spendable') \in Nat /\ Cardinality(Spendable \cup {w}) \in Nat
    BY <1>2, <1>3, FS_CardinalityType
<1>5. Cardinality(Spendable') + released' <= faults'
    BY <1>2, <1>3, <1>4 DEF TypeInv, TypeOK, Budget, Stop, Fault
<1>6. \A v \in Workers : phase'[v] = "release" => stopping'[v]
    BY DEF TypeInv, TypeOK, Budget, Stop
<1> QED BY <1>3, <1>5, <1>6 DEF Budget

\* Attempts stay within their numbers because the stops do.
LEMMA AttemptsInRange ==
    ASSUME TypeInv
    PROVE  /\ released <= MaxFaults
           /\ status = "queued" => attempts + 1 \in AttemptNumbers
           /\ attempts < MaxAttempts => attempts + 1 \in AttemptNumbers
<1>1. Cardinality(Spendable) \in Nat
    BY FS_CardinalityType DEF TypeInv, Budget
<1>2. released <= MaxFaults
    BY <1>1, ExportAssumption DEF TypeInv, TypeOK, Budget
<1> QED BY <1>2, ExportAssumption DEF TypeInv, TypeOK, QueuedHasAttempt, AttemptNumbers

\* A step of a worker, or what happens to its process, keeps the types.
LEMMA WorkerKeepsTypes ==
    ASSUME TypeInv, NEW w \in Workers,
           \/ WorkerStep(w) \/ DoneUnanswered(w) \/ StatementFails(w)
           \/ Stop(w) \/ Crash(w) \/ LoseSession(w)
    PROVE  TypeInv'
<1> USE ExportAssumption DEF row, files, worker, observed
<1>1. CASE TickStart(w)
    <2>1. TypeOK' /\ QueuedHasAttempt'
        BY <1>1, SMTT(30) DEF TypeInv, TypeOK, Phases, Terminal, QueuedHasAttempt, AttemptNumbers, TickStart, Goto
    <2>2. Budget'
        BY <1>1, SpendableShrinks DEF TypeInv, TypeOK, Phases, Terminal, Budget, TickStart, Goto
    <2> QED BY <2>1, <2>2 DEF TypeInv
<1>2. CASE SweepStale(w)
    <2>1. TypeOK' /\ QueuedHasAttempt'
        BY <1>2, SMTT(30) DEF TypeInv, TypeOK, Phases, Terminal, QueuedHasAttempt, AttemptNumbers, SweepStale, Dead, TimedOut, Expired, Goto
    <2>2. Budget'
        BY <1>2, SpendableShrinks DEF TypeInv, TypeOK, Phases, Terminal, Budget, SweepStale, Dead, TimedOut, Expired, Goto
    <2> QED BY <2>1, <2>2 DEF TypeInv
<1>3. CASE Claim(w)
    <2>1. TypeOK' /\ QueuedHasAttempt'
        BY <1>3, AttemptsInRange, SMTT(30) DEF TypeInv, TypeOK, Phases, Terminal, QueuedHasAttempt, AttemptNumbers, Claim, Dead, TimedOut, Claimable, Expired, Goto
    <2>2. Budget'
        BY <1>3, SpendableShrinks DEF TypeInv, TypeOK, Phases, Terminal, Budget, Claim, Dead, TimedOut, Claimable, Expired, Goto
    <2> QED BY <2>1, <2>2 DEF TypeInv
<1>4. CASE Unlock(w)
    <2>1. TypeOK' /\ QueuedHasAttempt'
        BY <1>4, SMTT(30) DEF TypeInv, TypeOK, Phases, Terminal, QueuedHasAttempt, AttemptNumbers, Unlock, Goto
    <2>2. Budget'
        BY <1>4, SpendableShrinks DEF TypeInv, TypeOK, Phases, Terminal, Budget, Unlock, Goto
    <2> QED BY <2>1, <2>2 DEF TypeInv
<1>5. CASE NoSpace(w)
    <2>1. TypeOK' /\ QueuedHasAttempt'
        BY <1>5, SMTT(30) DEF TypeInv, TypeOK, Phases, Terminal, QueuedHasAttempt, AttemptNumbers, NoSpace, Goto
    <2>2. Budget'
        BY <1>5, SpendableShrinks DEF TypeInv, TypeOK, Phases, Terminal, Budget, NoSpace, Goto
    <2> QED BY <2>1, <2>2 DEF TypeInv
<1>6. CASE WriteFile(w)
    <2>1. TypeOK' /\ QueuedHasAttempt'
        BY <1>6, SMTT(30) DEF TypeInv, TypeOK, Phases, Terminal, QueuedHasAttempt, AttemptNumbers, WriteFile, Dead, TimedOut, Goto
    <2>2. Budget'
        BY <1>6, SpendableShrinks DEF TypeInv, TypeOK, Phases, Terminal, Budget, WriteFile, Dead, TimedOut, Goto
    <2> QED BY <2>1, <2>2 DEF TypeInv
<1>7. CASE WriteFails(w)
    <2>1. TypeOK' /\ QueuedHasAttempt'
        BY <1>7, SMTT(30) DEF TypeInv, TypeOK, Phases, Terminal, QueuedHasAttempt, AttemptNumbers, WriteFails, Goto
    <2>2. Budget'
        BY <1>7, SpendableShrinks DEF TypeInv, TypeOK, Phases, Terminal, Budget, WriteFails, Goto
    <2> QED BY <2>1, <2>2 DEF TypeInv
<1>8. CASE Rename(w)
    <2>1. TypeOK' /\ QueuedHasAttempt'
        BY <1>8, SMTT(30) DEF TypeInv, TypeOK, Phases, Terminal, QueuedHasAttempt, AttemptNumbers, Rename, Goto
    <2>2. Budget'
        BY <1>8, SpendableShrinks DEF TypeInv, TypeOK, Phases, Terminal, Budget, Rename, Goto
    <2> QED BY <2>1, <2>2 DEF TypeInv
<1>9. CASE Done(w)
    <2>1. TypeOK' /\ QueuedHasAttempt'
        BY <1>9, SMTT(30) DEF TypeInv, TypeOK, Phases, Terminal, QueuedHasAttempt, AttemptNumbers, Done, Owns, DoneCtxAlive, TimedOut, Goto
    <2>2. Budget'
        BY <1>9, SpendableShrinks DEF TypeInv, TypeOK, Phases, Terminal, Budget, Done, Owns, DoneCtxAlive, TimedOut, Goto
    <2> QED BY <2>1, <2>2 DEF TypeInv
<1>10. CASE Fail(w)
    <2>1. TypeOK' /\ QueuedHasAttempt'
        BY <1>10, SMTT(30) DEF TypeInv, TypeOK, Phases, Terminal, QueuedHasAttempt, AttemptNumbers, Fail, Owns, Goto
    <2>2. Budget'
        BY <1>10, SpendableShrinks DEF TypeInv, TypeOK, Phases, Terminal, Budget, Fail, Owns, Goto
    <2> QED BY <2>1, <2>2 DEF TypeInv
<1>11. CASE FailPermanent(w)
    <2>1. TypeOK' /\ QueuedHasAttempt'
        <3>1. permanent' \in BOOLEAN
            BY <1>11 DEF TypeInv, TypeOK, FailPermanent
        <3>2. phase' \in [Workers -> Phases]
            BY <1>11 DEF TypeInv, TypeOK, Phases, FailPermanent, Goto
        <3>3. /\ status' \in {"queued", "running", "gone"} \cup Terminal
              /\ doneAge' \in 0 .. RowRetention + 1
              /\ status' = "queued" => status = "queued"
            BY <1>11 DEF TypeInv, TypeOK, Terminal, FailPermanent
        <3> QED BY <1>11, <3>1, <3>2, <3>3 DEF TypeInv, TypeOK, QueuedHasAttempt, FailPermanent
    <2>2. Budget'
        BY <1>11, SpendableShrinks DEF TypeInv, TypeOK, Phases, Terminal, Budget, FailPermanent, Owns, Goto
    <2> QED BY <2>1, <2>2 DEF TypeInv
<1>12. CASE Release(w)
    <2>1. TypeOK' /\ QueuedHasAttempt'
        BY <1>12, SMTT(30) DEF TypeInv, TypeOK, Phases, Terminal, QueuedHasAttempt, AttemptNumbers, Release, Owns, Goto
    <2>2. Budget'
        BY <1>12, ReleaseSpends
    <2> QED BY <2>1, <2>2 DEF TypeInv
<1>13. CASE Notify(w)
    <2>1. TypeOK' /\ QueuedHasAttempt'
        BY <1>13, SMTT(30) DEF TypeInv, TypeOK, Phases, Terminal, QueuedHasAttempt, AttemptNumbers, Notify, Goto
    <2>2. Budget'
        BY <1>13, SpendableShrinks DEF TypeInv, TypeOK, Phases, Terminal, Budget, Notify, Goto
    <2> QED BY <2>1, <2>2 DEF TypeInv
<1>14. CASE DoneUnanswered(w)
    <2>1. TypeOK' /\ QueuedHasAttempt'
        BY <1>14, SMTT(30) DEF TypeInv, TypeOK, Phases, Terminal, QueuedHasAttempt, AttemptNumbers, DoneUnanswered, Owns, DoneCtxAlive, TimedOut, Fault, Goto
    <2>2. Budget'
        BY <1>14, SpendableShrinks DEF TypeInv, TypeOK, Phases, Terminal, Budget, DoneUnanswered, Owns, DoneCtxAlive, TimedOut, Fault, Goto
    <2> QED BY <2>1, <2>2 DEF TypeInv
<1>15. CASE StatementFails(w)
    <2>1. TypeOK' /\ QueuedHasAttempt'
        BY <1>15, SMTT(30) DEF TypeInv, TypeOK, Phases, Terminal, QueuedHasAttempt, AttemptNumbers, StatementFails, Fault, Goto
    <2>2. Budget'
        BY <1>15, SpendableShrinks DEF TypeInv, TypeOK, Phases, Terminal, Budget, StatementFails, Fault, Goto
    <2> QED BY <2>1, <2>2 DEF TypeInv
<1>16. CASE Stop(w)
    <2>1. TypeOK' /\ QueuedHasAttempt'
        BY <1>16, SMTT(30) DEF TypeInv, TypeOK, Phases, Terminal, QueuedHasAttempt, AttemptNumbers, Stop, Fault
    <2>2. Budget'
        BY <1>16, StopPays
    <2> QED BY <2>1, <2>2 DEF TypeInv
<1>17. CASE Crash(w)
    <2>1. TypeOK' /\ QueuedHasAttempt'
        BY <1>17, SMTT(30) DEF TypeInv, TypeOK, Phases, Terminal, QueuedHasAttempt, AttemptNumbers, Crash, Fault, Goto
    <2>2. Budget'
        BY <1>17, SpendableShrinks DEF TypeInv, TypeOK, Phases, Terminal, Budget, Crash, Fault, Goto
    <2> QED BY <2>1, <2>2 DEF TypeInv
<1>18. CASE LoseSession(w)
    <2>1. TypeOK' /\ QueuedHasAttempt'
        BY <1>18, SMTT(30) DEF TypeInv, TypeOK, Phases, Terminal, QueuedHasAttempt, AttemptNumbers, LoseSession, Fault
    <2>2. Budget'
        BY <1>18, SpendableShrinks DEF TypeInv, TypeOK, Phases, Terminal, Budget, LoseSession, Fault
    <2> QED BY <2>1, <2>2 DEF TypeInv
<1> QED BY <1>1, <1>2, <1>3, <1>4, <1>5, <1>6, <1>7, <1>8, <1>9, <1>10, <1>11, <1>12, <1>13, <1>14, <1>15, <1>16, <1>17, <1>18 DEF WorkerStep

\* So do time, the janitor, the author and the deletion of the project.
LEMMA OthersKeepTypes ==
    ASSUME TypeInv, JanitorStep \/ AskDelete \/ RemoveFile \/ Delete \/ DeleteProject \/ Tick
    PROVE  TypeInv'
<1> USE ExportAssumption DEF row, files, worker, observed
<1>1. CASE ExpireDue
    <2>1. TypeOK' /\ QueuedHasAttempt'
        BY <1>1, SMTT(30) DEF TypeInv, TypeOK, Phases, Terminal, QueuedHasAttempt, AttemptNumbers, ExpireDue
    <2>2. Budget'
        BY <1>1, SpendableShrinks DEF TypeInv, TypeOK, Phases, Terminal, Budget, ExpireDue
    <2> QED BY <2>1, <2>2 DEF TypeInv
<1>2. CASE MarkExpired
    <2>1. TypeOK' /\ QueuedHasAttempt'
        BY <1>2, SMTT(30) DEF TypeInv, TypeOK, Phases, Terminal, QueuedHasAttempt, AttemptNumbers, MarkExpired
    <2>2. Budget'
        BY <1>2, SpendableShrinks DEF TypeInv, TypeOK, Phases, Terminal, Budget, MarkExpired
    <2> QED BY <2>1, <2>2 DEF TypeInv
<1>3. CASE PurgeRows
    <2>1. TypeOK' /\ QueuedHasAttempt'
        BY <1>3, SMTT(30) DEF TypeInv, TypeOK, Phases, Terminal, QueuedHasAttempt, AttemptNumbers, PurgeRows, Gone
    <2>2. Budget'
        BY <1>3, SpendableShrinks DEF TypeInv, TypeOK, Phases, Terminal, Budget, PurgeRows, Gone
    <2> QED BY <2>1, <2>2 DEF TypeInv
<1>4. CASE RemoveOrphans
    <2>1. TypeOK' /\ QueuedHasAttempt'
        BY <1>4, SMTT(30) DEF TypeInv, TypeOK, Phases, Terminal, QueuedHasAttempt, AttemptNumbers, RemoveOrphans, Orphaned
    <2>2. Budget'
        BY <1>4, SpendableShrinks DEF TypeInv, TypeOK, Phases, Terminal, Budget, RemoveOrphans, Orphaned
    <2> QED BY <2>1, <2>2 DEF TypeInv
<1>5. CASE AskDelete
    <2>1. TypeOK' /\ QueuedHasAttempt'
        BY <1>5, SMTT(30) DEF TypeInv, TypeOK, Phases, Terminal, QueuedHasAttempt, AttemptNumbers, AskDelete
    <2>2. Budget'
        BY <1>5, SpendableShrinks DEF TypeInv, TypeOK, Phases, Terminal, Budget, AskDelete
    <2> QED BY <2>1, <2>2 DEF TypeInv
<1>6. CASE RemoveFile
    <2>1. TypeOK' /\ QueuedHasAttempt'
        BY <1>6, SMTT(30) DEF TypeInv, TypeOK, Phases, Terminal, QueuedHasAttempt, AttemptNumbers, RemoveFile
    <2>2. Budget'
        BY <1>6, SpendableShrinks DEF TypeInv, TypeOK, Phases, Terminal, Budget, RemoveFile
    <2> QED BY <2>1, <2>2 DEF TypeInv
<1>7. CASE Delete
    <2>1. TypeOK' /\ QueuedHasAttempt'
        BY <1>7, SMTT(30) DEF TypeInv, TypeOK, Phases, Terminal, QueuedHasAttempt, AttemptNumbers, Delete, Gone
    <2>2. Budget'
        BY <1>7, SpendableShrinks DEF TypeInv, TypeOK, Phases, Terminal, Budget, Delete, Gone
    <2> QED BY <2>1, <2>2 DEF TypeInv
<1>8. CASE DeleteProject
    <2>1. TypeOK' /\ QueuedHasAttempt'
        BY <1>8, SMTT(30) DEF TypeInv, TypeOK, Phases, Terminal, QueuedHasAttempt, AttemptNumbers, DeleteProject, Gone
    <2>2. Budget'
        BY <1>8, SpendableShrinks DEF TypeInv, TypeOK, Phases, Terminal, Budget, DeleteProject, Gone
    <2> QED BY <2>1, <2>2 DEF TypeInv
<1>9. CASE Tick
    <2>1. TypeOK' /\ QueuedHasAttempt'
        BY <1>9, SMTT(30) DEF TypeInv, TypeOK, Phases, Terminal, QueuedHasAttempt, AttemptNumbers, Tick, Older, Owns, AtWork, Fault
    <2>2. Budget'
        BY <1>9, SpendableShrinks DEF TypeInv, TypeOK, Phases, Terminal, Budget, Tick, Older, Owns, AtWork, Fault
    <2> QED BY <2>1, <2>2 DEF TypeInv
<1> QED BY <1>1, <1>2, <1>3, <1>4, <1>5, <1>6, <1>7, <1>8, <1>9 DEF JanitorStep

\* The types hold at the start.
LEMMA TypesInitially == Init => TypeInv
<1> SUFFICES ASSUME Init PROVE TypeInv
    OBVIOUS
<1>1. TypeOK /\ QueuedHasAttempt
    <2>1. phase \in [Workers -> Phases] /\ attempt \in [Workers -> AttemptNumbers]
        BY ExportAssumption DEF Init, Phases, AttemptNumbers
    <2>2. stopping \in [Workers -> BOOLEAN] /\ ctxAge \in [Workers -> 0 .. JobTimeout]
        BY ExportAssumption DEF Init
    <2>3. permanent \in BOOLEAN /\ overslept \in BOOLEAN /\ doubtful \in BOOLEAN
        BY DEF Init
    <2> QED BY <2>1, <2>2, <2>3, ExportAssumption
            DEF Init, TypeOK, QueuedHasAttempt, AttemptNumbers, Terminal
<1>2. Spendable = {}
    BY DEF Init, Spendable
<1>3. Budget
    BY <1>1, <1>2, FS_EmptySet DEF Init, Budget
<1> QED BY <1>1, <1>3 DEF TypeInv

\* Every step keeps the types.
LEMMA TypesStep ==
    ASSUME TypeInv, [Next]_vars
    PROVE  TypeInv'
<1>1. CASE UNCHANGED vars
    BY <1>1 DEF vars, row, files, worker, observed, TypeInv, TypeOK, Budget, Spendable, QueuedHasAttempt
<1>2. CASE Next
    BY <1>2, WorkerKeepsTypes, OthersKeepTypes DEF Next
<1> QED BY <1>1, <1>2

\* TypeInv is an invariant.
LEMMA TypesHold == Spec => []TypeInv
BY TypesInitially, TypesStep, PTL DEF Spec

\* The row, the files and the processes keep their types, and an attempt beyond
\* the limit has been given back by Release.
THEOREM TypeCorrect == Spec => []TypeOK
<1>1. TypeInv => TypeOK
    BY DEF TypeInv
<1> QED BY <1>1, TypesHold, PTL

-----------------------------------------------------------------------------
(* The email and the verdict.                                               *)


\* A step of a worker keeps the email to one.
LEMMA WorkerKeepsMail ==
    ASSUME TypeInv, MailInv, NEW w \in Workers,
           \/ WorkerStep(w) \/ DoneUnanswered(w) \/ StatementFails(w)
           \/ Stop(w) \/ Crash(w) \/ LoseSession(w)
    PROVE  MailInv'
<1> USE DEF row, files, worker, observed, MailInv, Mailing
<1>1. CASE TickStart(w)
    BY <1>1 DEF TypeInv, TypeOK, Phases, Terminal, TickStart, Goto
<1>2. CASE SweepStale(w)
    BY <1>2 DEF TypeInv, TypeOK, Phases, Terminal, SweepStale, Dead, TimedOut, Expired, Goto
<1>3. CASE Claim(w)
    BY <1>3 DEF TypeInv, TypeOK, Phases, Terminal, Claim, Dead, TimedOut, Claimable, Expired, Goto
<1>4. CASE Unlock(w)
    BY <1>4 DEF TypeInv, TypeOK, Phases, Terminal, Unlock, Goto
<1>5. CASE NoSpace(w)
    BY <1>5 DEF TypeInv, TypeOK, Phases, Terminal, NoSpace, Goto
<1>6. CASE WriteFile(w)
    BY <1>6 DEF TypeInv, TypeOK, Phases, Terminal, WriteFile, Dead, TimedOut, Goto
<1>7. CASE WriteFails(w)
    BY <1>7 DEF TypeInv, TypeOK, Phases, Terminal, WriteFails, Goto
<1>8. CASE Rename(w)
    BY <1>8 DEF TypeInv, TypeOK, Phases, Terminal, Rename, Goto
<1>9. CASE Done(w)
    BY <1>9 DEF TypeInv, TypeOK, Phases, Terminal, Done, Owns, DoneCtxAlive, TimedOut, Goto
<1>10. CASE Fail(w)
    BY <1>10 DEF TypeInv, TypeOK, Phases, Terminal, Fail, Owns, Goto
<1>11. CASE FailPermanent(w)
    BY <1>11 DEF TypeInv, TypeOK, Phases, Terminal, FailPermanent, Owns, Goto
<1>12. CASE Release(w)
    BY <1>12 DEF TypeInv, TypeOK, Phases, Terminal, Release, Owns, Goto
<1>13. CASE Notify(w)
    BY <1>13 DEF TypeInv, TypeOK, Phases, Terminal, Notify, Goto
<1>14. CASE DoneUnanswered(w)
    BY <1>14 DEF TypeInv, TypeOK, Phases, Terminal, DoneUnanswered, Owns, DoneCtxAlive, TimedOut, Fault, Goto
<1>15. CASE StatementFails(w)
    BY <1>15 DEF TypeInv, TypeOK, Phases, Terminal, StatementFails, Fault, Goto
<1>16. CASE Stop(w)
    BY <1>16 DEF TypeInv, TypeOK, Phases, Terminal, Stop, Fault
<1>17. CASE Crash(w)
    BY <1>17 DEF TypeInv, TypeOK, Phases, Terminal, Crash, Fault, Goto
<1>18. CASE LoseSession(w)
    BY <1>18 DEF TypeInv, TypeOK, Phases, Terminal, LoseSession, Fault
<1> QED BY <1>1, <1>2, <1>3, <1>4, <1>5, <1>6, <1>7, <1>8, <1>9, <1>10, <1>11, <1>12, <1>13, <1>14, <1>15, <1>16, <1>17, <1>18 DEF WorkerStep

\* Every step does.
LEMMA MailStep ==
    ASSUME TypeInv, MailInv, [Next]_vars
    PROVE  MailInv'
<1> USE DEF row, files, worker, observed, MailInv, Mailing
<1>1. CASE UNCHANGED vars
    BY <1>1 DEF vars
<1>2. CASE JanitorStep
    BY <1>2 DEF JanitorStep, ExpireDue, MarkExpired, PurgeRows, Gone, RemoveOrphans, Terminal
<1>3. CASE AskDelete \/ RemoveFile \/ Delete \/ DeleteProject
    BY <1>3 DEF AskDelete, RemoveFile, Delete, DeleteProject, Gone
<1>4. CASE Tick
    BY <1>4 DEF Tick
<1> QED BY <1>1, <1>2, <1>3, <1>4, WorkerKeepsMail DEF Next

\* At most one email tells the author of the outcome, whatever sweeps, stops and
\* overtaken attempts do: the UPDATE that gives the verdict has one winner.
THEOREM OneMailOnly == Spec => []OneMail
<1>1. Init => MailInv
    BY DEF Init, MailInv, Mailing
<1>2. MailInv => OneMail
    BY DEF MailInv, OneMail
<1> QED BY <1>1, <1>2, TypesHold, MailStep, PTL DEF Spec

\* A worker changes the verdict of no job.
LEMMA WorkerKeepsVerdict ==
    ASSUME TypeInv, NEW w \in Workers, status \in Terminal,
           \/ WorkerStep(w) \/ DoneUnanswered(w) \/ StatementFails(w)
           \/ Stop(w) \/ Crash(w) \/ LoseSession(w)
    PROVE  status' = status /\ doneAge' = doneAge
<1> USE DEF row, files, worker, observed, Terminal
<1>1. CASE TickStart(w)
    BY <1>1 DEF TickStart, Goto
<1>2. CASE SweepStale(w)
    BY <1>2 DEF SweepStale, Dead, TimedOut, Expired, Goto
<1>3. CASE Claim(w)
    BY <1>3 DEF Claim, Dead, TimedOut, Claimable, Expired, Goto
<1>4. CASE Unlock(w)
    BY <1>4 DEF Unlock, Goto
<1>5. CASE NoSpace(w)
    BY <1>5 DEF NoSpace, Goto
<1>6. CASE WriteFile(w)
    BY <1>6 DEF WriteFile, Dead, TimedOut, Goto
<1>7. CASE WriteFails(w)
    BY <1>7 DEF WriteFails, Goto
<1>8. CASE Rename(w)
    BY <1>8 DEF Rename, Goto
<1>9. CASE Done(w)
    BY <1>9 DEF Done, Owns, DoneCtxAlive, TimedOut, Goto
<1>10. CASE Fail(w)
    BY <1>10 DEF Fail, Owns, Goto
<1>11. CASE FailPermanent(w)
    BY <1>11 DEF FailPermanent, Owns, Goto
<1>12. CASE Release(w)
    BY <1>12 DEF Release, Owns, Goto
<1>13. CASE Notify(w)
    BY <1>13 DEF Notify, Goto
<1>14. CASE DoneUnanswered(w)
    BY <1>14 DEF DoneUnanswered, Owns, DoneCtxAlive, TimedOut, Fault, Goto
<1>15. CASE StatementFails(w)
    BY <1>15 DEF StatementFails, Fault, Goto
<1>16. CASE Stop(w)
    BY <1>16 DEF Stop, Fault
<1>17. CASE Crash(w)
    BY <1>17 DEF Crash, Fault, Goto
<1>18. CASE LoseSession(w)
    BY <1>18 DEF LoseSession, Fault
<1> QED BY <1>1, <1>2, <1>3, <1>4, <1>5, <1>6, <1>7, <1>8, <1>9, <1>10, <1>11, <1>12, <1>13, <1>14, <1>15, <1>16, <1>17, <1>18 DEF WorkerStep

\* The verdict of a job is final and its date does not move: what the retention of
\* the row and of the file counts from.
THEOREM FinalVerdict == Spec => VerdictIsFinal
<1>1. ASSUME TypeInv, Next, status \in Terminal
      PROVE  \/ status' = "gone"
             \/ /\ status' = status \/ (status = "done" /\ status' = "expired")
                /\ doneAge' >= doneAge
    <2> USE DEF row, files, worker, observed
    <2>1. doneAge \in Nat
        BY <1>1, ExportAssumption DEF TypeInv, TypeOK
    <2>2. ASSUME NEW w \in Workers,
                 \/ WorkerStep(w) \/ DoneUnanswered(w) \/ StatementFails(w)
                 \/ Stop(w) \/ Crash(w) \/ LoseSession(w)
          PROVE  status' = status /\ doneAge' = doneAge
        BY <1>1, <2>2, WorkerKeepsVerdict
    <2>3. CASE JanitorStep
        BY <1>1, <2>1, <2>3 DEF JanitorStep, ExpireDue, MarkExpired, PurgeRows, Gone, RemoveOrphans
    <2>4. CASE AskDelete \/ RemoveFile \/ Delete \/ DeleteProject
        BY <1>1, <2>1, <2>4 DEF AskDelete, RemoveFile, Delete, DeleteProject, Gone
    <2>5. CASE Tick
        BY <1>1, <2>1, <2>5 DEF Tick, Older
    <2> QED BY <1>1, <2>1, <2>2, <2>3, <2>4, <2>5 DEF Next
<1>2. TypeInv /\ [Next]_vars => [(status \in Terminal) =>
        \/ status' = "gone"
        \/ /\ status' = status \/ (status = "done" /\ status' = "expired")
           /\ doneAge' >= doneAge]_vars
    BY <1>1
<1> QED BY <1>2, TypesHold, PTL DEF Spec, VerdictIsFinal

-----------------------------------------------------------------------------
(* The files.                                                               *)


\* A step of a worker touches its own files only.
LEMMA WorkerKeepsFiles ==
    ASSUME TypeInv, FileInv, NEW w \in Workers,
           \/ WorkerStep(w) \/ DoneUnanswered(w) \/ StatementFails(w)
           \/ Stop(w) \/ Crash(w) \/ LoseSession(w)
    PROVE  FileInv'
<1> USE ExportAssumption DEF row, files, worker, observed, FileInv, AtWork, Owns, Expired
<1>1. CASE TickStart(w)
    <2>1. Apart'
        BY <1>1 DEF Apart, TypeInv, TypeOK, Phases, Terminal, AttemptNumbers, TickStart, Goto
    <2>2. OwnFiles'
        BY <1>1 DEF Apart, OwnFiles, TypeInv, TypeOK, Phases, Terminal, TickStart, Goto
    <2>3. AuthorInv' /\ DoneHasFile'
        BY <1>1 DEF Apart, OwnFiles, AuthorInv, DoneHasFile, TypeInv, TypeOK, Phases, Terminal, TickStart, Goto
    <2> QED BY <2>1, <2>2, <2>3
<1>2. CASE SweepStale(w)
    <2>1. Apart'
        BY <1>2 DEF Apart, TypeInv, TypeOK, Phases, Terminal, AttemptNumbers, SweepStale, Dead, TimedOut, Goto
    <2>2. OwnFiles'
        BY <1>2 DEF Apart, OwnFiles, TypeInv, TypeOK, Phases, Terminal, SweepStale, Dead, TimedOut, Goto
    <2>3. AuthorInv' /\ DoneHasFile'
        BY <1>2 DEF Apart, OwnFiles, AuthorInv, DoneHasFile, TypeInv, TypeOK, Phases, Terminal, SweepStale, Dead, TimedOut, Goto
    <2> QED BY <2>1, <2>2, <2>3
<1>3. CASE Claim(w)
    <2>1. Apart'
        BY <1>3 DEF Apart, TypeInv, TypeOK, Phases, Terminal, AttemptNumbers, Claim, Dead, TimedOut, Claimable, Goto
    <2>2. OwnFiles'
        BY <1>3 DEF Apart, OwnFiles, TypeInv, TypeOK, Phases, Terminal, Claim, Dead, TimedOut, Claimable, Goto
    <2>3. AuthorInv' /\ DoneHasFile'
        BY <1>3 DEF Apart, OwnFiles, AuthorInv, DoneHasFile, TypeInv, TypeOK, Phases, Terminal, Claim, Dead, TimedOut, Claimable, Goto
    <2> QED BY <2>1, <2>2, <2>3
<1>4. CASE Unlock(w)
    <2>1. Apart'
        BY <1>4 DEF Apart, TypeInv, TypeOK, Phases, Terminal, AttemptNumbers, Unlock, Goto
    <2>2. OwnFiles'
        BY <1>4 DEF Apart, OwnFiles, TypeInv, TypeOK, Phases, Terminal, Unlock, Goto
    <2>3. AuthorInv' /\ DoneHasFile'
        BY <1>4 DEF Apart, OwnFiles, AuthorInv, DoneHasFile, TypeInv, TypeOK, Phases, Terminal, Unlock, Goto
    <2> QED BY <2>1, <2>2, <2>3
<1>5. CASE NoSpace(w)
    <2>1. Apart'
        BY <1>5 DEF Apart, TypeInv, TypeOK, Phases, Terminal, AttemptNumbers, NoSpace, Goto
    <2>2. OwnFiles'
        BY <1>5 DEF Apart, OwnFiles, TypeInv, TypeOK, Phases, Terminal, NoSpace, Goto
    <2>3. AuthorInv' /\ DoneHasFile'
        BY <1>5 DEF Apart, OwnFiles, AuthorInv, DoneHasFile, TypeInv, TypeOK, Phases, Terminal, NoSpace, Goto
    <2> QED BY <2>1, <2>2, <2>3
<1>6. CASE WriteFile(w)
    <2>1. Apart'
        BY <1>6 DEF Apart, TypeInv, TypeOK, Phases, Terminal, AttemptNumbers, WriteFile, Dead, TimedOut, Goto
    <2>2. OwnFiles'
        BY <1>6 DEF Apart, OwnFiles, TypeInv, TypeOK, Phases, Terminal, WriteFile, Dead, TimedOut, Goto
    <2>3. AuthorInv' /\ DoneHasFile'
        BY <1>6 DEF Apart, OwnFiles, AuthorInv, DoneHasFile, TypeInv, TypeOK, Phases, Terminal, WriteFile, Dead, TimedOut, Goto
    <2> QED BY <2>1, <2>2, <2>3
<1>7. CASE WriteFails(w)
    <2>1. Apart'
        BY <1>7 DEF Apart, TypeInv, TypeOK, Phases, Terminal, AttemptNumbers, WriteFails, Goto
    <2>2. OwnFiles'
        BY <1>7 DEF Apart, OwnFiles, TypeInv, TypeOK, Phases, Terminal, WriteFails, Goto
    <2>3. AuthorInv' /\ DoneHasFile'
        BY <1>7 DEF Apart, OwnFiles, AuthorInv, DoneHasFile, TypeInv, TypeOK, Phases, Terminal, WriteFails, Goto
    <2> QED BY <2>1, <2>2, <2>3
<1>8. CASE Rename(w)
    <2>1. Apart'
        BY <1>8 DEF Apart, TypeInv, TypeOK, Phases, Terminal, AttemptNumbers, Rename, Goto
    <2>2. OwnFiles'
        BY <1>8 DEF Apart, OwnFiles, TypeInv, TypeOK, Phases, Terminal, Rename, Goto
    <2>3. AuthorInv' /\ DoneHasFile'
        BY <1>8 DEF Apart, OwnFiles, AuthorInv, DoneHasFile, TypeInv, TypeOK, Phases, Terminal, Rename, Goto
    <2> QED BY <2>1, <2>2, <2>3
<1>9. CASE Done(w)
    <2>1. Apart'
        BY <1>9 DEF Apart, TypeInv, TypeOK, Phases, Terminal, AttemptNumbers, Done, DoneCtxAlive, TimedOut, Goto
    <2>2. OwnFiles'
        BY <1>9 DEF Apart, OwnFiles, TypeInv, TypeOK, Phases, Terminal, Done, DoneCtxAlive, TimedOut, Goto
    <2>3. AuthorInv' /\ DoneHasFile'
        BY <1>9 DEF Apart, OwnFiles, AuthorInv, DoneHasFile, TypeInv, TypeOK, Phases, Terminal, Done, DoneCtxAlive, TimedOut, Goto
    <2> QED BY <2>1, <2>2, <2>3
<1>10. CASE Fail(w)
    <2>1. Apart'
        BY <1>10 DEF Apart, TypeInv, TypeOK, Phases, Terminal, AttemptNumbers, Fail, Goto
    <2>2. OwnFiles'
        BY <1>10 DEF Apart, OwnFiles, TypeInv, TypeOK, Phases, Terminal, Fail, Goto
    <2>3. AuthorInv' /\ DoneHasFile'
        BY <1>10 DEF Apart, OwnFiles, AuthorInv, DoneHasFile, TypeInv, TypeOK, Phases, Terminal, Fail, Goto
    <2> QED BY <2>1, <2>2, <2>3
<1>11. CASE FailPermanent(w)
    <2>1. Apart'
        BY <1>11 DEF Apart, TypeInv, TypeOK, Phases, Terminal, AttemptNumbers, FailPermanent, Goto
    <2>2. OwnFiles'
        BY <1>11 DEF Apart, OwnFiles, TypeInv, TypeOK, Phases, Terminal, FailPermanent, Goto
    <2>3. AuthorInv' /\ DoneHasFile'
        BY <1>11 DEF Apart, OwnFiles, AuthorInv, DoneHasFile, TypeInv, TypeOK, Phases, Terminal, FailPermanent, Goto
    <2> QED BY <2>1, <2>2, <2>3
<1>12. CASE Release(w)
    <2>1. Apart'
        BY <1>12 DEF Apart, TypeInv, TypeOK, Phases, Terminal, AttemptNumbers, Release, Goto
    <2>2. OwnFiles'
        BY <1>12 DEF Apart, OwnFiles, TypeInv, TypeOK, Phases, Terminal, Release, Goto
    <2>3. AuthorInv' /\ DoneHasFile'
        BY <1>12 DEF Apart, OwnFiles, AuthorInv, DoneHasFile, TypeInv, TypeOK, Phases, Terminal, Release, Goto
    <2> QED BY <2>1, <2>2, <2>3
<1>13. CASE Notify(w)
    <2>1. Apart'
        BY <1>13 DEF Apart, TypeInv, TypeOK, Phases, Terminal, AttemptNumbers, Notify, Goto
    <2>2. OwnFiles'
        BY <1>13 DEF Apart, OwnFiles, TypeInv, TypeOK, Phases, Terminal, Notify, Goto
    <2>3. AuthorInv' /\ DoneHasFile'
        BY <1>13 DEF Apart, OwnFiles, AuthorInv, DoneHasFile, TypeInv, TypeOK, Phases, Terminal, Notify, Goto
    <2> QED BY <2>1, <2>2, <2>3
<1>14. CASE DoneUnanswered(w)
    <2>1. Apart'
        BY <1>14 DEF Apart, TypeInv, TypeOK, Phases, Terminal, AttemptNumbers, DoneUnanswered, DoneCtxAlive, TimedOut, Fault, Goto
    <2>2. OwnFiles'
        BY <1>14 DEF Apart, OwnFiles, TypeInv, TypeOK, Phases, Terminal, DoneUnanswered, DoneCtxAlive, TimedOut, Fault, Goto
    <2>3. AuthorInv' /\ DoneHasFile'
        BY <1>14 DEF Apart, OwnFiles, AuthorInv, DoneHasFile, TypeInv, TypeOK, Phases, Terminal, DoneUnanswered, DoneCtxAlive, TimedOut, Fault, Goto
    <2> QED BY <2>1, <2>2, <2>3
<1>15. CASE StatementFails(w)
    <2>1. Apart'
        BY <1>15 DEF Apart, TypeInv, TypeOK, Phases, Terminal, AttemptNumbers, StatementFails, Fault, Goto
    <2>2. OwnFiles'
        BY <1>15 DEF Apart, OwnFiles, TypeInv, TypeOK, Phases, Terminal, StatementFails, Fault, Goto
    <2>3. AuthorInv' /\ DoneHasFile'
        BY <1>15 DEF Apart, OwnFiles, AuthorInv, DoneHasFile, TypeInv, TypeOK, Phases, Terminal, StatementFails, Fault, Goto
    <2> QED BY <2>1, <2>2, <2>3
<1>16. CASE Stop(w)
    <2>1. Apart'
        BY <1>16 DEF Apart, TypeInv, TypeOK, Phases, Terminal, AttemptNumbers, Stop, Fault
    <2>2. OwnFiles'
        BY <1>16 DEF Apart, OwnFiles, TypeInv, TypeOK, Phases, Terminal, Stop, Fault
    <2>3. AuthorInv' /\ DoneHasFile'
        BY <1>16 DEF Apart, OwnFiles, AuthorInv, DoneHasFile, TypeInv, TypeOK, Phases, Terminal, Stop, Fault
    <2> QED BY <2>1, <2>2, <2>3
<1>17. CASE Crash(w)
    <2>1. Apart'
        BY <1>17 DEF Apart, TypeInv, TypeOK, Phases, Terminal, AttemptNumbers, Crash, Fault, Goto
    <2>2. OwnFiles'
        BY <1>17 DEF Apart, OwnFiles, TypeInv, TypeOK, Phases, Terminal, Crash, Fault, Goto
    <2>3. AuthorInv' /\ DoneHasFile'
        BY <1>17 DEF Apart, OwnFiles, AuthorInv, DoneHasFile, TypeInv, TypeOK, Phases, Terminal, Crash, Fault, Goto
    <2> QED BY <2>1, <2>2, <2>3
<1>18. CASE LoseSession(w)
    <2>1. Apart'
        BY <1>18 DEF Apart, TypeInv, TypeOK, Phases, Terminal, AttemptNumbers, LoseSession, Fault
    <2>2. OwnFiles'
        BY <1>18 DEF Apart, OwnFiles, TypeInv, TypeOK, Phases, Terminal, LoseSession, Fault
    <2>3. AuthorInv' /\ DoneHasFile'
        BY <1>18 DEF Apart, OwnFiles, AuthorInv, DoneHasFile, TypeInv, TypeOK, Phases, Terminal, LoseSession, Fault
    <2> QED BY <2>1, <2>2, <2>3
<1> QED BY <1>1, <1>2, <1>3, <1>4, <1>5, <1>6, <1>7, <1>8, <1>9, <1>10, <1>11, <1>12, <1>13, <1>14, <1>15, <1>16, <1>17, <1>18 DEF WorkerStep

\* The janitor and the author touch the files of finished and deleted jobs only, and
\* a lease that runs out under a worker is recorded.
LEMMA OthersKeepFiles ==
    ASSUME TypeInv, FileInv, JanitorStep \/ AskDelete \/ RemoveFile \/ Delete \/ DeleteProject \/ Tick
    PROVE  FileInv'
<1> USE ExportAssumption DEF row, files, worker, observed, FileInv, AtWork, Owns, Expired
<1>1. CASE ExpireDue
    <2>1. Apart'
        BY <1>1 DEF Apart, TypeInv, TypeOK, Phases, Terminal, ExpireDue
    <2>2. OwnFiles'
        BY <1>1 DEF Apart, OwnFiles, AuthorInv, TypeInv, TypeOK, Phases, Terminal, ExpireDue
    <2>3. AuthorInv' /\ DoneHasFile'
        BY <1>1 DEF AuthorInv, DoneHasFile, TypeInv, TypeOK, Phases, Terminal, ExpireDue
    <2> QED BY <2>1, <2>2, <2>3
<1>2. CASE MarkExpired
    <2>1. Apart'
        BY <1>2 DEF Apart, TypeInv, TypeOK, Phases, Terminal, MarkExpired
    <2>2. OwnFiles'
        BY <1>2 DEF Apart, OwnFiles, AuthorInv, TypeInv, TypeOK, Phases, Terminal, MarkExpired
    <2>3. AuthorInv' /\ DoneHasFile'
        BY <1>2 DEF AuthorInv, DoneHasFile, TypeInv, TypeOK, Phases, Terminal, MarkExpired
    <2> QED BY <2>1, <2>2, <2>3
<1>3. CASE PurgeRows
    <2>1. Apart'
        BY <1>3 DEF Apart, TypeInv, TypeOK, Phases, Terminal, PurgeRows, Gone
    <2>2. OwnFiles'
        BY <1>3 DEF Apart, OwnFiles, AuthorInv, TypeInv, TypeOK, Phases, Terminal, PurgeRows, Gone
    <2>3. AuthorInv' /\ DoneHasFile'
        BY <1>3 DEF AuthorInv, DoneHasFile, TypeInv, TypeOK, Phases, Terminal, PurgeRows, Gone
    <2> QED BY <2>1, <2>2, <2>3
<1>4. CASE RemoveOrphans
    <2>1. Apart'
        BY <1>4 DEF Apart, TypeInv, TypeOK, Phases, Terminal, RemoveOrphans, Orphaned
    <2>2. OwnFiles'
        BY <1>4 DEF Apart, OwnFiles, AuthorInv, TypeInv, TypeOK, Phases, Terminal, RemoveOrphans, Orphaned
    <2>3. AuthorInv' /\ DoneHasFile'
        BY <1>4 DEF AuthorInv, DoneHasFile, TypeInv, TypeOK, Phases, Terminal, RemoveOrphans, Orphaned
    <2> QED BY <2>1, <2>2, <2>3
<1>5. CASE AskDelete
    <2>1. Apart'
        BY <1>5 DEF Apart, TypeInv, TypeOK, Phases, Terminal, AskDelete
    <2>2. OwnFiles'
        BY <1>5 DEF Apart, OwnFiles, AuthorInv, TypeInv, TypeOK, Phases, Terminal, AskDelete
    <2>3. AuthorInv' /\ DoneHasFile'
        BY <1>5 DEF AuthorInv, DoneHasFile, TypeInv, TypeOK, Phases, Terminal, AskDelete
    <2> QED BY <2>1, <2>2, <2>3
<1>6. CASE RemoveFile
    <2>1. Apart'
        BY <1>6 DEF Apart, TypeInv, TypeOK, Phases, Terminal, RemoveFile
    <2>2. OwnFiles'
        BY <1>6 DEF Apart, OwnFiles, AuthorInv, TypeInv, TypeOK, Phases, Terminal, RemoveFile
    <2>3. AuthorInv' /\ DoneHasFile'
        BY <1>6 DEF AuthorInv, DoneHasFile, TypeInv, TypeOK, Phases, Terminal, RemoveFile
    <2> QED BY <2>1, <2>2, <2>3
<1>7. CASE Delete
    <2>1. Apart'
        BY <1>7 DEF Apart, TypeInv, TypeOK, Phases, Terminal, Delete, Gone
    <2>2. OwnFiles'
        BY <1>7 DEF Apart, OwnFiles, AuthorInv, TypeInv, TypeOK, Phases, Terminal, Delete, Gone
    <2>3. AuthorInv' /\ DoneHasFile'
        BY <1>7 DEF AuthorInv, DoneHasFile, TypeInv, TypeOK, Phases, Terminal, Delete, Gone
    <2> QED BY <2>1, <2>2, <2>3
<1>8. CASE DeleteProject
    <2>1. Apart'
        BY <1>8 DEF Apart, TypeInv, TypeOK, Phases, Terminal, DeleteProject, Gone
    <2>2. OwnFiles'
        BY <1>8 DEF Apart, OwnFiles, AuthorInv, TypeInv, TypeOK, Phases, Terminal, DeleteProject, Gone
    <2>3. AuthorInv' /\ DoneHasFile'
        BY <1>8 DEF AuthorInv, DoneHasFile, TypeInv, TypeOK, Phases, Terminal, DeleteProject, Gone
    <2> QED BY <2>1, <2>2, <2>3
<1>9. CASE Tick
    <2>1. Apart'
        <3>1. SUFFICES ASSUME ~overslept', status' # "gone" PROVE Apart'
            BY DEF Apart
        <3>2. ~overslept /\ ~(leaseAge = LeaseTTL /\ \E w \in Workers : AtWork(w) /\ Owns(w))
            BY <1>9, <3>1 DEF TypeInv, TypeOK, Tick
        <3>3. /\ \A w \in Workers : AtWork(w) => Owns(w)
              /\ \A w, v \in Workers : AtWork(w) /\ AtWork(v) => w = v
              /\ Expired => \A w \in Workers : ~AtWork(w)
            BY <1>9, <3>1, <3>2 DEF Apart, Tick
        <3>4. Expired' => leaseAge = LeaseTTL \/ Expired
            BY <1>9 DEF TypeInv, TypeOK, Tick, Older
        <3> QED BY <1>9, <3>2, <3>3, <3>4 DEF Apart, Tick
    <2>2. OwnFiles'
        BY <1>9 DEF Apart, OwnFiles, AuthorInv, TypeInv, TypeOK, Phases, Terminal, Tick, Older, Fault
    <2>3. AuthorInv' /\ DoneHasFile'
        BY <1>9 DEF AuthorInv, DoneHasFile, TypeInv, TypeOK, Phases, Terminal, Tick, Older, Fault
    <2> QED BY <2>1, <2>2, <2>3
<1> QED BY <1>1, <1>2, <1>3, <1>4, <1>5, <1>6, <1>7, <1>8, <1>9 DEF JanitorStep

\* A job that says done has the file of the attempt that finished it, until it expires
\* or is being deleted, although the attempts share their file names: unless a worker
\* outlived its lease or the answer to Done was lost.
THEOREM DoneKeepsFile == Spec => []DoneHasFile
<1>1. Init => FileInv
    BY DEF Init, FileInv, Apart, OwnFiles, AuthorInv, DoneHasFile, AtWork
<1>2. TypeInv /\ FileInv /\ [Next]_vars => FileInv'
    <2>1. ASSUME FileInv, UNCHANGED vars PROVE FileInv'
        BY <2>1 DEF vars, row, files, worker, observed, FileInv, Apart, OwnFiles, AuthorInv,
                    DoneHasFile, AtWork, Owns, Expired
    <2> QED BY <2>1, WorkerKeepsFiles, OthersKeepFiles DEF Next
<1>3. FileInv => DoneHasFile
    BY DEF FileInv
<1> QED BY <1>1, <1>2, <1>3, TypesHold, PTL DEF Spec

=============================================================================
