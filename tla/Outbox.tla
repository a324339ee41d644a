------------------------------- MODULE Outbox -------------------------------
(***************************************************************************)
(* internal/notify: the notification_outbox table (outbox.go), the workers *)
(* that claim due rows under a lease, send them and record the outcome     *)
(* (worker.go, direct.go), and the janitor (janitor.go).                   *)
(*                                                                         *)
(* Workers are processes: each runs Tick in a loop and finishes a batch    *)
(* before it claims the next.  Time is the database's clock (now() in the  *)
(* statements); next_retry_at is kept as the time left until it.           *)
(***************************************************************************)
EXTENDS Integers, FiniteSets, Sequences

CONSTANTS
    Jobs,            \* rows that may be inserted (ids are never reused)
    Workers,         \* worker processes
    Keys,            \* idempotency keys
    NoKey,           \* the empty key
    KeyOf,           \* [Jobs -> Keys \cup {NoKey}]
    BatchSize,       \* rows one Claim takes at most (concurrency * 2)
    Concurrency,     \* sends of one worker in progress at once
    ClaimLease,      \* claimLease
    BackoffDelays,   \* delays after attempts 1, 2, ...: a sequence of positives
    MarkSentRetries, \* markSentRetries
    Retention,       \* age after which a verdict is purged
    MaxOverdue,      \* bound: overdue times are told apart up to this
    MaxFaults        \* bound: crashes, stalls, failed writes, ambiguous sends

ASSUME OutboxAssumption ==
    /\ KeyOf \in [Jobs -> Keys \cup {NoKey}]
    /\ NoKey \notin Keys
    /\ BatchSize \in Nat \ {0}
    /\ Concurrency \in Nat \ {0}
    /\ ClaimLease \in Nat \ {0}
    /\ BackoffDelays \in Seq(Nat \ {0})
    /\ MarkSentRetries \in Nat \ {0}
    /\ Retention \in Nat
    /\ MaxOverdue \in Nat
    /\ MaxFaults \in Nat

VARIABLES
    (* the table *)
    status,     \* "absent" before the INSERT, the column, then how the row left
    attempts,   \* column attempts
    retryIn,    \* next_retry_at - now()
    age,        \* now() - created_at
    (* the workers' memory: one goroutine per claimed job *)
    phase,      \* phase[w][j]: what w is doing with j
    token,      \* token[w][j]: Job.Attempts, the attempt w owns
    tries,      \* tries[w][j]: calls of MarkSent made so far
    (* observations *)
    delivered,  \* attempts of a job whose message reached the receiver
    lost,       \* attempts of a job whose outcome was not recorded in time
    faults      \* faults so far

table == <<status, attempts, retryIn, age>>
memory == <<phase, token, tries>>
vars == <<table, memory, delivered, lost, faults>>

Phases == {"idle", "waiting", "sending", "delivered", "erred"}

\* The attempt after which backoff() has no delay left.
MaxAttempts == Len(BackoffDelays) + 1

(***************************************************************************)
(* One type invariant: the columns and the workers' memory have their      *)
(* types.                                                                  *)
(***************************************************************************)
TypeOK ==
    /\ status \in [Jobs -> {"absent", "pending", "sent", "failed", "purged", "withdrawn"}]
    /\ attempts \in [Jobs -> Nat]
    /\ retryIn \in [Jobs -> Int]
    /\ age \in [Jobs -> Nat]
    /\ phase \in [Workers -> [Jobs -> Phases]]
    /\ token \in [Workers -> [Jobs -> Nat]]
    /\ tries \in [Workers -> [Jobs -> 0 .. MarkSentRetries - 1]]
    /\ delivered \in [Jobs -> SUBSET Nat]
    /\ lost \in [Jobs -> SUBSET Nat]
    /\ faults \in Nat

Init ==
    /\ status = [j \in Jobs |-> "absent"]
    /\ attempts = [j \in Jobs |-> 0]
    /\ retryIn = [j \in Jobs |-> 0]
    /\ age = [j \in Jobs |-> 0]
    /\ phase = [w \in Workers |-> [j \in Jobs |-> "idle"]]
    /\ token = [w \in Workers |-> [j \in Jobs |-> 0]]
    /\ tries = [w \in Workers |-> [j \in Jobs |-> 0]]
    /\ delivered = [j \in Jobs |-> {}]
    /\ lost = [j \in Jobs |-> {}]
    /\ faults = 0

----------------------------------------------------------------------------
(* Enqueue and EnqueueIdempotent                                            *)

Present(j) == status[j] \in {"pending", "sent", "failed"}

\* The partial unique index on idempotency_key: a conflict inserts nothing.
KeyFree(j) ==
    \/ KeyOf[j] = NoKey
    \/ \A k \in Jobs : Present(k) => KeyOf[k] # KeyOf[j]

Enqueue(j) ==
    /\ status[j] = "absent"
    /\ KeyFree(j)
    /\ status' = [status EXCEPT ![j] = "pending"]
    /\ UNCHANGED <<attempts, retryIn, age, memory, delivered, lost, faults>>

----------------------------------------------------------------------------
(* Claim                                                                    *)

Idle(w) == \A j \in Jobs : phase[w][j] = "idle"

\* A claim that does not look at next_retry_at.
DueIgnoringLease == {j \in Jobs : status[j] = "pending"}

Due == {j \in Jobs : status[j] = "pending" /\ retryIn[j] <= 0}

\* ORDER BY next_retry_at ... LIMIT: a full batch, the longest due first.
Batches ==
    {S \in SUBSET Due :
        /\ Cardinality(S) = IF Cardinality(Due) < BatchSize
                            THEN Cardinality(Due) ELSE BatchSize
        /\ \A j \in S, k \in Due \ S : retryIn[j] <= retryIn[k]}

\* One UPDATE: it counts the attempt and hides the row for the lease.
Lease(S) ==
    /\ attempts' = [j \in Jobs |-> IF j \in S THEN attempts[j] + 1 ELSE attempts[j]]
    /\ retryIn' = [j \in Jobs |-> IF j \in S THEN ClaimLease ELSE retryIn[j]]
    /\ UNCHANGED <<status, age>>

Claim(w) ==
    /\ Idle(w)
    /\ \E S \in Batches :
        /\ S # {}
        /\ Lease(S)
        /\ phase' = [phase EXCEPT ![w] =
               [j \in Jobs |-> IF j \in S THEN "waiting" ELSE "idle"]]
        /\ token' = [token EXCEPT ![w] =
               [j \in Jobs |-> IF j \in S THEN attempts[j] + 1 ELSE 0]]
    /\ UNCHANGED <<tries, delivered, lost, faults>>

\* The UPDATE is applied but its rows do not reach the worker: Tick returns, and
\* the attempt is used up with nobody working on it.
ClaimError(w) ==
    /\ Idle(w)
    /\ faults < MaxFaults
    /\ faults' = faults + 1
    /\ \E S \in Batches :
        /\ S # {}
        /\ Lease(S)
        /\ lost' = [j \in Jobs |-> IF j \in S THEN lost[j] \cup {attempts[j] + 1} ELSE lost[j]]
    /\ UNCHANGED <<memory, delivered>>

----------------------------------------------------------------------------
(* deliver, process and Direct.Send                                         *)

InSend(w) == {j \in Jobs : phase[w][j] \in {"sending", "delivered", "erred"}}

\* deliver's semaphore: the goroutine of j gets a slot.
Acquire(w, j) ==
    /\ phase[w][j] = "waiting"
    /\ Cardinality(InSend(w)) < Concurrency
    /\ phase' = [phase EXCEPT ![w][j] = "sending"]
    /\ UNCHANGED <<table, token, tries, delivered, lost, faults>>

SendOk(w, j) ==
    /\ phase[w][j] = "sending"
    /\ phase' = [phase EXCEPT ![w][j] = "delivered"]
    /\ delivered' = [delivered EXCEPT ![j] = @ \cup {token[w][j]}]
    /\ UNCHANGED <<table, token, tries, lost, faults>>

\* No sender, no secret, a refused or timed-out request, or a panic: nothing
\* arrived, and process (or processGuarded) goes on to retryOrFail.
SendFails(w, j) ==
    /\ phase[w][j] = "sending"
    /\ phase' = [phase EXCEPT ![w][j] = "erred"]
    /\ UNCHANGED <<table, token, tries, delivered, lost, faults>>

\* The receiver got the message, but the answer was late, lost or not a 2xx.
SendAmbiguous(w, j) ==
    /\ phase[w][j] = "sending"
    /\ faults < MaxFaults
    /\ phase' = [phase EXCEPT ![w][j] = "erred"]
    /\ delivered' = [delivered EXCEPT ![j] = @ \cup {token[w][j]}]
    /\ lost' = [lost EXCEPT ![j] = @ \cup {token[w][j]}]
    /\ faults' = faults + 1
    /\ UNCHANGED <<table, token, tries>>

----------------------------------------------------------------------------
(* MarkSent, MarkRetry and MarkFailed                                       *)

\* A finalisation whose fence names only the row: the claim may be stale.
OwnsById(w, j) == Present(j)

\* The fence of the three statements, "WHERE id = $1 AND attempts = $2".
Owns(w, j) == Present(j) /\ attempts[j] = token[w][j]

\* The goroutine of j returns.
Return(w, j) ==
    /\ phase' = [phase EXCEPT ![w][j] = "idle"]
    /\ token' = [token EXCEPT ![w][j] = 0]
    /\ tries' = [tries EXCEPT ![w][j] = 0]

\* A loop that makes one call too many.
LastTryLate(w, j) == tries[w][j] >= MarkSentRetries

\* markSent gives up after markSentRetries calls.
LastTry(w, j) == tries[w][j] + 1 >= MarkSentRetries

\* markSent's loop: it repeats after any error, a stale claim included.
NextTry(w, j) ==
    \/ /\ LastTry(w, j)
       /\ Return(w, j)
    \/ /\ ~ LastTry(w, j)
       /\ tries' = [tries EXCEPT ![w][j] = @ + 1]
       /\ UNCHANGED <<phase, token>>

MarkSent(w, j) ==
    /\ phase[w][j] = "delivered"
    /\ \/ /\ Owns(w, j)
          /\ status' = [status EXCEPT ![j] = "sent"]
          /\ Return(w, j)
       \/ /\ ~ Owns(w, j)
          /\ NextTry(w, j)
          /\ UNCHANGED status
    /\ UNCHANGED <<attempts, retryIn, age, delivered, lost, faults>>

\* The statement fails, or it is applied and its answer is lost.
MarkSentError(w, j, applied) ==
    /\ phase[w][j] = "delivered"
    /\ faults < MaxFaults
    /\ faults' = faults + 1
    /\ NextTry(w, j)
    /\ status' = IF applied /\ Owns(w, j)
                 THEN [status EXCEPT ![j] = "sent"] ELSE status
    /\ lost' = IF LastTry(w, j) /\ ~ applied /\ status[j] = "pending" /\ Owns(w, j)
               THEN [lost EXCEPT ![j] = @ \cup {token[w][j]}] ELSE lost
    /\ UNCHANGED <<attempts, retryIn, age, delivered>>

\* A backoff() that repeats its last delay for ever.
BackoffEndless(n) ==
    IF n \in DOMAIN BackoffDelays THEN BackoffDelays[n]
    ELSE BackoffDelays[Len(BackoffDelays)]

\* backoff(): no delay once the delays are used up.
Backoff(n) == IF n \in DOMAIN BackoffDelays THEN BackoffDelays[n] ELSE 0

RetryOrFail(w, j) ==
    /\ phase[w][j] = "erred"
    /\ Return(w, j)
    /\ \/ /\ Owns(w, j)
          /\ Backoff(token[w][j]) = 0
          /\ status' = [status EXCEPT ![j] = "failed"]
          /\ UNCHANGED retryIn
       \/ /\ Owns(w, j)
          /\ Backoff(token[w][j]) # 0
          /\ status' = [status EXCEPT ![j] = "pending"]
          /\ retryIn' = [retryIn EXCEPT ![j] = Backoff(token[w][j])]
       \/ /\ ~ Owns(w, j)
          /\ UNCHANGED <<status, retryIn>>
    /\ UNCHANGED <<attempts, age, delivered, lost, faults>>

\* The one finalising statement of retryOrFail fails; it is not repeated.
RetryOrFailError(w, j) ==
    /\ phase[w][j] = "erred"
    /\ faults < MaxFaults
    /\ faults' = faults + 1
    /\ Return(w, j)
    /\ lost' = IF Owns(w, j) THEN [lost EXCEPT ![j] = @ \cup {token[w][j]}] ELSE lost
    /\ UNCHANGED <<table, delivered>>

----------------------------------------------------------------------------
(* Crashes and time                                                         *)

\* Attempts that w has under way and whose outcome the table does not show.
Unrecorded(w, j) == phase[w][j] # "idle" /\ status[j] = "pending" /\ Owns(w, j)

\* The process dies: its goroutines and what they know are gone.
Crash(w) ==
    /\ ~ Idle(w)
    /\ faults < MaxFaults
    /\ faults' = faults + 1
    /\ lost' = [j \in Jobs |-> IF Unrecorded(w, j) THEN lost[j] \cup {token[w][j]} ELSE lost[j]]
    /\ phase' = [phase EXCEPT ![w] = [j \in Jobs |-> "idle"]]
    /\ token' = [token EXCEPT ![w] = [j \in Jobs |-> 0]]
    /\ tries' = [tries EXCEPT ![w] = [j \in Jobs |-> 0]]
    /\ UNCHANGED <<table, delivered>>

\* Jobs whose lease runs out at the next tick while their attempt is under way.
Expiring == {j \in Jobs : retryIn[j] = 1 /\ \E w \in Workers : Unrecorded(w, j)}

Elapse ==
    /\ retryIn' = [j \in Jobs |-> IF retryIn[j] > - MaxOverdue THEN retryIn[j] - 1 ELSE retryIn[j]]
    /\ age' = [j \in Jobs |-> IF Present(j) /\ age[j] <= Retention THEN age[j] + 1 ELSE age[j]]
    /\ UNCHANGED <<status, attempts, memory, delivered>>

\* The lease covers a batch (claimLease against SendTimeout and finalizeTimeout),
\* so as long as processes run it does not expire on an attempt under way ...
Tick ==
    /\ Expiring = {}
    /\ Elapse
    /\ UNCHANGED <<lost, faults>>

\* ... but a process may be paused or starved for longer than that.
Stall ==
    /\ Expiring # {}
    /\ faults < MaxFaults
    /\ faults' = faults + 1
    /\ Elapse
    /\ lost' = [j \in Jobs |-> IF j \in Expiring THEN lost[j] \cup {attempts[j]} ELSE lost[j]]

----------------------------------------------------------------------------
(* Rows leave the table                                                     *)

\* A purge by age alone.
PurgeableByAge == {j \in Jobs : Present(j) /\ age[j] > Retention}

Purgeable == {j \in Jobs : status[j] \in {"sent", "failed"} /\ age[j] > Retention}

\* PurgeOld, one DELETE.
PurgeOld ==
    /\ Purgeable # {}
    /\ status' = [j \in Jobs |-> IF j \in Purgeable THEN "purged" ELSE status[j]]
    /\ UNCHANGED <<attempts, retryIn, age, memory, delivered, lost, faults>>

\* ON DELETE CASCADE of the channel; the model gives each job its own channel.
DeleteChannel(j) ==
    /\ Present(j)
    /\ status' = [status EXCEPT ![j] = "withdrawn"]
    /\ UNCHANGED <<attempts, retryIn, age, memory, delivered, lost, faults>>

----------------------------------------------------------------------------

JobStep(w, j) ==
    \/ Acquire(w, j)
    \/ SendOk(w, j) \/ SendFails(w, j) \/ SendAmbiguous(w, j)
    \/ MarkSent(w, j) \/ \E applied \in BOOLEAN : MarkSentError(w, j, applied)
    \/ RetryOrFail(w, j) \/ RetryOrFailError(w, j)

Next ==
    \/ \E j \in Jobs : Enqueue(j) \/ DeleteChannel(j)
    \/ \E w \in Workers : Claim(w) \/ ClaimError(w) \/ Crash(w)
    \/ \E w \in Workers, j \in Jobs : JobStep(w, j)
    \/ Tick \/ Stall \/ PurgeOld

\* Workers keep ticking, sends end (SendTimeout), time passes.  Nothing is
\* assumed of the environment: no enqueue, deletion, purge or fault has to happen.
Fairness ==
    /\ WF_vars(Tick)
    /\ \A w \in Workers : WF_vars(Claim(w))
    /\ \A w \in Workers, j \in Jobs : WF_vars(JobStep(w, j))

Spec == Init /\ [][Next]_vars /\ Fairness

----------------------------------------------------------------------------
(* Properties                                                               *)

\* A receiver sees a message twice only when the outcome of an earlier attempt
\* was lost (crash, stall past the lease, failed write, ambiguous answer): of
\* the attempts that arrived and were not lost there is at most one, the last.
\* This is what the lease, the fence on attempts and markSent's retries are for.
DuplicateOnlyAfterLoss ==
    \A j \in Jobs : delivered[j] \ lost[j] \subseteq {attempts[j]}

\* backoff() ends the attempts: one more than MaxAttempts is made only for every
\* attempt, from the last permitted one on, whose outcome was lost.
AttemptsBeyondLimitAreLosses ==
    \A j \in Jobs : \A a \in MaxAttempts .. (attempts[j] - 1) : a \in lost[j]

\* The outbox implements the contract of its callers: verdicts are final and
\* truthful, and every pending row gets one.
Contract == INSTANCE DeliveryContract
    WITH received <- [j \in Jobs |-> delivered[j] # {}]

ContractSpec == Contract!Spec
=============================================================================
