---------------------------- MODULE OutboxProofs ----------------------------
(***************************************************************************)
(* Proofs about Outbox for any jobs, workers, keys, batch size, lease,     *)
(* delays and number of faults.                                            *)
(***************************************************************************)
EXTENDS Outbox, TLAPS

Holding(w, j) == phase[w][j] # "idle"

\* What a worker may rely on about a job it has in hand.
HolderInv(w, j) ==
    Holding(w, j) =>
        /\ token[w][j] \in 1 .. attempts[j]
        /\ token[w][j] < attempts[j] => token[w][j] \in lost[j]
        /\ token[w][j] = attempts[j] =>
              \/ status[j] \in {"pending", "purged", "withdrawn"}
              \/ status[j] = "sent" /\ phase[w][j] = "delivered"
        /\ token[w][j] = attempts[j] /\ status[j] = "pending" /\ retryIn[j] <= 0
              => attempts[j] \in lost[j]
        /\ phase[w][j] \in {"waiting", "sending"} => token[w][j] \notin delivered[j]
        /\ phase[w][j] = "erred" /\ token[w][j] \in delivered[j] => token[w][j] \in lost[j]
        /\ phase[w][j] = "delivered" => token[w][j] \in delivered[j]

\* No two workers own the same attempt.
DistinctTokens ==
    \A w, v \in Workers, j \in Jobs :
        w # v /\ Holding(w, j) /\ Holding(v, j) => token[w][j] # token[v][j]

\* An attempt that must not be repeated silently has a worker attending to it.
Attended(j) ==
    /\ status[j] = "pending"
    /\ attempts[j] \notin lost[j]
    /\ attempts[j] >= MaxAttempts \/ attempts[j] \in delivered[j]
    => \E w \in Workers : Holding(w, j) /\ token[w][j] = attempts[j]

JobInv(j) ==
    /\ status[j] = "absent" => attempts[j] = 0 /\ delivered[j] = {}
    /\ delivered[j] \subseteq 1 .. attempts[j]
    /\ status[j] = "sent" => delivered[j] # {}
    /\ Attended(j)
    /\ delivered[j] \ lost[j] \subseteq {attempts[j]}
    /\ \A a \in MaxAttempts .. (attempts[j] - 1) : a \in lost[j]

IInv ==
    /\ TypeOK
    /\ \A w \in Workers, j \in Jobs : HolderInv(w, j)
    /\ DistinctTokens
    /\ \A j \in Jobs : JobInv(j)

(***************************************************************************)
(* Pointwise descriptions of what the recurring sub-steps do to memory.    *)
(***************************************************************************)
\* The limit on attempts is at least one.
LEMMA MaxAttemptsNat == MaxAttempts \in Nat \ {0}
BY OutboxAssumption DEF MaxAttempts

\* A goroutine that returns leaves the memory of every other one alone.
LEMMA ReturnMemory ==
    ASSUME TypeOK, NEW u \in Workers, NEW i \in Jobs, Return(u, i)
    PROVE  /\ phase' \in [Workers -> [Jobs -> Phases]]
           /\ token' \in [Workers -> [Jobs -> Nat]]
           /\ tries' \in [Workers -> [Jobs -> 0 .. MarkSentRetries - 1]]
           /\ \A w \in Workers, j \in Jobs :
                 /\ phase'[w][j] = IF w = u /\ j = i THEN "idle" ELSE phase[w][j]
                 /\ token'[w][j] = IF w = u /\ j = i THEN 0 ELSE token[w][j]
BY OutboxAssumption DEF TypeOK, Return, Phases

\* After a call of MarkSent in vain the goroutine returns or stays where it is.
LEMMA NextTryMemory ==
    ASSUME TypeOK, NEW u \in Workers, NEW i \in Jobs, NextTry(u, i)
    PROVE  /\ phase' \in [Workers -> [Jobs -> Phases]]
           /\ token' \in [Workers -> [Jobs -> Nat]]
           /\ tries' \in [Workers -> [Jobs -> 0 .. MarkSentRetries - 1]]
           /\ \A w \in Workers, j \in Jobs :
                 /\ phase'[w][j] = IF w = u /\ j = i /\ LastTry(u, i)
                                   THEN "idle" ELSE phase[w][j]
                 /\ token'[w][j] = IF w = u /\ j = i /\ LastTry(u, i)
                                   THEN 0 ELSE token[w][j]
<1>1. CASE LastTry(u, i) /\ Return(u, i)
    BY <1>1, ReturnMemory
<1>2. CASE ~ LastTry(u, i) /\ tries' = [tries EXCEPT ![u][i] = @ + 1] /\ UNCHANGED <<phase, token>>
    <2>1. tries[u][i] + 1 \in 0 .. MarkSentRetries - 1
        BY <1>2, OutboxAssumption DEF LastTry, TypeOK
    <2>2. tries' \in [Workers -> [Jobs -> 0 .. MarkSentRetries - 1]]
        BY <1>2, <2>1 DEF TypeOK
    <2> QED BY <1>2, <2>2 DEF TypeOK
<1> QED BY <1>1, <1>2 DEF NextTry

\* Inserting a row: no worker holds it and it has made no attempt.
LEMMA EnqueueStep ==
    ASSUME IInv, NEW i \in Jobs, Enqueue(i)
    PROVE  IInv'
<1> USE OutboxAssumption DEF IInv, table, memory
<1>1. TypeOK'
    BY DEF TypeOK, Phases, Enqueue, Present
<1>2. ASSUME NEW w \in Workers, NEW j \in Jobs PROVE HolderInv(w, j)'
    BY DEF TypeOK, Phases, HolderInv, Holding, JobInv, Enqueue, Present
<1>3. DistinctTokens'
    BY DEF TypeOK, Phases, DistinctTokens, HolderInv, Holding, Enqueue, Present
<1>4. ASSUME NEW j \in Jobs PROVE JobInv(j)'
    BY MaxAttemptsNat DEF TypeOK, Phases, JobInv, Attended, HolderInv, Holding, Enqueue, Present
<1> QED BY <1>1, <1>2, <1>3, <1>4

\* A withdrawn row may still be held; nothing is claimed of it any more.
LEMMA DeleteChannelStep ==
    ASSUME IInv, NEW i \in Jobs, DeleteChannel(i)
    PROVE  IInv'
<1> USE OutboxAssumption DEF IInv, table, memory
<1>1. TypeOK'
    BY DEF TypeOK, Phases, DeleteChannel, Present
<1>2. ASSUME NEW w \in Workers, NEW j \in Jobs PROVE HolderInv(w, j)'
    BY DEF TypeOK, Phases, HolderInv, Holding, JobInv, DeleteChannel, Present
<1>3. DistinctTokens'
    BY DEF TypeOK, Phases, DistinctTokens, HolderInv, Holding, DeleteChannel, Present
<1>4. ASSUME NEW j \in Jobs PROVE JobInv(j)'
    BY MaxAttemptsNat DEF TypeOK, Phases, JobInv, Attended, HolderInv, Holding, DeleteChannel, Present
<1> QED BY <1>1, <1>2, <1>3, <1>4

\* A tick never lets the lease of an attempt under way expire.
LEMMA TickStep ==
    ASSUME IInv, Tick
    PROVE  IInv'
<1> USE OutboxAssumption DEF IInv, table, memory
<1>1. TypeOK'
    BY DEF TypeOK, Phases, Tick, Elapse, Expiring, Unrecorded, Owns, Present
<1>2. ASSUME NEW w \in Workers, NEW j \in Jobs PROVE HolderInv(w, j)'
    BY DEF TypeOK, Phases, HolderInv, Holding, JobInv, Tick, Elapse, Expiring, Unrecorded, Owns, Present
<1>3. DistinctTokens'
    BY DEF TypeOK, Phases, DistinctTokens, HolderInv, Holding, Tick, Elapse, Expiring, Unrecorded, Owns, Present
<1>4. ASSUME NEW j \in Jobs PROVE JobInv(j)'
    BY MaxAttemptsNat DEF TypeOK, Phases, JobInv, Attended, HolderInv, Holding, Tick, Elapse, Expiring, Unrecorded, Owns, Present
<1> QED BY <1>1, <1>2, <1>3, <1>4

\* A stall does, and counts every such attempt as lost.
LEMMA StallStep ==
    ASSUME IInv, Stall
    PROVE  IInv'
<1> USE OutboxAssumption DEF IInv, table, memory
<1>1. TypeOK'
    BY DEF TypeOK, Phases, Stall, Elapse, Expiring, Unrecorded, Owns, Present
<1>2. ASSUME NEW w \in Workers, NEW j \in Jobs PROVE HolderInv(w, j)'
    BY DEF TypeOK, Phases, HolderInv, Holding, JobInv, Stall, Elapse, Expiring, Unrecorded, Owns, Present
<1>3. DistinctTokens'
    BY DEF TypeOK, Phases, DistinctTokens, HolderInv, Holding, Stall, Elapse, Expiring, Unrecorded, Owns, Present
<1>4. ASSUME NEW j \in Jobs PROVE JobInv(j)'
    BY MaxAttemptsNat DEF TypeOK, Phases, JobInv, Attended, HolderInv, Holding, Stall, Elapse, Expiring, Unrecorded, Owns, Present
<1> QED BY <1>1, <1>2, <1>3, <1>4

\* A purged row is sent or failed; only a late MarkSent may still hold it.
LEMMA PurgeOldStep ==
    ASSUME IInv, PurgeOld
    PROVE  IInv'
<1> USE OutboxAssumption DEF IInv, table, memory
<1>1. TypeOK'
    BY DEF TypeOK, Phases, PurgeOld, Purgeable
<1>2. ASSUME NEW w \in Workers, NEW j \in Jobs PROVE HolderInv(w, j)'
    BY DEF TypeOK, Phases, HolderInv, Holding, JobInv, PurgeOld, Purgeable
<1>3. DistinctTokens'
    BY DEF TypeOK, Phases, DistinctTokens, HolderInv, Holding, PurgeOld, Purgeable
<1>4. ASSUME NEW j \in Jobs PROVE JobInv(j)'
    BY MaxAttemptsNat DEF TypeOK, Phases, JobInv, Attended, HolderInv, Holding, PurgeOld, Purgeable
<1> QED BY <1>1, <1>2, <1>3, <1>4

\* A crash loses what the worker had not recorded.
LEMMA CrashStep ==
    ASSUME IInv, NEW u \in Workers, Crash(u)
    PROVE  IInv'
<1> USE OutboxAssumption DEF IInv, table, memory
<1>1. TypeOK'
    BY DEF TypeOK, Phases, Crash, Unrecorded, Owns, Present
<1>2. ASSUME NEW w \in Workers, NEW j \in Jobs PROVE HolderInv(w, j)'
    BY DEF TypeOK, Phases, HolderInv, Holding, JobInv, Crash, Unrecorded, Owns, Present
<1>3. DistinctTokens'
    BY DEF TypeOK, Phases, DistinctTokens, HolderInv, Holding, Crash, Unrecorded, Owns, Present
<1>4. ASSUME NEW j \in Jobs PROVE JobInv(j)'
    BY MaxAttemptsNat DEF TypeOK, Phases, JobInv, Attended, HolderInv, Holding, Crash, Unrecorded, Owns, Present
<1> QED BY <1>1, <1>2, <1>3, <1>4

\* The heart of the proof: when a row can be claimed, its last attempt was
\* recorded as retryable or was lost (<1>7).
LEMMA ClaimStep ==
    ASSUME IInv, NEW u \in Workers, Claim(u)
    PROVE  IInv'
<1> USE OutboxAssumption DEF IInv
<1>1. PICK S \in Batches :
            /\ Lease(S)
            /\ phase' = [phase EXCEPT ![u] =
                   [j \in Jobs |-> IF j \in S THEN "waiting" ELSE "idle"]]
            /\ token' = [token EXCEPT ![u] =
                   [j \in Jobs |-> IF j \in S THEN attempts[j] + 1 ELSE 0]]
    BY DEF Claim
<1>2. /\ S \subseteq Jobs
      /\ \A j \in S : status[j] = "pending" /\ retryIn[j] <= 0
    BY DEF Batches, Due
<1>3. \A j \in Jobs :
            /\ attempts'[j] = IF j \in S THEN attempts[j] + 1 ELSE attempts[j]
            /\ retryIn'[j] = IF j \in S THEN ClaimLease ELSE retryIn[j]
            /\ status'[j] = status[j]
            /\ delivered'[j] = delivered[j]
            /\ lost'[j] = lost[j]
    BY <1>1, <1>2 DEF Lease, Claim, TypeOK
<1>4. \A w \in Workers, j \in Jobs :
            /\ phase'[w][j] = IF w = u THEN (IF j \in S THEN "waiting" ELSE "idle") ELSE phase[w][j]
            /\ token'[w][j] = IF w = u THEN (IF j \in S THEN attempts[j] + 1 ELSE 0) ELSE token[w][j]
    BY <1>1, <1>2 DEF Claim, TypeOK, memory
<1>5. \A j \in Jobs : phase[u][j] = "idle"
    BY DEF Claim, Idle
<1>6. TypeOK'
    BY <1>1, <1>2 DEF TypeOK, Phases, Claim, Lease, memory
<1>7. ASSUME NEW j \in S
      PROVE  /\ delivered[j] \subseteq lost[j]
             /\ attempts[j] >= MaxAttempts => attempts[j] \in lost[j]
    <2>1. j \in Jobs /\ status[j] = "pending" /\ retryIn[j] <= 0
        BY <1>2
    <2>2. ASSUME NEW w \in Workers, Holding(w, j), token[w][j] = attempts[j]
          PROVE  attempts[j] \in lost[j]
        BY <2>1, <2>2 DEF HolderInv
    <2>3. JobInv(j)
        BY <2>1
    <2> QED BY <2>1, <2>2, <2>3 DEF JobInv, Attended
<1>8. ASSUME NEW w \in Workers, NEW j \in Jobs PROVE HolderInv(w, j)'
    <2>1. HolderInv(w, j) /\ JobInv(j)
        OBVIOUS
    <2>2. attempts[j] \in Nat /\ token[w][j] \in Nat
        BY DEF TypeOK
    <2>3. CASE j \in S /\ w # u
        <3>1. token[w][j] = attempts[j] /\ Holding(w, j) => attempts[j] \in lost[j]
            BY <2>1, <2>3, <1>2 DEF HolderInv
        <3> QED BY <2>1, <2>2, <2>3, <3>1, <1>3, <1>4 DEF HolderInv, Holding
    <2>4. CASE j \in S /\ w = u
        BY <2>1, <2>2, <2>4, <1>2, <1>3, <1>4, <1>5 DEF HolderInv, Holding, JobInv
    <2>5. CASE j \notin S
        BY <2>1, <2>2, <2>5, <1>3, <1>4, <1>5 DEF HolderInv, Holding
    <2> QED BY <2>3, <2>4, <2>5
<1>9. DistinctTokens'
    <2>1. ASSUME NEW w \in Workers, NEW j \in Jobs, Holding(w, j)
          PROVE  token[w][j] \in 1 .. attempts[j]
        BY <2>1 DEF HolderInv
    <2> SUFFICES ASSUME NEW w \in Workers, NEW v \in Workers, NEW j \in Jobs,
                        w # v, Holding(w, j)', Holding(v, j)'
                 PROVE  token'[w][j] # token'[v][j]
        BY DEF DistinctTokens, Holding
    <2>2. CASE w # u /\ v # u
        BY <2>2, <1>4 DEF DistinctTokens, Holding
    <2>3. CASE w = u \/ v = u
        <3>1. j \in S
            BY <2>3, <1>4 DEF Holding
        <3> QED BY <2>1, <2>3, <3>1, <1>4 DEF Holding, TypeOK
    <2> QED BY <2>2, <2>3
<1>10. ASSUME NEW j \in Jobs PROVE JobInv(j)'
    <2>1. JobInv(j) /\ attempts[j] \in Nat /\ delivered[j] \subseteq Nat
        BY DEF TypeOK
    <2>2. CASE j \in S
        <3>1. Attended(j)'
            BY <2>2, <1>3, <1>4 DEF Attended, Holding
        <3>2. delivered'[j] \subseteq 1 .. attempts'[j]
            BY <2>1, <2>2, <1>3 DEF JobInv
        <3>3. delivered'[j] \ lost'[j] = {}
            BY <2>2, <1>3, <1>7
        <3>4. ASSUME NEW a \in MaxAttempts .. (attempts'[j] - 1) PROVE a \in lost'[j]
            <4>1. \/ a \in MaxAttempts .. (attempts[j] - 1)
                  \/ a = attempts[j] /\ attempts[j] >= MaxAttempts
                BY <2>1, <2>2, <1>3, MaxAttemptsNat
            <4> QED BY <4>1, <2>1, <2>2, <1>3, <1>7 DEF JobInv
        <3> QED BY <2>2, <3>1, <3>2, <3>3, <3>4, <1>2, <1>3 DEF JobInv
    <2>3. CASE j \notin S
        <3>1. Attended(j)'
            BY <2>1, <2>3, <1>3, <1>4, <1>5 DEF JobInv, Attended, Holding
        <3> QED BY <2>1, <2>3, <3>1, <1>3 DEF JobInv
    <2> QED BY <2>2, <2>3
<1> QED BY <1>6, <1>8, <1>9, <1>10

\* The same for a claim whose answer never reaches the worker.
LEMMA ClaimErrorStep ==
    ASSUME IInv, NEW u \in Workers, ClaimError(u)
    PROVE  IInv'
<1> USE OutboxAssumption DEF IInv
<1>1. PICK S \in Batches :
            /\ Lease(S)
            /\ lost' = [j \in Jobs |-> IF j \in S THEN lost[j] \cup {attempts[j] + 1} ELSE lost[j]]
    BY DEF ClaimError
<1>2. /\ S \subseteq Jobs
      /\ \A j \in S : status[j] = "pending" /\ retryIn[j] <= 0
    BY DEF Batches, Due
<1>3. \A j \in Jobs :
            /\ attempts'[j] = IF j \in S THEN attempts[j] + 1 ELSE attempts[j]
            /\ retryIn'[j] = IF j \in S THEN ClaimLease ELSE retryIn[j]
            /\ status'[j] = status[j]
            /\ delivered'[j] = delivered[j]
            /\ \A a : a \in lost'[j] <=> a \in lost[j] \/ (j \in S /\ a = attempts[j] + 1)
    BY <1>1, <1>2 DEF Lease, ClaimError, TypeOK
<1>4. \A w \in Workers, j \in Jobs :
            /\ phase'[w][j] = phase[w][j]
            /\ token'[w][j] = token[w][j]
    BY <1>1, <1>2 DEF ClaimError, TypeOK, memory
<1>5. \A j \in Jobs : phase[u][j] = "idle"
    BY DEF ClaimError, Idle
<1>6. TypeOK'
    BY <1>1, <1>2 DEF TypeOK, Phases, ClaimError, Lease, memory
<1>7. ASSUME NEW j \in S
      PROVE  /\ delivered[j] \subseteq lost[j]
             /\ attempts[j] >= MaxAttempts => attempts[j] \in lost[j]
    <2>1. j \in Jobs /\ status[j] = "pending" /\ retryIn[j] <= 0
        BY <1>2
    <2>2. ASSUME NEW w \in Workers, Holding(w, j), token[w][j] = attempts[j]
          PROVE  attempts[j] \in lost[j]
        BY <2>1, <2>2 DEF HolderInv
    <2>3. JobInv(j)
        BY <2>1
    <2> QED BY <2>1, <2>2, <2>3 DEF JobInv, Attended
<1>8. ASSUME NEW w \in Workers, NEW j \in Jobs PROVE HolderInv(w, j)'
    <2>1. HolderInv(w, j) /\ JobInv(j)
        OBVIOUS
    <2>2. attempts[j] \in Nat /\ token[w][j] \in Nat
        BY DEF TypeOK
    <2>3. CASE j \in S /\ w # u
        <3>1. token[w][j] = attempts[j] /\ Holding(w, j) => attempts[j] \in lost[j]
            BY <2>1, <2>3, <1>2 DEF HolderInv
        <3> QED BY <2>1, <2>2, <2>3, <3>1, <1>3, <1>4 DEF HolderInv, Holding
    <2>4. CASE j \in S /\ w = u
        BY <2>1, <2>2, <2>4, <1>2, <1>3, <1>4, <1>5 DEF HolderInv, Holding, JobInv
    <2>5. CASE j \notin S
        BY <2>1, <2>2, <2>5, <1>3, <1>4, <1>5 DEF HolderInv, Holding
    <2> QED BY <2>3, <2>4, <2>5
<1>9. DistinctTokens'
    <2>1. ASSUME NEW w \in Workers, NEW j \in Jobs, Holding(w, j)
          PROVE  token[w][j] \in 1 .. attempts[j]
        BY <2>1 DEF HolderInv
    <2> QED BY <2>1, <1>4, <1>5 DEF DistinctTokens, Holding, TypeOK
<1>10. ASSUME NEW j \in Jobs PROVE JobInv(j)'
    <2>1. JobInv(j) /\ attempts[j] \in Nat /\ delivered[j] \subseteq Nat
        BY DEF TypeOK
    <2>2. CASE j \in S
        <3>1. Attended(j)'
            BY <2>2, <1>3, <1>4 DEF Attended, Holding
        <3>2. delivered'[j] \subseteq 1 .. attempts'[j]
            BY <2>1, <2>2, <1>3 DEF JobInv
        <3>3. delivered'[j] \ lost'[j] = {}
            BY <2>2, <1>3, <1>7
        <3>4. ASSUME NEW a \in MaxAttempts .. (attempts'[j] - 1) PROVE a \in lost'[j]
            <4>1. \/ a \in MaxAttempts .. (attempts[j] - 1)
                  \/ a = attempts[j] /\ attempts[j] >= MaxAttempts
                BY <2>1, <2>2, <1>3, MaxAttemptsNat
            <4> QED BY <4>1, <2>1, <2>2, <1>3, <1>7 DEF JobInv
        <3> QED BY <2>2, <3>1, <3>2, <3>3, <3>4, <1>2, <1>3 DEF JobInv
    <2>3. CASE j \notin S
        <3>1. Attended(j)'
            BY <2>1, <2>3, <1>3, <1>4, <1>5 DEF JobInv, Attended, Holding
        <3> QED BY <2>1, <2>3, <3>1, <1>3 DEF JobInv
    <2> QED BY <2>2, <2>3
<1> QED BY <1>6, <1>8, <1>9, <1>10

\* Getting a slot of the semaphore.
LEMMA AcquireStep ==
    ASSUME IInv, NEW u \in Workers, NEW i \in Jobs, Acquire(u, i)
    PROVE  IInv'
<1> USE OutboxAssumption DEF IInv
<1>1. \A w \in Workers, j \in Jobs :
            /\ phase'[w][j] = IF w = u /\ j = i THEN "sending" ELSE phase[w][j]
            /\ token'[w][j] = token[w][j]
    BY DEF Acquire, TypeOK
<1>2. \A j \in Jobs :
            /\ delivered'[j] = delivered[j]
            /\ lost'[j] = lost[j]
            /\ status'[j] = status[j] /\ attempts'[j] = attempts[j] /\ retryIn'[j] = retryIn[j]
    BY DEF Acquire, TypeOK, table
<1>3. TypeOK'
    BY DEF Acquire, TypeOK, Phases, table
<1>4. /\ phase[u][i] \in {"waiting", "sending"}
      /\ token[u][i] \in 1 .. attempts[i]
    BY DEF Acquire, HolderInv, Holding
<1>5. ASSUME NEW w \in Workers, NEW j \in Jobs PROVE HolderInv(w, j)'
    <2>1. HolderInv(w, j)
        OBVIOUS
    <2>2. w # u /\ j = i /\ Holding(w, j) => token[w][j] # token[u][i]
        BY <1>4 DEF DistinctTokens, Holding
    <2> QED BY <2>1, <2>2, <1>1, <1>2, <1>4 DEF HolderInv, Holding
<1>6. DistinctTokens'
    BY <1>1, <1>4 DEF DistinctTokens, Holding
<1>7. ASSUME NEW j \in Jobs PROVE JobInv(j)'
    <2>1. JobInv(j) /\ attempts[j] \in Nat
        BY DEF TypeOK
    <2>2. HolderInv(u, i)
        OBVIOUS
    <2>3. Attended(j)'
        BY <2>1, <1>1, <1>2, <1>4 DEF JobInv, Attended, Holding
    <2> QED BY <2>1, <2>2, <2>3, <1>2, <1>4 DEF JobInv, HolderInv, Holding
<1> QED BY <1>3, <1>5, <1>6, <1>7

\* Nothing reached the receiver.
LEMMA SendFailsStep ==
    ASSUME IInv, NEW u \in Workers, NEW i \in Jobs, SendFails(u, i)
    PROVE  IInv'
<1> USE OutboxAssumption DEF IInv
<1>1. \A w \in Workers, j \in Jobs :
            /\ phase'[w][j] = IF w = u /\ j = i THEN "erred" ELSE phase[w][j]
            /\ token'[w][j] = token[w][j]
    BY DEF SendFails, TypeOK
<1>2. \A j \in Jobs :
            /\ delivered'[j] = delivered[j]
            /\ lost'[j] = lost[j]
            /\ status'[j] = status[j] /\ attempts'[j] = attempts[j] /\ retryIn'[j] = retryIn[j]
    BY DEF SendFails, TypeOK, table
<1>3. TypeOK'
    BY DEF SendFails, TypeOK, Phases, table
<1>4. /\ phase[u][i] \in {"waiting", "sending"}
      /\ token[u][i] \in 1 .. attempts[i]
    BY DEF SendFails, HolderInv, Holding
<1>5. ASSUME NEW w \in Workers, NEW j \in Jobs PROVE HolderInv(w, j)'
    <2>1. HolderInv(w, j)
        OBVIOUS
    <2>2. w # u /\ j = i /\ Holding(w, j) => token[w][j] # token[u][i]
        BY <1>4 DEF DistinctTokens, Holding
    <2> QED BY <2>1, <2>2, <1>1, <1>2, <1>4 DEF HolderInv, Holding
<1>6. DistinctTokens'
    BY <1>1, <1>4 DEF DistinctTokens, Holding
<1>7. ASSUME NEW j \in Jobs PROVE JobInv(j)'
    <2>1. JobInv(j) /\ attempts[j] \in Nat
        BY DEF TypeOK
    <2>2. HolderInv(u, i)
        OBVIOUS
    <2>3. Attended(j)'
        BY <2>1, <1>1, <1>2, <1>4 DEF JobInv, Attended, Holding
    <2> QED BY <2>1, <2>2, <2>3, <1>2, <1>4 DEF JobInv, HolderInv, Holding
<1> QED BY <1>3, <1>5, <1>6, <1>7

\* The receiver sees an attempt no other worker owns.
LEMMA SendOkStep ==
    ASSUME IInv, NEW u \in Workers, NEW i \in Jobs, SendOk(u, i)
    PROVE  IInv'
<1> USE OutboxAssumption DEF IInv
<1>1. \A w \in Workers, j \in Jobs :
            /\ phase'[w][j] = IF w = u /\ j = i THEN "delivered" ELSE phase[w][j]
            /\ token'[w][j] = token[w][j]
    BY DEF SendOk, TypeOK
<1>2. \A j \in Jobs :
            /\ \A a : a \in delivered'[j] <=> a \in delivered[j] \/ (j = i /\ a = token[u][i])
            /\ lost'[j] = lost[j]
            /\ status'[j] = status[j] /\ attempts'[j] = attempts[j] /\ retryIn'[j] = retryIn[j]
    BY DEF SendOk, TypeOK, table
<1>3. TypeOK'
    BY DEF SendOk, TypeOK, Phases, table
<1>4. /\ phase[u][i] \in {"waiting", "sending"}
      /\ token[u][i] \in 1 .. attempts[i]
    BY DEF SendOk, HolderInv, Holding
<1>5. ASSUME NEW w \in Workers, NEW j \in Jobs PROVE HolderInv(w, j)'
    <2>1. HolderInv(w, j)
        OBVIOUS
    <2>2. w # u /\ j = i /\ Holding(w, j) => token[w][j] # token[u][i]
        BY <1>4 DEF DistinctTokens, Holding
    <2> QED BY <2>1, <2>2, <1>1, <1>2, <1>4 DEF HolderInv, Holding
<1>6. DistinctTokens'
    BY <1>1, <1>4 DEF DistinctTokens, Holding
<1>7. ASSUME NEW j \in Jobs PROVE JobInv(j)'
    <2>1. JobInv(j) /\ attempts[j] \in Nat
        BY DEF TypeOK
    <2>2. HolderInv(u, i)
        OBVIOUS
    <2>3. Attended(j)'
        <3>1. CASE j = i /\ attempts[j] = token[u][i]
            BY <3>1, <1>1, <1>2 DEF Attended, Holding
        <3>2. CASE ~ (j = i /\ attempts[j] = token[u][i])
            <4>1. attempts'[j] \in delivered'[j] => attempts[j] \in delivered[j]
                BY <3>2, <1>2
            <4> QED BY <2>1, <4>1, <1>1, <1>2 DEF JobInv, Attended, Holding
        <3> QED BY <3>1, <3>2
    <2> QED BY <2>1, <2>2, <2>3, <1>2, <1>4 DEF JobInv, HolderInv, Holding
<1> QED BY <1>3, <1>5, <1>6, <1>7

\* The receiver sees the message and the attempt counts as lost.
LEMMA SendAmbiguousStep ==
    ASSUME IInv, NEW u \in Workers, NEW i \in Jobs, SendAmbiguous(u, i)
    PROVE  IInv'
<1> USE OutboxAssumption DEF IInv
<1>1. \A w \in Workers, j \in Jobs :
            /\ phase'[w][j] = IF w = u /\ j = i THEN "erred" ELSE phase[w][j]
            /\ token'[w][j] = token[w][j]
    BY DEF SendAmbiguous, TypeOK
<1>2. \A j \in Jobs :
            /\ \A a : a \in delivered'[j] <=> a \in delivered[j] \/ (j = i /\ a = token[u][i])
            /\ \A a : a \in lost'[j] <=> a \in lost[j] \/ (j = i /\ a = token[u][i])
            /\ status'[j] = status[j] /\ attempts'[j] = attempts[j] /\ retryIn'[j] = retryIn[j]
    BY DEF SendAmbiguous, TypeOK, table
<1>3. TypeOK'
    BY DEF SendAmbiguous, TypeOK, Phases, table
<1>4. /\ phase[u][i] \in {"waiting", "sending"}
      /\ token[u][i] \in 1 .. attempts[i]
    BY DEF SendAmbiguous, HolderInv, Holding
<1>5. ASSUME NEW w \in Workers, NEW j \in Jobs PROVE HolderInv(w, j)'
    <2>1. HolderInv(w, j)
        OBVIOUS
    <2>2. w # u /\ j = i /\ Holding(w, j) => token[w][j] # token[u][i]
        BY <1>4 DEF DistinctTokens, Holding
    <2> QED BY <2>1, <2>2, <1>1, <1>2, <1>4 DEF HolderInv, Holding
<1>6. DistinctTokens'
    BY <1>1, <1>4 DEF DistinctTokens, Holding
<1>7. ASSUME NEW j \in Jobs PROVE JobInv(j)'
    <2>1. JobInv(j) /\ attempts[j] \in Nat
        BY DEF TypeOK
    <2>2. HolderInv(u, i)
        OBVIOUS
    <2>3. Attended(j)'
        BY <2>1, <1>1, <1>2, <1>4 DEF JobInv, Attended, Holding
    <2> QED BY <2>1, <2>2, <2>3, <1>2, <1>4 DEF JobInv, HolderInv, Holding
<1> QED BY <1>3, <1>5, <1>6, <1>7

\* Only the owner of the current attempt changes the row.
LEMMA MarkSentStep ==
    ASSUME IInv, NEW u \in Workers, NEW i \in Jobs, MarkSent(u, i)
    PROVE  IInv'
<1> USE OutboxAssumption DEF IInv
<1>1. /\ phase[u][i] = "delivered"
      /\ token[u][i] \in 1 .. attempts[i]
    BY DEF MarkSent, HolderInv, Holding
<1>2. TypeOK'
    <2>1. CASE Owns(u, i) /\ status' = [status EXCEPT ![i] = "sent"] /\ Return(u, i)
        BY <2>1, ReturnMemory DEF MarkSent, TypeOK
    <2>2. CASE UNCHANGED status /\ NextTry(u, i)
        BY <2>2, NextTryMemory DEF MarkSent, TypeOK
    <2> QED BY <2>1, <2>2 DEF MarkSent
<1>3. \A w \in Workers, j \in Jobs :
            \/ phase'[w][j] = phase[w][j] /\ token'[w][j] = token[w][j] /\ (w = u /\ j = i => ~ Owns(u, i))
            \/ w = u /\ j = i /\ phase'[w][j] = "idle"
    BY ReturnMemory, NextTryMemory DEF MarkSent
<1>4. \A j \in Jobs :
            /\ status'[j] = IF j = i /\ Owns(u, i) THEN "sent" ELSE status[j]
            /\ attempts'[j] = attempts[j] /\ retryIn'[j] = retryIn[j]
            /\ delivered'[j] = delivered[j] /\ lost'[j] = lost[j]
    BY DEF MarkSent, TypeOK
<1>5. ASSUME NEW w \in Workers, NEW j \in Jobs PROVE HolderInv(w, j)'
    <2>1. HolderInv(w, j) /\ HolderInv(u, i)
        OBVIOUS
    <2>2. w # u /\ j = i /\ Holding(w, j) => token[w][j] # token[u][i]
        BY <1>1 DEF DistinctTokens, Holding
    <2> QED BY <2>1, <2>2, <1>1, <1>3, <1>4 DEF HolderInv, Holding, Owns, Present
<1>6. DistinctTokens'
    BY <1>1, <1>3 DEF DistinctTokens, Holding
<1>7. ASSUME NEW j \in Jobs PROVE JobInv(j)'
    <2>1. JobInv(j) /\ HolderInv(u, i) /\ attempts[j] \in Nat
        BY DEF TypeOK
    <2>2. Attended(j)'
        BY <2>1, <1>1, <1>3, <1>4, MaxAttemptsNat DEF JobInv, Attended, HolderInv, Holding, Owns, Present, LastTry
    <2> QED BY <2>1, <2>2, <1>1, <1>4 DEF JobInv, HolderInv, Holding, Owns, Present
<1> QED BY <1>2, <1>5, <1>6, <1>7

\* After the last failed MarkSent the attempt is lost.
LEMMA MarkSentErrorStep ==
    ASSUME IInv, NEW u \in Workers, NEW i \in Jobs, NEW applied \in BOOLEAN,
           MarkSentError(u, i, applied)
    PROVE  IInv'
<1> USE OutboxAssumption DEF IInv
<1>1. /\ phase[u][i] = "delivered"
      /\ token[u][i] \in 1 .. attempts[i]
    BY DEF MarkSentError, HolderInv, Holding
<1>2. TypeOK'
    BY NextTryMemory DEF MarkSentError, TypeOK
<1>3. \A w \in Workers, j \in Jobs :
            /\ phase'[w][j] = IF w = u /\ j = i /\ LastTry(u, i) THEN "idle" ELSE phase[w][j]
            /\ token'[w][j] = IF w = u /\ j = i /\ LastTry(u, i) THEN 0 ELSE token[w][j]
    BY NextTryMemory DEF MarkSentError
<1>4. \A j \in Jobs :
            /\ status'[j] = IF j = i /\ applied /\ Owns(u, i) THEN "sent" ELSE status[j]
            /\ attempts'[j] = attempts[j] /\ retryIn'[j] = retryIn[j]
            /\ delivered'[j] = delivered[j]
            /\ \A a : a \in lost'[j] <=>
                         \/ a \in lost[j]
                         \/ /\ LastTry(u, i) /\ ~ applied /\ status[i] = "pending" /\ Owns(u, i)
                            /\ j = i /\ a = token[u][i]
    BY DEF MarkSentError, TypeOK
<1>5. ASSUME NEW w \in Workers, NEW j \in Jobs PROVE HolderInv(w, j)'
    <2>1. HolderInv(w, j) /\ HolderInv(u, i)
        OBVIOUS
    <2>2. w # u /\ j = i /\ Holding(w, j) => token[w][j] # token[u][i]
        BY <1>1 DEF DistinctTokens, Holding
    <2> QED BY <2>1, <2>2, <1>1, <1>3, <1>4 DEF HolderInv, Holding, Owns, Present
<1>6. DistinctTokens'
    BY <1>1, <1>3 DEF DistinctTokens, Holding
<1>7. ASSUME NEW j \in Jobs PROVE JobInv(j)'
    <2>1. JobInv(j) /\ HolderInv(u, i) /\ attempts[j] \in Nat
        BY DEF TypeOK
    <2>2. Attended(j)'
        BY <2>1, <1>1, <1>3, <1>4, MaxAttemptsNat DEF JobInv, Attended, HolderInv, Holding, Owns, Present, LastTry
    <2> QED BY <2>1, <2>2, <1>1, <1>4 DEF JobInv, HolderInv, Holding, Owns, Present
<1> QED BY <1>2, <1>5, <1>6, <1>7

\* A retry is scheduled only for an attempt that did not arrive (or was lost)
\* and is not the last permitted one.
LEMMA RetryOrFailStep ==
    ASSUME IInv, NEW u \in Workers, NEW i \in Jobs, RetryOrFail(u, i)
    PROVE  IInv'
<1> USE OutboxAssumption DEF IInv
<1>1. /\ phase[u][i] = "erred"
      /\ token[u][i] \in 1 .. attempts[i]
    BY DEF RetryOrFail, HolderInv, Holding
<1>2. TypeOK'
    <2>1. Backoff(token[u][i]) \in Int
        BY DEF Backoff
    <2>2. retryIn' \in [Jobs -> Int]
        BY <2>1 DEF RetryOrFail, TypeOK
    <2>3. status' \in [Jobs -> {"absent", "pending", "sent", "failed", "purged", "withdrawn"}]
        BY DEF RetryOrFail, TypeOK
    <2> QED BY <2>2, <2>3, ReturnMemory DEF RetryOrFail, TypeOK
<1>3. \A w \in Workers, j \in Jobs :
            /\ phase'[w][j] = IF w = u /\ j = i THEN "idle" ELSE phase[w][j]
            /\ token'[w][j] = IF w = u /\ j = i THEN 0 ELSE token[w][j]
    BY ReturnMemory DEF RetryOrFail
<1>4. \A j \in Jobs :
            /\ status'[j] = IF j = i /\ Owns(u, i)
                            THEN (IF Backoff(token[u][i]) = 0 THEN "failed" ELSE "pending")
                            ELSE status[j]
            /\ j # i \/ ~ Owns(u, i) => retryIn'[j] = retryIn[j]
            /\ attempts'[j] = attempts[j]
            /\ delivered'[j] = delivered[j] /\ lost'[j] = lost[j]
    BY DEF RetryOrFail, TypeOK
<1>5. ASSUME NEW w \in Workers, NEW j \in Jobs PROVE HolderInv(w, j)'
    <2>1. HolderInv(w, j) /\ HolderInv(u, i)
        OBVIOUS
    <2>2. w # u /\ j = i /\ Holding(w, j) => token[w][j] # token[u][i]
        BY <1>1 DEF DistinctTokens, Holding
    <2> QED BY <2>1, <2>2, <1>1, <1>3, <1>4 DEF HolderInv, Holding, Owns, Present
<1>6. DistinctTokens'
    BY <1>1, <1>3 DEF DistinctTokens, Holding
<1>7. ASSUME NEW j \in Jobs PROVE JobInv(j)'
    <2>1. JobInv(j) /\ HolderInv(u, i) /\ attempts[j] \in Nat
        BY DEF TypeOK
    <2>2. Attended(j)'
        <3>1. CASE j = i /\ token[u][i] = attempts[i]
            <4>1. Owns(u, i) /\ Backoff(token[u][i]) # 0 => attempts[i] < MaxAttempts
                BY <1>1, <3>1 DEF Backoff, MaxAttempts
            <4>2. attempts[i] \in delivered[i] => attempts[i] \in lost[i]
                BY <2>1, <1>1, <3>1 DEF HolderInv, Holding
            <4>3. status'[i] = "pending" => Owns(u, i) /\ Backoff(token[u][i]) # 0
                BY <2>1, <3>1, <1>1, <1>4 DEF Owns, Present
            <4> QED BY <4>1, <4>2, <4>3, <2>1, <3>1, <1>4, MaxAttemptsNat DEF Attended
        <3>2. CASE ~ (j = i /\ token[u][i] = attempts[i])
            <4>1. status'[j] = status[j]
                BY <3>2, <1>4 DEF Owns
            <4>2. ASSUME NEW w \in Workers, Holding(w, j), token[w][j] = attempts[j]
                  PROVE  Holding(w, j)' /\ token'[w][j] = attempts'[j]
                BY <3>2, <4>2, <1>3, <1>4 DEF Holding
            <4> QED BY <2>1, <4>1, <4>2, <1>4 DEF JobInv, Attended
        <3> QED BY <3>1, <3>2
    <2> QED BY <2>1, <2>2, <1>1, <1>4 DEF JobInv, HolderInv, Holding, Owns, Present
<1> QED BY <1>2, <1>5, <1>6, <1>7

\* retryOrFail does not repeat its statement: the attempt is lost.
LEMMA RetryOrFailErrorStep ==
    ASSUME IInv, NEW u \in Workers, NEW i \in Jobs, RetryOrFailError(u, i)
    PROVE  IInv'
<1> USE OutboxAssumption DEF IInv
<1>1. /\ phase[u][i] = "erred"
      /\ token[u][i] \in 1 .. attempts[i]
    BY DEF RetryOrFailError, HolderInv, Holding
<1>2. TypeOK'
    BY ReturnMemory DEF RetryOrFailError, TypeOK, table
<1>3. \A w \in Workers, j \in Jobs :
            /\ phase'[w][j] = IF w = u /\ j = i THEN "idle" ELSE phase[w][j]
            /\ token'[w][j] = IF w = u /\ j = i THEN 0 ELSE token[w][j]
    BY ReturnMemory DEF RetryOrFailError
<1>4. \A j \in Jobs :
            /\ status'[j] = status[j] /\ attempts'[j] = attempts[j] /\ retryIn'[j] = retryIn[j]
            /\ delivered'[j] = delivered[j]
            /\ \A a : a \in lost'[j] <=> a \in lost[j] \/ (Owns(u, i) /\ j = i /\ a = token[u][i])
    BY DEF RetryOrFailError, TypeOK, table
<1>5. ASSUME NEW w \in Workers, NEW j \in Jobs PROVE HolderInv(w, j)'
    <2>1. HolderInv(w, j) /\ HolderInv(u, i)
        OBVIOUS
    <2>2. w # u /\ j = i /\ Holding(w, j) => token[w][j] # token[u][i]
        BY <1>1 DEF DistinctTokens, Holding
    <2> QED BY <2>1, <2>2, <1>1, <1>3, <1>4 DEF HolderInv, Holding, Owns, Present
<1>6. DistinctTokens'
    BY <1>1, <1>3 DEF DistinctTokens, Holding
<1>7. ASSUME NEW j \in Jobs PROVE JobInv(j)'
    <2>1. JobInv(j) /\ HolderInv(u, i) /\ attempts[j] \in Nat
        BY DEF TypeOK
    <2>2. Attended(j)'
        <3>1. CASE j = i /\ token[u][i] = attempts[i]
            BY <3>1, <1>4 DEF Attended, Owns, Present
        <3>2. CASE ~ (j = i /\ token[u][i] = attempts[i])
            BY <2>1, <3>2, <1>3, <1>4 DEF JobInv, Attended, Holding
        <3> QED BY <3>1, <3>2
    <2> QED BY <2>1, <2>2, <1>1, <1>4 DEF JobInv, HolderInv, Holding, Owns, Present
<1> QED BY <1>2, <1>5, <1>6, <1>7

(***************************************************************************)
(* The inductive invariant and the theorems.                               *)
(***************************************************************************)
\* The initial state satisfies the inductive invariant ...
LEMMA InitInv == Init => IInv
<1> SUFFICES ASSUME Init PROVE IInv
    OBVIOUS
<1>1. TypeOK
    BY OutboxAssumption DEF Init, TypeOK, Phases
<1>2. ASSUME NEW w \in Workers, NEW j \in Jobs PROVE ~ Holding(w, j)
    BY DEF Init, Holding
<1>3. ASSUME NEW j \in Jobs PROVE JobInv(j)
    BY MaxAttemptsNat DEF Init, JobInv, Attended
<1> QED BY <1>1, <1>2, <1>3 DEF IInv, HolderInv, DistinctTokens

\* ... and every step keeps it.
LEMMA StepInv == IInv /\ [Next]_vars => IInv'
<1> SUFFICES ASSUME IInv, [Next]_vars PROVE IInv'
    OBVIOUS
<1>1. CASE UNCHANGED vars
    BY <1>1 DEF vars, table, memory, IInv, TypeOK, HolderInv, Holding, DistinctTokens,
                JobInv, Attended
<1>2. ASSUME NEW j \in Jobs, Enqueue(j) \/ DeleteChannel(j) PROVE IInv'
    BY <1>2, EnqueueStep, DeleteChannelStep
<1>3. ASSUME NEW w \in Workers, Claim(w) \/ ClaimError(w) \/ Crash(w) PROVE IInv'
    BY <1>3, ClaimStep, ClaimErrorStep, CrashStep
<1>4. ASSUME NEW w \in Workers, NEW j \in Jobs, JobStep(w, j) PROVE IInv'
    BY <1>4, AcquireStep, SendOkStep, SendFailsStep, SendAmbiguousStep, MarkSentStep,
       MarkSentErrorStep, RetryOrFailStep, RetryOrFailErrorStep DEF JobStep
<1>5. CASE Tick \/ Stall \/ PurgeOld
    BY <1>5, TickStep, StallStep, PurgeOldStep
<1> QED BY <1>1, <1>2, <1>3, <1>4, <1>5 DEF Next

\* Hence it is an invariant of the specification.
LEMMA Inductive == Spec => []IInv
<1> QED BY InitInv, StepInv, PTL DEF Spec

\* Every column and every goroutine's memory keeps its type; in particular
\* markSent never makes more than markSentRetries calls.
THEOREM TypeCorrect == Spec => []TypeOK
<1>1. IInv => TypeOK
    BY DEF IInv
<1> QED BY <1>1, Inductive, PTL

\* Whatever the lease, the batch size and the number of workers, crashes, stalls
\* and failed writes: an attempt that reached the receiver and whose outcome was
\* not lost is the last one, so a second copy is never sent without a loss.
THEOREM NoSilentDuplicate == Spec => []DuplicateOnlyAfterLoss
<1>1. IInv => DuplicateOnlyAfterLoss
    BY DEF IInv, JobInv, DuplicateOnlyAfterLoss
<1> QED BY <1>1, Inductive, PTL

\* The delays of backoff() bound the attempts, but for the ones whose outcome was lost.
THEOREM AttemptsBounded == Spec => []AttemptsBeyondLimitAreLosses
<1>1. IInv => AttemptsBeyondLimitAreLosses
    BY DEF IInv, JobInv, AttemptsBeyondLimitAreLosses
<1> QED BY <1>1, Inductive, PTL

(***************************************************************************)
(* The refinement of the contract, its safety part.                        *)
(***************************************************************************)
Received == [j \in Jobs |-> delivered[j] # {}]

\* The contract sees only status and delivered.
LEMMA Unseen ==
    ASSUME UNCHANGED <<status, delivered>>
    PROVE  UNCHANGED Contract!contractVars
BY DEF Contract!contractVars

\* What reaches the receiver is a Receive of the contract.
LEMMA SendRefines ==
    ASSUME IInv, NEW u \in Workers, NEW i \in Jobs, phase[u][i] = "sending",
           delivered' = [delivered EXCEPT ![i] = @ \cup {token[u][i]}], UNCHANGED status
    PROVE  Contract!Receive(i)
<1>1. status[i] # "absent"
    BY DEF IInv, HolderInv, Holding, JobInv
<1>2. Received' = [Received EXCEPT ![i] = TRUE]
    BY DEF Received, IInv, TypeOK
<1> QED BY <1>1, <1>2 DEF Contract!Receive, Received

\* A row marked sent was pending and received, or is marked a second time.
LEMMA SentRefines ==
    ASSUME IInv, NEW u \in Workers, NEW i \in Jobs, phase[u][i] = "delivered", Owns(u, i),
           status' = [status EXCEPT ![i] = "sent"], UNCHANGED delivered
    PROVE  Contract!Confirm(i) \/ UNCHANGED Contract!contractVars
<1>1. delivered[i] # {}
    BY DEF IInv, HolderInv, Holding
<1>2. status[i] \in {"pending", "sent"}
    BY DEF IInv, HolderInv, Holding, Owns, Present
<1>3. CASE status[i] = "pending"
    BY <1>1, <1>3 DEF Contract!Confirm
<1>4. CASE status[i] = "sent"
    <2>1. status' = status
        BY <1>4 DEF IInv, TypeOK
    <2> QED BY <2>1, Unseen
<1> QED BY <1>2, <1>3, <1>4

\* The owner of a failed attempt finds its row pending, so no verdict is revised.
LEMMA RetryOrFailRefines ==
    ASSUME IInv, NEW u \in Workers, NEW i \in Jobs, RetryOrFail(u, i)
    PROVE  Contract!GiveUp(i) \/ UNCHANGED Contract!contractVars
<1>1. Owns(u, i) => status[i] = "pending"
    BY DEF RetryOrFail, IInv, HolderInv, Holding, Owns, Present
<1>2. CASE Owns(u, i) /\ status' = [status EXCEPT ![i] = "failed"]
    BY <1>1, <1>2 DEF Contract!GiveUp, RetryOrFail
<1>3. CASE Owns(u, i) /\ status' = [status EXCEPT ![i] = "pending"]
    <2>1. status' = status
        BY <1>1, <1>3 DEF IInv, TypeOK
    <2> QED BY <2>1, Unseen DEF RetryOrFail
<1>4. CASE UNCHANGED status
    BY <1>4, Unseen DEF RetryOrFail
<1> QED BY <1>2, <1>3, <1>4 DEF RetryOrFail

\* Every step of the outbox is a step of the contract or a stutter.
LEMMA StepRefines ==
    ASSUME IInv, [Next]_vars
    PROVE  [Contract!Next]_(Contract!contractVars)
<1>1. CASE UNCHANGED vars
    BY <1>1, Unseen DEF vars, table
<1>2. ASSUME NEW j \in Jobs, Enqueue(j) PROVE Contract!Accept(j)
    BY <1>2 DEF Enqueue, Contract!Accept
<1>3. ASSUME NEW j \in Jobs, DeleteChannel(j) PROVE Contract!Withdraw(j)
    BY <1>3 DEF DeleteChannel, Present, Contract!Withdraw
<1>4. ASSUME NEW w \in Workers, Claim(w) \/ ClaimError(w) \/ Crash(w)
      PROVE  UNCHANGED Contract!contractVars
    BY <1>4, Unseen DEF Claim, ClaimError, Lease, Crash, table
<1>5. ASSUME NEW w \in Workers, NEW j \in Jobs, JobStep(w, j)
      PROVE  \/ Contract!Receive(j) \/ Contract!Confirm(j) \/ Contract!GiveUp(j)
             \/ UNCHANGED Contract!contractVars
    <2>1. CASE Acquire(w, j) \/ SendFails(w, j) \/ RetryOrFailError(w, j)
        BY <2>1, Unseen DEF Acquire, SendFails, RetryOrFailError, table
    <2>2. CASE SendOk(w, j) \/ SendAmbiguous(w, j)
        BY <2>2, SendRefines DEF SendOk, SendAmbiguous, table
    <2>3. CASE MarkSent(w, j)
        BY <2>3, SentRefines, Unseen DEF MarkSent
    <2>4. ASSUME NEW applied \in BOOLEAN, MarkSentError(w, j, applied)
          PROVE  Contract!Confirm(j) \/ UNCHANGED Contract!contractVars
        BY <2>4, SentRefines, Unseen DEF MarkSentError
    <2>5. CASE RetryOrFail(w, j)
        BY <2>5, RetryOrFailRefines
    <2> QED BY <1>5, <2>1, <2>2, <2>3, <2>4, <2>5 DEF JobStep
<1>6. CASE Tick \/ Stall
    BY <1>6, Unseen DEF Tick, Stall, Elapse
<1>7. CASE PurgeOld
    <2>1. Contract!Forget(Purgeable)
        BY <1>7 DEF PurgeOld, Purgeable, Contract!Forget
    <2>2. Purgeable \in SUBSET Jobs
        BY DEF Purgeable
    <2> QED BY <2>1, <2>2 DEF Contract!Next
<1> QED BY <1>1, <1>2, <1>3, <1>4, <1>5, <1>6, <1>7 DEF Next, Contract!Next

\* The outbox implements the safety part of its callers' contract: a message is
\* reported sent only if it was received, verdicts are never revised, and only
\* verdicts are purged.
THEOREM ImplementsContract == Spec => Contract!Safety
<1>1. Init => Contract!Init
    BY DEF Init, Contract!Init
<1>2. IInv /\ [Next]_vars => [Contract!Next]_(Contract!contractVars)
    BY StepRefines
<1> QED BY <1>1, <1>2, Inductive, PTL DEF Spec, Contract!Safety

=============================================================================
