------------------------------ MODULE Batcher ------------------------------
(***************************************************************************)
(* internal/event/batcher.go and chbatch/isolate.go: the bounded buffer    *)
(* between ingest and ClickHouse, in the process that owns it.  Add runs   *)
(* in any goroutine; flush runs in one at a time, Run's and then Close's.  *)
(***************************************************************************)
EXTENDS Integers, Sequences, FiniteSets, SequencesExt

CONSTANTS
    Projects,
    Feeds,          \* sequences of rows that may come, with their kinds and projects
    MaxBuf,         \* maxBuf
    MaxBytes,       \* maxBufBytes
    BatchSize,
    PoisonThreshold,
    MaxUpsets       \* bound: failures that are not the rows' own

\* A row may be heavy, poison (refused with a code of poisonCHCodes) or odd (refused with
\* another error, or by Append).
Kinds == {"good", "heavy", "poison", "odd"}

ASSUME BatcherAssumption ==
    /\ Feeds # {} /\ \A f \in Feeds : f \in Seq([kind : Kinds, project : Projects])
    /\ {MaxBuf, MaxBytes, BatchSize, PoisonThreshold} \subseteq Nat \ {0}
    /\ MaxUpsets \in Nat

VARIABLES
    feed,       \* the rows to come
    added,      \* how many of them have come
    mode,       \* "run", "drain" (closeDrain) or "closed"
    buf,        \* Batcher.buf, oldest first
    bufBytes,
    failStreak,
    dropped,    \* Batcher.dropped
    reported,   \* what the onDrop sink was told
    phase,      \* flush is at: "idle", "insert" or "isolate"
    work,       \* the slices IsolatePoison has still to insert, in the order of its calls
    unresolved, refused, batchLen,
    (* ClickHouse *)
    written,    \* INSERTs of each row that were applied
    (* observations *)
    overflowed, poisoned, abandoned,
    doubtful,   \* rows of an INSERT that was applied and reported as failed
    upsets

Rows == DOMAIN feed

buffer == <<buf, bufBytes>>
counters == <<failStreak, dropped, reported>>
flushing == <<phase, work, unresolved, refused, batchLen>>
fates == <<overflowed, poisoned, abandoned, doubtful>>
batcherVars == <<feed, added, mode, buffer, counters, flushing, written, fates, upsets>>

\* eventBytes: a heavy row is over the ceiling by itself.
EventBytes(row) == IF row.kind = "heavy" THEN MaxBytes + 1 ELSE 1

\* The rows s of the feed f together.
Bytes(f, s) ==
    LET sum[k \in 0 .. Len(s)] == IF k = 0 THEN 0 ELSE sum[k - 1] + EventBytes(f[s[k]])
    IN  sum[Len(s)]

Flight == ToSet(unresolved) \cup UNION {ToSet(work[k]) : k \in DOMAIN work}
Waiting == ToSet(buf) \cup Flight

\* Fewer rows than a batch are odd: the code treats their errors as passing, so that a
\* whole batch of them stays in front of the buffer until it overflows.
BatcherInit ==
    /\ feed \in {f \in Feeds : Cardinality({i \in DOMAIN f : f[i].kind = "odd"}) < BatchSize}
    /\ added = 0 /\ mode = "run" /\ buf = <<>> /\ bufBytes = 0
    /\ failStreak = 0 /\ dropped = 0 /\ reported = 0
    /\ phase = "idle" /\ work = <<>> /\ unresolved = <<>> /\ refused = 0 /\ batchLen = 0
    /\ written = [i \in Rows |-> 0]
    /\ overflowed = {} /\ poisoned = {} /\ abandoned = {} /\ doubtful = {} /\ upsets = 0

Upset == upsets < MaxUpsets /\ upsets' = upsets + 1

Smaller(a, b) == IF a < b THEN a ELSE b

\* trimLocked: how many of the oldest rows of s go, by number and then by weight; the
\* weight leaves one.
Trim(s, bytes) ==
    Min({k \in 0 .. Len(s) :
            /\ Len(s) - k <= MaxBuf
            /\ Len(s) - k <= 1 \/ bytes - Bytes(feed, SubSeq(s, 1, k)) <= MaxBytes})

\* The buffer becomes s, weighing bytes, cut to its limits; lost rows were refused before.
\* The sink hears of rows that overflow only.
Refill(s, bytes, lost) ==
    LET drop == Trim(s, bytes)
        out == SubSeq(s, 1, drop)
    IN  /\ buf' = SubSeq(s, drop + 1, Len(s))
        /\ bufBytes' = bytes - Bytes(feed, out)
        /\ dropped' = dropped + drop + lost
        /\ reported' = reported + drop
        /\ overflowed' = overflowed \cup ToSet(out)

----------------------------------------------------------------------------
(* Add and flush                                                            *)

\* The kick only makes a flush come early; the ticker brings one anyway.
Add ==
    /\ mode # "closed" /\ added < Len(feed)
    /\ added' = added + 1
    /\ Refill(Append(buf, added + 1), bufBytes + EventBytes(feed[added + 1]), 0)
    /\ UNCHANGED <<feed, mode, failStreak, flushing, written, poisoned, abandoned, doubtful, upsets>>

\* flush takes the oldest rows ...
Take ==
    /\ mode # "closed" /\ phase = "idle" /\ buf # <<>>
    /\ LET n == Smaller(Len(buf), BatchSize)
           rest == SubSeq(buf, n + 1, Len(buf))
       IN  /\ work' = <<SubSeq(buf, 1, n)>> /\ batchLen' = n
           /\ buf' = rest /\ bufBytes' = Bytes(feed, rest)
    /\ phase' = "insert"
    /\ UNCHANGED <<feed, added, mode, counters, unresolved, refused, written, fates, upsets>>

Has(s, kind) == \E i \in ToSet(s) : feed[i].kind = kind
Insertable(s) == ~ Has(s, "poison") /\ ~ Has(s, "odd")
Store(s) == written' = [i \in Rows |-> written[i] + (IF i \in ToSet(s) THEN 1 ELSE 0)]

\* The ways an INSERT of s fails: IsServerDataError, or an error that may pass and is the
\* rows' own or not; the latter may have been applied.
FailsAsPoison(s) == Has(s, "poison") /\ UNCHANGED <<written, doubtful, upsets>>
FailsInPassing(s) ==
    \/ Has(s, "odd") /\ UNCHANGED <<written, doubtful, upsets>>
    \/ Upset /\ UNCHANGED <<written, doubtful>>
    \/ Upset /\ Insertable(s) /\ Store(s) /\ doubtful' = doubtful \cup ToSet(s)

Settle == phase' = "idle" /\ work' = <<>> /\ unresolved' = <<>> /\ refused' = 0 /\ batchLen' = 0

InsertOk ==
    /\ phase = "insert" /\ Insertable(work[1])
    /\ Store(work[1])
    /\ failStreak' = 0 /\ Settle
    /\ UNCHANGED <<feed, added, mode, buffer, dropped, reported, fates, upsets>>

\* IsolatePoison begins with the whole batch again.
Isolate(streak) ==
    /\ failStreak' = streak /\ phase' = "isolate"
    /\ UNCHANGED <<buffer, dropped, reported, overflowed, work, unresolved, refused, batchLen>>

\* A batch that failed goes behind what came since.
PutBackLast(s) == buf \o s

\* A batch that failed goes in front of what came since.
PutBack(s) == s \o buf

\* Passing failures alone never lead to the isolation.
PatientForever(streak) == FALSE

\* Failures in a row that end the patience.
OutOfPatience(streak) == streak >= PoisonThreshold

InsertFails ==
    /\ phase = "insert"
    /\ LET streak == Smaller(failStreak + 1, PoisonThreshold)
       IN  \/ FailsAsPoison(work[1]) /\ Isolate(streak)
           \/ /\ FailsInPassing(work[1])
              /\ IF OutOfPatience(streak) THEN Isolate(streak)
                 ELSE /\ failStreak' = streak /\ Settle
                      /\ Refill(PutBack(work[1]), Bytes(feed, PutBack(work[1])), 0)
    /\ UNCHANGED <<feed, added, mode, poisoned, abandoned>>

----------------------------------------------------------------------------
(* IsolatePoison                                                            *)

\* One slice is inserted.
SliceOk ==
    /\ phase = "isolate" /\ work # <<>> /\ Insertable(work[1])
    /\ Store(work[1])
    /\ work' = Tail(work)
    /\ UNCHANGED <<feed, added, mode, buffer, counters, phase, unresolved, refused, batchLen, fates, upsets>>

\* The halves share the row in the middle.
HalvesOverlap(s) == LET mid == Len(s) \div 2 IN <<SubSeq(s, 1, mid), SubSeq(s, mid, Len(s))>>

Halves(s) == LET mid == Len(s) \div 2 IN <<SubSeq(s, 1, mid), SubSeq(s, mid + 1, Len(s))>>

\* A row alone that fails is refused, whatever the error.
RefuseAny(poison) == TRUE

\* A row alone that fails is refused as poison, or kept.
Refuse(poison) == poison

\* A slice fails: it is halved, or its only row is refused or kept.
SliceFails(poison) ==
    /\ phase = "isolate" /\ work # <<>>
    /\ IF poison THEN FailsAsPoison(work[1]) ELSE FailsInPassing(work[1])
    /\ \/ /\ Len(work[1]) > 1
          /\ work' = Halves(work[1]) \o Tail(work)
          /\ UNCHANGED <<unresolved, refused, poisoned>>
       \/ /\ Len(work[1]) = 1 /\ Refuse(poison)
          /\ work' = Tail(work) /\ refused' = refused + 1
          /\ poisoned' = poisoned \cup ToSet(work[1])
          /\ UNCHANGED unresolved
       \/ /\ Len(work[1]) = 1 /\ ~ Refuse(poison)
          /\ work' = Tail(work) /\ unresolved' = unresolved \o work[1]
          /\ UNCHANGED <<refused, poisoned>>
    /\ UNCHANGED <<feed, added, mode, buffer, counters, phase, batchLen, overflowed, abandoned>>

\* The deadline of the flush passes: every slice left comes back.
Deadline ==
    /\ phase = "isolate" /\ work # <<>> /\ Upset
    /\ unresolved' = unresolved \o FlattenSeq(work) /\ work' = <<>>
    /\ UNCHANGED <<feed, added, mode, buffer, counters, phase, refused, batchLen, written, fates>>

Isolated ==
    /\ phase = "isolate" /\ work = <<>>
    /\ failStreak' = IF refused > 0 \/ Len(unresolved) < batchLen THEN 0 ELSE failStreak
    /\ Refill(PutBack(unresolved), Bytes(feed, PutBack(unresolved)), refused)
    /\ Settle
    /\ UNCHANGED <<feed, added, mode, written, poisoned, abandoned, doubtful, upsets>>

----------------------------------------------------------------------------
(* Close                                                                    *)

\* Run returns between two flushes, closeDrain goes on with them.
Close ==
    /\ mode = "run" /\ phase = "idle"
    /\ mode' = "drain"
    /\ UNCHANGED <<feed, added, buffer, counters, flushing, written, fates, upsets>>

Abandon ==
    /\ mode' = "closed" /\ buf' = <<>> /\ bufBytes' = 0 /\ Settle
    /\ abandoned' = abandoned \cup Waiting
    /\ UNCHANGED <<feed, added, counters, written, overflowed, poisoned, doubtful>>

\* closeDrain returns: the buffer is empty, or ctx ended after a flush that failed.
Drained ==
    /\ mode = "drain" /\ phase = "idle"
    /\ buf = <<>> \/ failStreak > 0
    /\ Abandon /\ UNCHANGED upsets

\* ctx ends too early, or the process dies.
Crash ==
    /\ mode # "closed" /\ Upset
    /\ Abandon

Flush ==
    \/ Take \/ InsertOk \/ InsertFails \/ SliceOk
    \/ \E poison \in BOOLEAN : SliceFails(poison)
    \/ Isolated

----------------------------------------------------------------------------
(* Properties                                                               *)

\* Where a row that came may be.
Fates(i) ==
    (IF i \in Waiting THEN {"waiting"} ELSE {}) \cup (IF written[i] > 0 THEN {"written"} ELSE {})
    \cup (IF i \in overflowed THEN {"overflowed"} ELSE {})
    \cup (IF i \in poisoned THEN {"poisoned"} ELSE {})
    \cup (IF i \in abandoned THEN {"abandoned"} ELSE {})

\* Through retries, halvings, returns to a full buffer and the drain no row vanishes, and
\* none is in two places or written twice, unless an INSERT that was applied came back
\* as failed.
Accounted ==
    \A i \in 1 .. added :
        /\ Fates(i) # {}
        /\ i \notin doubtful => Cardinality(Fates(i)) = 1 /\ written[i] <= 1

\* dropped counts every row that overflowed or was refused, and only poison is refused;
\* the sink heard of all that overflowed; the weight, which Add and trimLocked keep by
\* addition, is the weight of the buffer.
DropsAddUp ==
    /\ mode # "closed" => dropped + refused = Cardinality(overflowed) + Cardinality(poisoned)
    /\ \A i \in poisoned : feed[i].kind = "poison"
    /\ reported = Cardinality(overflowed)
    /\ bufBytes = Bytes(feed, buf)

\* Batches that return meet rows that came meanwhile: the buffer stays in order of
\* arrival, so that what overflows is the oldest, and within its limits, but for one row
\* that is too heavy alone.
BufferInOrder ==
    LET s == unresolved \o FlattenSeq(work) \o buf
    IN  /\ \A j, k \in DOMAIN s : j < k => s[j] < s[k]
        /\ Len(buf) <= MaxBuf /\ (bufBytes > MaxBytes => Len(buf) = 1)

\* Rows that ClickHouse takes do not wait for ever, also next to rows it never takes.
BufferDrains == []<>(\A i \in Waiting : feed[i].kind = "odd")
=============================================================================
