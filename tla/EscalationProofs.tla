-------------------------- MODULE EscalationProofs --------------------------
(***************************************************************************)
(* Proofs about Escalation for any schedulers, evaluators and channels,    *)
(* any ladder, any gates and any bounds.                                   *)
(***************************************************************************)
EXTENDS Escalation, TLAPS

AtStep(p) ==
    /\ pc[p] \in {"claim", "notify", "bump"} \/ won[p] # {} => seen[p].level \in Steps
    /\ pc[p] \notin {"notify", "bump"} => won[p] = {} /\ enqueued[p] = {}
    /\ pc[p] = "notify" => todo[p] \subseteq won[p] \ enqueued[p] /\ enqueued[p] \subseteq won[p]

\* Nobody works on an incident that has not opened, or that closed a retention ago.
Settled ==
    /\ status = "none" => Idle /\ log = {}
    /\ resolvedOld => Idle /\ status = "resolved"

TypeInv == TypeOK /\ (\A p \in Procs : AtStep(p)) /\ Settled

\* p has claimed the channel for the step and has not enqueued the alarm.
Owes(p, s, c) == pc[p] = "notify" /\ seen[p].level = s /\ c \in won[p] \ enqueued[p]

Quiet(s, c) == alarms[<<s, c>>] = 0 \/ <<s, c>> \in doubtful

\* A row of the log is a claim of one process, or has done its duty; without a row there
\* was no alarm.
ClaimInv ==
    /\ \A p \in Procs, s \in Steps, c \in Channels : Owes(p, s, c) =>
        /\ <<s, c>> \in log /\ Quiet(s, c)
        /\ \A q \in Procs : Owes(q, s, c) => q = p
    /\ ~ resolvedOld => \A s \in Steps, c \in Channels : <<s, c>> \notin log => Quiet(s, c)
    /\ NoDoubleAlarm

Told(s, c) == alarms[<<s, c>>] > 0 \/ <<s, c>> \in excused

Covered(s) ==
    \/ StepChannels(s) = {}
    \/ \E c \in Channels : Told(s, c)
    \/ \E p \in Procs : pc[p] = "notify" /\ seen[p].level = s

\* Whoever passes a step, or is about to, leaves somebody told or at it.
CoverInv ==
    /\ \A s \in Steps, c \in Channels : <<s, c>> \in log =>
        Told(s, c) \/ \E p \in Procs : Owes(p, s, c)
    /\ \A p \in Procs : pc[p] = "notify" =>
        won[p] # {} /\ \A c \in won[p] : c \in todo[p] \/ Told(seen[p].level, c)
    /\ \A p \in Procs : pc[p] = "bump" => Covered(seen[p].level)
    /\ \A s \in Steps : s < level => Covered(s)

\* Nobody is ahead of the ladder, nor of the acknowledgement.
AckInv ==
    /\ \A p \in Procs : seen[p].level <= level /\ (acked => seen[p].level <= ackedAt)
    /\ \A s \in Steps, c \in Channels : alarms[<<s, c>>] > 0 => s <= level /\ (acked => s <= ackedAt)
    /\ acked => level <= ackedAt + 1

IInv == TypeInv /\ ClaimInv /\ CoverInv /\ AckInv

-----------------------------------------------------------------------------
(* Types and the memory of a process.                                       *)

Seen == [level : Levels, elapsed : 0 .. MaxElapsed]

Stages == {"idle", "clear", "gate", "suppress", "claim", "notify", "bump", "recover", "recovering"}

\* The types of the processes' memory.
MemoryOK ==
    /\ pc \in [Procs -> Stages] /\ seen \in [Procs -> Seen]
    /\ won \in [Procs -> SUBSET Channels] /\ todo \in [Procs -> SUBSET Channels]
    /\ enqueued \in [Procs -> SUBSET Channels] /\ failed \in [Procs -> BOOLEAN]

\* The types of what the processes share.
SharedOK ==
    /\ status \in {"none", "open", "resolved"}
    /\ acked \in BOOLEAN /\ suppressed \in BOOLEAN
    /\ level \in Levels /\ elapsed \in 0 .. MaxElapsed
    /\ log \subseteq Steps \X Channels /\ oldRows \subseteq Steps \X Channels
    /\ resolvedOld \in BOOLEAN
    /\ <<maint, parent>> \in Gates
    /\ alarms \in [Steps \X Channels -> Nat]
    /\ recovered \subseteq Channels /\ early \subseteq Channels
    /\ excused \subseteq Steps \X Channels /\ doubtful \subseteq Steps \X Channels
    /\ released \subseteq Steps \X Channels
    /\ ackedAt \in Levels /\ faults \in 0 .. MaxFaults

\* The two parts of TypeOK.
LEMMA TypeParts == TypeOK <=> SharedOK /\ MemoryOK
BY DEF TypeOK, SharedOK, MemoryOK, Seen, Stages

\* The ladder's levels and the channels of its steps.
LEMMA LadderFacts ==
    /\ Len(Ladder) \in Nat /\ 0 \in Levels /\ Steps \subseteq Levels /\ Levels \subseteq Nat
    /\ \A s \in Steps : s + 1 \in Levels /\ StepChannels(s) \subseteq Channels
    /\ \A n \in Levels : n < Len(Ladder) => n \in Steps
<1> DEFINE Rung == [delay : Nat, channels : SUBSET Channels]
<1>1. Len(Ladder) \in Nat /\ \A i \in 1 .. Len(Ladder) : Ladder[i] \in Rung
    <2>1. Ladder \in Seq(Rung)
        BY EscalationAssumption
    <2> HIDE DEF Rung
    <2> QED BY <2>1
<1>2. \A s \in Steps : StepChannels(s) \subseteq Channels
    <2> SUFFICES ASSUME NEW s \in Steps PROVE StepChannels(s) \subseteq Channels
        OBVIOUS
    <2>1. s + 1 \in 1 .. Len(Ladder)
        BY <1>1 DEF Steps
    <2> QED BY <1>1, <2>1 DEF StepChannels
<1> QED BY <1>1, <1>2 DEF Levels, Steps

\* Every other process keeps its memory.
Others(p) ==
    \A q \in Procs \ {p} : /\ pc'[q] = pc[q] /\ seen'[q] = seen[q] /\ won'[q] = won[q]
                           /\ todo'[q] = todo[q] /\ enqueued'[q] = enqueued[q]

\* A process that is done with the incident remembers nothing.
LEMMA FinishEffect ==
    ASSUME MemoryOK, NEW p \in Procs, Finish(p)
    PROVE  /\ MemoryOK' /\ Others(p)
           /\ pc'[p] = "idle" /\ seen'[p].level = 0 /\ won'[p] = {} /\ todo'[p] = {} /\ enqueued'[p] = {}
<1> USE DEF MemoryOK
<1>1. Nothing \in Seen /\ Nothing.level = 0
    BY LadderFacts, EscalationAssumption DEF Nothing, Seen
<1>2. pc' \in [Procs -> Stages] /\ pc'[p] = "idle" /\ \A q \in Procs \ {p} : pc'[q] = pc[q]
    BY DEF Finish, Goto, Stages
<1>3. seen' \in [Procs -> Seen] /\ seen'[p] = Nothing /\ \A q \in Procs \ {p} : seen'[q] = seen[q]
    BY <1>1 DEF Finish
<1>4. /\ won' \in [Procs -> SUBSET Channels] /\ todo' \in [Procs -> SUBSET Channels]
      /\ enqueued' \in [Procs -> SUBSET Channels] /\ failed' \in [Procs -> BOOLEAN]
      /\ won'[p] = {} /\ todo'[p] = {} /\ enqueued'[p] = {}
      /\ \A q \in Procs \ {p} : won'[q] = won[q] /\ todo'[q] = todo[q] /\ enqueued'[q] = enqueued[q]
    BY DEF Finish
<1> QED BY <1>1, <1>2, <1>3, <1>4 DEF Others

\* A process that goes on keeps what it remembers.
LEMMA MoveEffect ==
    ASSUME MemoryOK, NEW p \in Procs, NEW l \in Stages, Move(p, l)
    PROVE  /\ MemoryOK' /\ Others(p)
           /\ pc'[p] = l /\ seen'[p] = seen[p] /\ won'[p] = won[p] /\ enqueued'[p] = enqueued[p]
           /\ todo'[p] = todo[p]
BY DEF MemoryOK, Move, Goto, Others

\* The head of SendStepIfDue ends, or goes on at a step of the ladder.
LEMMA SendEffect ==
    ASSUME MemoryOK, NEW p \in Procs, SendStepIfDue(p)
    PROVE  /\ MemoryOK' /\ Others(p)
           /\ \/ Finish(p) /\ pc'[p] = "idle" /\ seen'[p].level = 0 /\ won'[p] = {} /\ enqueued'[p] = {}
              \/ /\ pc'[p] \in {"bump", "claim"} /\ seen'[p] = seen[p] /\ seen[p].level \in Steps
                 /\ won'[p] = won[p] /\ enqueued'[p] = enqueued[p]
                 /\ pc'[p] = "bump" => StepChannels(seen[p].level) = {}
<1>1. CASE ~ Due(p)
    BY <1>1, FinishEffect DEF SendStepIfDue
<1>2. CASE Due(p)
    <2>1. seen[p].level \in Steps
        BY <1>2, LadderFacts DEF Due, MemoryOK, Seen
    <2>2. CASE StepChannels(seen[p].level) = {}
        BY <1>2, <2>1, <2>2, MoveEffect DEF SendStepIfDue, Stages
    <2>3. CASE StepChannels(seen[p].level) # {}
        BY <1>2, <2>1, <2>3, MoveEffect DEF SendStepIfDue, Stages
    <2> QED BY <2>2, <2>3
<1> QED BY <1>1, <1>2

\* A process at work has an open incident, or one that closed lately.
LEMMA Working ==
    ASSUME TypeInv, NEW p \in Procs, pc[p] # "idle" \/ status = "open"
    PROVE  status # "none" /\ ~ resolvedOld
BY DEF TypeInv, Settled, Idle

\* What is left to show of a step of p.
LEMMA TypePut ==
    ASSUME TypeInv, NEW p \in Procs, SharedOK', MemoryOK', Others(p), AtStep(p)',
           status' # "none", ~ resolvedOld'
    PROVE  TypeInv'
<1>1. TypeOK'
    BY TypeParts DEF SharedOK, MemoryOK, TypeOK, Seen, Stages
<1>2. \A q \in Procs : AtStep(q)'
    BY DEF TypeInv, AtStep, Others
<1> QED BY <1>1, <1>2 DEF TypeInv, Settled

\* p takes a step that has nothing to do with claims and alarms.
Elsewhere(p) ==
    /\ Others(p) /\ pc[p] # "notify" /\ pc'[p] # "notify"
    /\ pc'[p] = "bump" => StepChannels(seen'[p].level) = {}
    /\ seen'[p].level \in {0, seen[p].level} \/ (seen'[p].level = level /\ ~ acked)
    /\ UNCHANGED <<acked, level, log, resolvedOld, alarms, excused, doubtful, ackedAt>>

\* Opening, gates, suppression, recovery and a bump that fails.
LEMMA ElsewhereStep ==
    ASSUME TypeInv, NEW p \in Procs,
           \/ Open(p) \/ OpenUngated(p) \/ ReleaseSuppressed(p) \/ ClearSuppressed(p)
           \/ OpenUnacked(p) \/ Gate(p) \/ GateError(p) \/ MarkSuppressed(p)
           \/ Resolve(p) \/ ReadRecovery(p) \/ (\E c \in Channels : NotifyRecovery(p, c))
           \/ BumpError(p)
    PROVE  TypeInv' /\ Elsewhere(p)
<1> USE DEF incident, journal, gates, memory, observed
<1>1. SharedOK /\ MemoryOK /\ AtStep(p)
    BY TypeParts DEF TypeInv
<1>2. SharedOK'
    <2> USE DEF Open, OpenUngated, ReleaseSuppressed, ClearSuppressed, OpenUnacked, Gate, GateError,
                MarkSuppressed, Resolve, ReadRecovery, NotifyRecovery, BumpError, Fault
    <2>1. UNCHANGED <<acked, level, log, oldRows, resolvedOld, maint, parent, alarms, excused,
                      doubtful, released, ackedAt>>
        OBVIOUS
    <2>2. status' = status \/ status' \in {"open", "resolved"}
        OBVIOUS
    <2>3. suppressed' = suppressed \/ suppressed' \in BOOLEAN
        OBVIOUS
    <2>4. elapsed' \in {0, elapsed}
        OBVIOUS
    <2>5. faults' = faults \/ (faults < MaxFaults /\ faults' = faults + 1)
        OBVIOUS
    <2>6. recovered' \subseteq Channels /\ early' \subseteq Channels
        <3>1. recovered \subseteq Channels /\ early \subseteq Channels
            BY <1>1 DEF SharedOK
        <3>2. ASSUME NEW c \in Channels, NotifyRecovery(p, c) PROVE <2>6
            BY <3>1, <3>2
        <3> QED BY <3>1, <3>2
    <2>7. faults' \in 0 .. MaxFaults /\ elapsed' \in 0 .. MaxElapsed
        BY <1>1, <2>4, <2>5, EscalationAssumption DEF SharedOK
    <2> QED BY <1>1, <2>1, <2>2, <2>3, <2>6, <2>7 DEF SharedOK
<1>3. status' # "none" /\ ~ resolvedOld'
    <2>1. CASE Open(p) \/ OpenUngated(p)
        BY <2>1 DEF Open, OpenUngated, TypeInv, Settled
    <2>2. CASE ReleaseSuppressed(p) \/ OpenUnacked(p) \/ Resolve(p)
        BY <2>2, Working DEF ReleaseSuppressed, OpenUnacked, Resolve, Pending
    <2>3. CASE ClearSuppressed(p) \/ Gate(p) \/ GateError(p) \/ MarkSuppressed(p)
        BY <2>3, Working DEF ClearSuppressed, Gate, GateError, MarkSuppressed
    <2>4. CASE ReadRecovery(p) \/ (\E c \in Channels : NotifyRecovery(p, c)) \/ BumpError(p)
        BY <2>4, Working DEF ReadRecovery, NotifyRecovery, BumpError
    <2> QED BY <2>1, <2>2, <2>3, <2>4
<1>4. UNCHANGED <<acked, level, log, resolvedOld, alarms, excused, doubtful, ackedAt>>
    BY DEF Open, OpenUngated, ReleaseSuppressed, ClearSuppressed, OpenUnacked, Gate, GateError,
           MarkSuppressed, Resolve, ReadRecovery, NotifyRecovery, BumpError
<1>5. pc[p] \in {"idle", "clear", "gate", "suppress", "recover", "recovering", "bump"}
    BY DEF Open, OpenUngated, ReleaseSuppressed, ClearSuppressed, OpenUnacked, Gate, GateError,
           MarkSuppressed, Resolve, ReadRecovery, NotifyRecovery, BumpError
<1> DEFINE Fine ==
        /\ MemoryOK' /\ Others(p) /\ pc'[p] # "notify" /\ AtStep(p)'
        /\ pc'[p] = "bump" => StepChannels(seen'[p].level) = {}
        /\ seen'[p].level \in {0, seen[p].level} \/ (seen'[p].level = level /\ ~ acked)
<1>6. Fine
    <2>1. CASE Finish(p)
        BY <1>1, <2>1, FinishEffect DEF AtStep
    <2>2. CASE SendStepIfDue(p) /\ pc[p] \in {"idle", "gate"}
        <3>1. won[p] = {} /\ enqueued[p] = {}
            BY <1>1, <2>2 DEF AtStep
        <3> QED BY <1>1, <2>2, <3>1, SendEffect DEF AtStep
    <2>3. ASSUME NEW l \in {"clear", "suppress", "recover"}, Move(p, l), pc[p] \in {"idle", "gate"}
          PROVE  Fine
        <3>1. l \in Stages /\ won[p] = {} /\ enqueued[p] = {}
            BY <1>1, <2>3 DEF AtStep, Stages
        <3> QED BY <1>1, <2>3, <3>1, MoveEffect DEF AtStep
    <2>4. CASE OpenUnacked(p)
        <3>1. [level |-> level, elapsed |-> elapsed] \in Seen
            BY <1>1 DEF SharedOK, Seen
        <3>2. won[p] = {} /\ enqueued[p] = {}
            BY <1>1, <2>4 DEF AtStep, OpenUnacked
        <3>3. seen' \in [Procs -> Seen] /\ seen'[p].level = level /\ \A q \in Procs \ {p} : seen'[q] = seen[q]
            BY <1>1, <2>4, <3>1 DEF MemoryOK, OpenUnacked
        <3>4. pc' \in [Procs -> Stages] /\ pc'[p] = "gate" /\ \A q \in Procs \ {p} : pc'[q] = pc[q]
            BY <1>1, <2>4 DEF MemoryOK, OpenUnacked, Goto, Stages
        <3> QED BY <1>1, <2>4, <3>2, <3>3, <3>4 DEF MemoryOK, Others, OpenUnacked, AtStep, Pending
    <2>5. CASE memory' = memory /\ pc[p] = "idle"
        BY <1>1, <2>5 DEF MemoryOK, Others, AtStep
    <2>6. ASSUME NEW S \in SUBSET Channels, todo' = [todo EXCEPT ![p] = S],
                 pc' = pc \/ Goto(p, "recovering"), pc[p] \in {"recover", "recovering"},
                 UNCHANGED <<seen, won, enqueued, failed>>
          PROVE  Fine
        BY <1>1, <2>6 DEF MemoryOK, Others, AtStep, Goto, Stages
    <2> HIDE DEF Fine
    <2>7. CASE Open(p) \/ OpenUngated(p)
        BY <2>2, <2>5, <2>7 DEF Open, OpenUngated
    <2>8. CASE ReleaseSuppressed(p) \/ ClearSuppressed(p) \/ MarkSuppressed(p) \/ Resolve(p) \/ BumpError(p)
        BY <2>1, <2>3, <2>8 DEF ReleaseSuppressed, ClearSuppressed, MarkSuppressed, Resolve, BumpError
    <2>9. CASE Gate(p) \/ GateError(p)
        BY <2>1, <2>2, <2>3, <2>9 DEF Gate, GateError
    <2>10. CASE ReadRecovery(p)
        <3>1. RecoveryChannels \in SUBSET Channels
            BY DEF RecoveryChannels
        <3> QED BY <2>1, <2>6, <2>10, <3>1 DEF ReadRecovery
    <2>11. ASSUME NEW c \in Channels, NotifyRecovery(p, c) PROVE Fine
        <3>1. todo[p] \ {c} \in SUBSET Channels
            BY <1>1 DEF MemoryOK
        <3> QED BY <2>1, <2>6, <2>11, <3>1 DEF NotifyRecovery
    <2> QED BY <2>4, <2>7, <2>8, <2>9, <2>10, <2>11
<1> QED BY <1>2, <1>3, <1>4, <1>5, <1>6, TypePut DEF Elsewhere

\* The INSERT: p has the channels that nobody had claimed for the step.
LEMMA ClaimEffect ==
    ASSUME TypeInv, NEW p \in Procs, ClaimStepChannels(p)
    PROVE  /\ TypeInv' /\ Others(p) /\ pc[p] = "claim"
           /\ seen[p].level \in Steps /\ Winnable(p) \subseteq Channels
           /\ pc'[p] = AfterClaim(p) /\ seen'[p] = seen[p]
           /\ won'[p] = Winnable(p) /\ todo'[p] = Winnable(p) /\ enqueued'[p] = {}
           /\ log' = log \cup Rows(seen[p].level, Winnable(p))
           /\ UNCHANGED <<incident, resolvedOld, observed>>
<1>1. SharedOK /\ MemoryOK /\ AtStep(p)
    BY TypeParts DEF TypeInv
<1>2. seen[p].level \in Steps /\ pc[p] = "claim" /\ won[p] = {} /\ enqueued[p] = {}
    BY <1>1 DEF AtStep, ClaimStepChannels
<1>3. Winnable(p) \in SUBSET Channels
    BY <1>2, LadderFacts DEF Winnable
<1>4. Rows(seen[p].level, Winnable(p)) \subseteq Steps \X Channels
    BY <1>2, <1>3 DEF Rows
<1>5. AfterClaim(p) \in Stages /\ AfterClaim(p) \in {"bump", "notify"}
    BY DEF AfterClaim, Stages
<1>6. MemoryOK' /\ Others(p) /\ pc'[p] = AfterClaim(p) /\ won'[p] = Winnable(p) /\ todo'[p] = Winnable(p)
    BY <1>1, <1>3, <1>5 DEF ClaimStepChannels, Goto, MemoryOK, Others
<1>7. UNCHANGED <<incident, oldRows, resolvedOld, gates, seen, enqueued, failed, observed>>
    BY DEF ClaimStepChannels
<1>8. log' = log \cup Rows(seen[p].level, Winnable(p))
    BY DEF ClaimStepChannels
<1>9. SharedOK'
    BY <1>1, <1>4, <1>7, <1>8 DEF SharedOK, incident, gates, observed
<1>10. AtStep(p)'
    BY <1>2, <1>5, <1>6, <1>7 DEF AtStep
<1>11. status' # "none" /\ ~ resolvedOld'
    BY <1>2, <1>7, Working DEF incident
<1> QED BY <1>2, <1>3, <1>6, <1>7, <1>8, <1>9, <1>10, <1>11, TypePut

\* The dispatch of one channel, whether the alarm is enqueued, skipped or fails.
LEMMA NotifyEffect ==
    ASSUME TypeInv, NEW p \in Procs, NEW c \in Channels,
           \/ NotifyStep(p, c) \/ NotifySkips(p, c)
           \/ \E applied \in BOOLEAN : NotifyError(p, c, applied)
    PROVE  /\ TypeInv' /\ Others(p) /\ pc[p] = "notify" /\ pc'[p] = "notify"
           /\ seen[p].level \in Steps /\ seen'[p] = seen[p] /\ won'[p] = won[p]
           /\ c \in todo[p] /\ c \in won[p] \ enqueued[p] /\ todo'[p] = todo[p] \ {c}
           /\ enqueued'[p] = IF NotifyStep(p, c) THEN enqueued[p] \cup {c} ELSE enqueued[p]
           /\ \A r \in Steps \X Channels : alarms'[r] = alarms[r] \/ (r = <<seen[p].level, c>> /\ alarms'[r] = alarms[r] + 1)
           /\ UNCHANGED <<incident, journal, ackedAt>>
<1> DEFINE r0 == <<seen[p].level, c>>
<1>1. SharedOK /\ MemoryOK /\ AtStep(p)
    BY TypeParts DEF TypeInv
<1>2. pc[p] = "notify" /\ c \in todo[p]
    BY DEF NotifyStep, NotifySkips, NotifyError
<1>3. seen[p].level \in Steps /\ c \in won[p] \ enqueued[p] /\ todo[p] \subseteq won[p] \ enqueued[p]
      /\ enqueued[p] \subseteq won[p]
    BY <1>1, <1>2 DEF AtStep
<1>4. r0 \in Steps \X Channels
    BY <1>3
<1>5. UNCHANGED <<incident, journal, gates, pc, seen, won, recovered, early, released, ackedAt>>
    BY DEF NotifyStep, NotifySkips, NotifyError
<1>6. todo' = [todo EXCEPT ![p] = @ \ {c}]
    BY DEF NotifyStep, NotifySkips, NotifyError
<1>7. enqueued' = enqueued \/ enqueued' = [enqueued EXCEPT ![p] = @ \cup {c}]
    BY DEF NotifyStep, NotifySkips, NotifyError
<1>8. enqueued'[p] = IF NotifyStep(p, c) THEN enqueued[p] \cup {c} ELSE enqueued[p]
    BY <1>1 DEF NotifyStep, NotifySkips, NotifyError, MemoryOK
<1>9. failed' \in [Procs -> BOOLEAN]
    <2>1. failed' = failed \/ failed' = [failed EXCEPT ![p] = TRUE]
        BY DEF NotifyStep, NotifySkips, NotifyError
    <2> QED BY <1>1, <2>1 DEF MemoryOK
<1>10. MemoryOK' /\ Others(p) /\ todo'[p] = todo[p] \ {c} /\ enqueued'[p] \subseteq enqueued[p] \cup {c}
    BY <1>1, <1>5, <1>6, <1>7, <1>9 DEF MemoryOK, Others
<1>11. alarms' = alarms \/ alarms' = [alarms EXCEPT ![r0] = @ + 1]
    BY DEF NotifyStep, NotifySkips, NotifyError
<1> HIDE DEF r0
<1>12. /\ alarms' \in [Steps \X Channels -> Nat]
       /\ \A r \in Steps \X Channels : alarms'[r] = alarms[r] \/ (r = r0 /\ alarms'[r] = alarms[r] + 1)
    BY <1>1, <1>4, <1>11 DEF SharedOK
<1>13. excused' \subseteq excused \cup {r0} /\ doubtful' \subseteq doubtful \cup {r0}
    BY DEF NotifyStep, NotifySkips, NotifyError, r0
<1>14. faults' \in 0 .. MaxFaults
    <2>1. faults' = faults \/ (faults < MaxFaults /\ faults' = faults + 1)
        BY DEF NotifyStep, NotifySkips, NotifyError, Fault
    <2> QED BY <1>1, <2>1, EscalationAssumption DEF SharedOK
<1>15. SharedOK'
    BY <1>1, <1>4, <1>5, <1>12, <1>13, <1>14 DEF SharedOK, incident, journal, gates
<1>16. AtStep(p)'
    <2>1. todo'[p] \subseteq won[p] \ enqueued'[p] /\ enqueued'[p] \subseteq won[p]
        BY <1>3, <1>10
    <2> QED BY <1>2, <1>3, <1>5, <2>1 DEF AtStep
<1>17. status' # "none" /\ ~ resolvedOld'
    BY <1>2, <1>5, Working DEF incident, journal
<1> QED BY <1>2, <1>3, <1>5, <1>8, <1>10, <1>12, <1>15, <1>16, <1>17, TypePut DEF r0

\* p leaves a step: with an error, after the release, with the bump, or by a crash.
Leave(p) ==
    \/ (\E applied \in BOOLEAN : ClaimError(p, applied))
    \/ ReleaseStepChannels(p) \/ ReleaseError(p) \/ BumpEscalation(p) \/ Crash(p)

LEMMA LeaveEffect ==
    ASSUME TypeInv, NEW p \in Procs, Leave(p)
    PROVE  /\ TypeInv' /\ Others(p) /\ pc[p] # "idle" /\ pc'[p] \in {"idle", "bump"}
           /\ pc'[p] = "bump" => pc[p] = "notify" /\ todo[p] = {} /\ seen'[p] = seen[p]
           /\ seen'[p].level \in {0, seen[p].level}
           /\ excused \subseteq excused'
           /\ UNCHANGED <<status, acked, alarms, doubtful, resolvedOld, ackedAt>>
<1> USE DEF incident, journal, gates, observed
<1>1. SharedOK /\ MemoryOK /\ AtStep(p)
    BY TypeParts DEF TypeInv
<1>2. pc[p] # "idle"
    BY DEF Leave, ClaimError, ReleaseStepChannels, ReleaseError, BumpEscalation, Crash
<1>3. UNCHANGED <<status, acked, suppressed, elapsed, oldRows, resolvedOld, gates, alarms, recovered,
                  early, doubtful, ackedAt>>
    BY DEF Leave, ClaimError, ReleaseStepChannels, ReleaseError, BumpEscalation, Crash
<1>4. Unsent(p) \subseteq Steps \X Channels
    BY <1>1 DEF Unsent, Rows, AtStep, MemoryOK
<1>5. pc[p] = "claim" => Rows(seen[p].level, Winnable(p)) \subseteq Steps \X Channels
    <2> SUFFICES ASSUME pc[p] = "claim"
                 PROVE  Rows(seen[p].level, Winnable(p)) \subseteq Steps \X Channels
        OBVIOUS
    <2>1. seen[p].level \in Steps
        BY <1>1 DEF AtStep
    <2>2. Winnable(p) \subseteq Channels
        BY <2>1, LadderFacts DEF Winnable
    <2> QED BY <2>1, <2>2 DEF Rows
<1>6. log' \subseteq Steps \X Channels /\ excused' \subseteq Steps \X Channels /\ excused \subseteq excused'
    <2>1. log \subseteq Steps \X Channels /\ excused \subseteq Steps \X Channels
        BY <1>1 DEF SharedOK
    <2>2. ASSUME NEW applied \in BOOLEAN, ClaimError(p, applied) PROVE <1>6
        BY <1>5, <2>1, <2>2 DEF ClaimError
    <2>3. CASE ReleaseStepChannels(p) \/ ReleaseError(p) \/ BumpEscalation(p)
        BY <2>1, <2>3 DEF ReleaseStepChannels, ReleaseError, BumpEscalation
    <2>4. CASE Crash(p)
        BY <1>4, <2>1, <2>4 DEF Crash
    <2> QED BY <2>2, <2>3, <2>4 DEF Leave
<1>7. released' \subseteq Steps \X Channels
    <2>1. released' = released \/ released' = released \cup Unsent(p)
        BY DEF Leave, ClaimError, ReleaseStepChannels, ReleaseError, BumpEscalation, Crash
    <2> QED BY <1>1, <1>4, <2>1 DEF SharedOK
<1>8. level' \in Levels
    <2>1. CASE BumpEscalation(p)
        <3>1. seen[p].level \in Steps /\ level' = Bumped(p)
            BY <1>1, <2>1 DEF BumpEscalation, AtStep
        <3> QED BY <1>1, <3>1, LadderFacts DEF Bumped, SharedOK
    <2>2. CASE level' = level
        BY <1>1, <2>2 DEF SharedOK
    <2> QED BY <2>1, <2>2 DEF Leave, ClaimError, ReleaseStepChannels, ReleaseError, Crash
<1>9. faults' \in 0 .. MaxFaults
    <2>1. faults' = faults \/ (faults < MaxFaults /\ faults' = faults + 1)
        BY DEF Leave, ClaimError, ReleaseStepChannels, ReleaseError, BumpEscalation, Crash, Fault
    <2> QED BY <1>1, <2>1, EscalationAssumption DEF SharedOK
<1>10. SharedOK'
    BY <1>1, <1>3, <1>6, <1>7, <1>8, <1>9 DEF SharedOK
<1>11. \/ Finish(p)
       \/ Move(p, "bump") /\ pc[p] = "notify" /\ todo[p] = {}
    BY DEF Leave, ClaimError, ReleaseStepChannels, ReleaseError, BumpEscalation, Crash, AfterNotify
<1>12. /\ MemoryOK' /\ Others(p) /\ pc'[p] \in {"idle", "bump"} /\ AtStep(p)'
       /\ pc'[p] = "bump" => pc[p] = "notify" /\ todo[p] = {} /\ seen'[p] = seen[p]
       /\ seen'[p].level \in {0, seen[p].level}
    <2>1. CASE Finish(p)
        BY <1>1, <2>1, FinishEffect DEF AtStep
    <2>2. CASE Move(p, "bump") /\ pc[p] = "notify" /\ todo[p] = {}
        <3>1. "bump" \in Stages
            BY DEF Stages
        <3> QED BY <1>1, <2>2, <3>1, MoveEffect DEF AtStep
    <2> QED BY <1>11, <2>1, <2>2
<1>13. status' # "none" /\ ~ resolvedOld'
    BY <1>2, <1>3, Working
<1> QED BY <1>2, <1>3, <1>6, <1>10, <1>12, <1>13, TypePut

\* The rest of the world, which does not touch the processes.
Outside ==
    \/ Acknowledge \/ ResolveQuietly \/ PurgeOldEscalations \/ RetentionPasses
    \/ Tick \/ GatesChange \/ UNCHANGED vars

LEMMA OutsideEffect ==
    ASSUME TypeInv, Outside
    PROVE  /\ TypeInv'
           /\ UNCHANGED <<memory, level, alarms, excused, doubtful>>
           /\ log' = log \/ (resolvedOld /\ log' \subseteq log)
           /\ resolvedOld => resolvedOld'
           /\ \/ UNCHANGED <<acked, ackedAt>> 
              \/ ~ acked /\ acked' /\ ackedAt' = level
<1> USE DEF incident, journal, gates, memory, observed, vars
<1>1. SharedOK /\ MemoryOK /\ Settled
    BY TypeParts DEF TypeInv
<1>2. UNCHANGED <<memory, level, suppressed, alarms, recovered, early, excused, doubtful, released, faults>>
    BY DEF Outside, Acknowledge, ResolveQuietly, PurgeOldEscalations, RetentionPasses, Tick, GatesChange
<1>3. log' = log \/ (resolvedOld /\ log' \subseteq log)
    <2>1. CASE PurgeOldEscalations
        <3>1. log' = log \ oldRows /\ log # {} /\ ~ Keep
            BY <2>1 DEF PurgeOldEscalations
        <3> QED BY <1>1, <3>1 DEF Keep, Settled, SharedOK
    <2> QED BY <2>1 DEF Outside, Acknowledge, ResolveQuietly, RetentionPasses, Tick, GatesChange
<1>4. resolvedOld => resolvedOld'
    BY <1>1 DEF Outside, Acknowledge, ResolveQuietly, PurgeOldEscalations, RetentionPasses, Tick,
                GatesChange, Settled
<1>5. UNCHANGED <<acked, ackedAt>> \/ (~ acked /\ acked' = TRUE /\ ackedAt' = level)
    BY DEF Outside, Acknowledge, ResolveQuietly, PurgeOldEscalations, RetentionPasses, Tick, GatesChange
<1>6. SharedOK'
    <2>1. log' \subseteq Steps \X Channels /\ oldRows' \subseteq Steps \X Channels
        BY <1>1, <1>3 DEF SharedOK, Outside, Acknowledge, ResolveQuietly, PurgeOldEscalations,
                          RetentionPasses, Tick, GatesChange
    <2>2. acked' \in BOOLEAN /\ ackedAt' \in Levels
        BY <1>1, <1>5 DEF SharedOK
    <2>3. resolvedOld' \in BOOLEAN
        BY <1>1 DEF SharedOK, Outside, Acknowledge, ResolveQuietly, PurgeOldEscalations,
                    RetentionPasses, Tick, GatesChange
    <2>4. status' \in {"none", "open", "resolved"}
        BY <1>1 DEF SharedOK, Outside, Acknowledge, ResolveQuietly, PurgeOldEscalations,
                    RetentionPasses, Tick, GatesChange
    <2>5. elapsed' \in 0 .. MaxElapsed
        BY <1>1, EscalationAssumption DEF SharedOK, Outside, Acknowledge, ResolveQuietly,
           PurgeOldEscalations, RetentionPasses, Tick, GatesChange
    <2>6. <<maint', parent'>> \in Gates
        <3>1. CASE GatesChange
            <4>1. PICK g \in Gates : maint' = g[1] /\ parent' = g[2]
                BY <3>1 DEF GatesChange
            <4>2. g = <<g[1], g[2]>>
                BY <4>1, EscalationAssumption
            <4> QED BY <4>1, <4>2
        <3> QED BY <1>1, <3>1 DEF SharedOK, Outside, Acknowledge, ResolveQuietly, PurgeOldEscalations,
                                  RetentionPasses, Tick
    <2> QED BY <1>1, <1>2, <2>1, <2>2, <2>3, <2>4, <2>5, <2>6 DEF SharedOK
<1>7. MemoryOK' /\ \A p \in Procs : AtStep(p)'
    BY <1>1, <1>2 DEF MemoryOK, TypeInv, AtStep
<1>8. Settled'
    <2>1. Idle' <=> Idle
        BY <1>2 DEF Idle
    <2>2. status' = "none" => status = "none" /\ log' = log
        BY <1>1, <1>3 DEF Settled, Outside, Acknowledge, ResolveQuietly, PurgeOldEscalations, RetentionPasses,
                    Tick, GatesChange
    <2>3. resolvedOld' => Idle /\ status' = "resolved"
        BY <1>1 DEF Settled, Outside, Acknowledge, ResolveQuietly, PurgeOldEscalations, RetentionPasses,
                    Tick, GatesChange
    <2> QED BY <1>1, <2>1, <2>2, <2>3 DEF Settled
<1>9. TypeOK'
    BY <1>6, <1>7, TypeParts DEF SharedOK, MemoryOK, TypeOK, Seen, Stages
<1> QED BY <1>2, <1>3, <1>4, <1>5, <1>7, <1>8, <1>9 DEF TypeInv

-----------------------------------------------------------------------------
(* Claim before notify.                                                     *)

\* What another process owes is not touched by a step of p.
LEMMA OthersOwe ==
    ASSUME NEW p \in Procs, Others(p), NEW q \in Procs \ {p}, NEW s, NEW c
    PROVE  Owes(q, s, c)' <=> Owes(q, s, c)
BY DEF Others, Owes

\* Duties and rows that go away together leave the rest as it is.
LEMMA ClaimsKept ==
    ASSUME TypeInv, ClaimInv,
           \A q \in Procs, s \in Steps, c \in Channels : Owes(q, s, c)' => Owes(q, s, c),
           log \subseteq log' \/ (resolvedOld /\ resolvedOld'), resolvedOld => resolvedOld',
           UNCHANGED <<alarms, doubtful>>
    PROVE  ClaimInv'
<1>1. NoDoubleAlarm'
    BY DEF ClaimInv, NoDoubleAlarm
<1>2. resolvedOld => \A q \in Procs, s \in Steps, c \in Channels : ~ Owes(q, s, c)
    BY DEF TypeInv, Settled, Idle, Owes
<1>3. \A s \in Steps, c \in Channels : Quiet(s, c)' <=> Quiet(s, c)
    BY DEF Quiet
<1> QED BY <1>1, <1>2, <1>3 DEF ClaimInv

\* Only rows that were nobody's are claimed.
LEMMA ClaimKeepsClaims ==
    ASSUME TypeInv, ClaimInv, NEW p \in Procs, ClaimStepChannels(p)
    PROVE  ClaimInv'
<1> DEFINE l == seen[p].level
           W == Winnable(p)
<1>1. /\ Others(p) /\ pc[p] = "claim" /\ l \in Steps /\ W \subseteq Channels
      /\ seen'[p] = seen[p] /\ won'[p] = W /\ enqueued'[p] = {}
      /\ log' = log \cup Rows(l, W)
      /\ UNCHANGED <<incident, resolvedOld, observed>>
    BY ClaimEffect
<1>2. ~ resolvedOld
    BY <1>1, Working
<1>3. \A s \in Steps, c \in Channels : Owes(p, s, c)' => s = l /\ c \in W
    BY <1>1 DEF Owes
<1>4. \A c \in W : <<l, c>> \notin log
    BY DEF Winnable
<1>5. \A s, c : <<s, c>> \in log' <=> <<s, c>> \in log \/ (s = l /\ c \in W)
    BY <1>1 DEF Rows
<1>6. \A s \in Steps, c \in Channels : Quiet(s, c)' <=> Quiet(s, c)
    BY <1>1 DEF Quiet, observed
<1>7. NoDoubleAlarm'
    BY <1>1 DEF ClaimInv, NoDoubleAlarm, observed
<1>8. \A c \in W : Quiet(l, c)
    BY <1>1, <1>2, <1>4 DEF ClaimInv
<1> HIDE DEF l, W
<1>9. ASSUME NEW q \in Procs, NEW s \in Steps, NEW c \in Channels, Owes(q, s, c)'
      PROVE  /\ <<s, c>> \in log' /\ Quiet(s, c)'
             /\ \A u \in Procs : Owes(u, s, c)' => u = q
    <2>1. ASSUME NEW u \in Procs \ {p}, Owes(u, s, c)' PROVE Owes(u, s, c) /\ <<s, c>> \in log
        BY <1>1, <2>1, OthersOwe DEF ClaimInv
    <2>2. CASE q = p
        BY <1>3, <1>4, <1>5, <1>6, <1>8, <1>9, <2>1, <2>2
    <2>3. CASE q # p
        BY <1>3, <1>4, <1>5, <1>6, <1>9, <2>1, <2>3 DEF ClaimInv
    <2> QED BY <2>2, <2>3
<1> QED BY <1>2, <1>5, <1>6, <1>7, <1>9 DEF ClaimInv

\* An alarm pays the duty of the one process that has it.
LEMMA NotifyKeepsClaims ==
    ASSUME TypeInv, ClaimInv, NEW p \in Procs, NEW c \in Channels,
           \/ NotifyStep(p, c) \/ NotifySkips(p, c)
           \/ \E applied \in BOOLEAN : NotifyError(p, c, applied)
    PROVE  ClaimInv'
<1>0. PICK l \in Steps : l = seen[p].level
    BY NotifyEffect
<1>1. /\ Others(p) /\ pc[p] = "notify" /\ pc'[p] = "notify"
      /\ seen[p].level = l /\ seen'[p] = seen[p] /\ won'[p] = won[p] /\ c \in won[p] \ enqueued[p]
      /\ enqueued'[p] = IF NotifyStep(p, c) THEN enqueued[p] \cup {c} ELSE enqueued[p]
      /\ \A r \in Steps \X Channels : alarms'[r] = alarms[r] \/ (r = <<l, c>> /\ alarms'[r] = alarms[r] + 1)
      /\ UNCHANGED journal
    BY <1>0, NotifyEffect
<1>2. Owes(p, l, c)
    BY <1>1 DEF Owes
<1>3. \A q \in Procs, s \in Steps, d \in Channels : Owes(q, s, d)' => Owes(q, s, d)
    BY <1>1, OthersOwe DEF Owes
<1>4. <<l, c>> \in Steps \X Channels /\ alarms \in [Steps \X Channels -> Nat]
    BY <1>1, TypeParts DEF TypeInv, SharedOK
<1>5. Quiet(l, c) /\ <<l, c>> \in log /\ \A q \in Procs : Owes(q, l, c) => q = p
    BY <1>1, <1>2 DEF ClaimInv
<1>6. doubtful \subseteq doubtful' /\ log' = log /\ resolvedOld' = resolvedOld
    BY <1>1 DEF NotifyStep, NotifySkips, NotifyError, journal
<1>7. \A r \in Steps \X Channels : r # <<l, c>> => alarms'[r] = alarms[r]
    BY <1>1
<1>8. \A s \in Steps, d \in Channels : <<s, d>> # <<l, c>> /\ Quiet(s, d) => Quiet(s, d)'
    BY <1>6, <1>7 DEF Quiet
<1>9. NoDoubleAlarm'
    <2>1. ASSUME NEW r \in Steps \X Channels, r # <<l, c>> PROVE alarms'[r] <= 1 \/ r \in doubtful'
        BY <1>6, <1>7, <2>1 DEF ClaimInv, NoDoubleAlarm
    <2>2. alarms'[<<l, c>>] <= 1 \/ <<l, c>> \in doubtful'
        BY <1>1, <1>4, <1>5, <1>6 DEF Quiet
    <2> QED BY <2>1, <2>2 DEF NoDoubleAlarm
<1>10. NotifyStep(p, c) => \A q \in Procs : ~ Owes(q, l, c)'
    <2>1. NotifyStep(p, c) => ~ Owes(p, l, c)'
        BY <1>1 DEF Owes
    <2> QED BY <1>1, <1>3, <1>5, <2>1
<1>11. ~ NotifyStep(p, c) => Quiet(l, c)'
    <2>1. CASE NotifySkips(p, c)
        BY <1>5, <2>1 DEF NotifySkips, Quiet
    <2>2. ASSUME NEW applied \in BOOLEAN, NotifyError(p, c, applied) PROVE Quiet(l, c)'
        BY <1>1, <1>5, <2>2 DEF NotifyError, Quiet
    <2> QED BY <2>1, <2>2
<1>12. ASSUME NEW q \in Procs, NEW s \in Steps, NEW d \in Channels, Owes(q, s, d)'
       PROVE  Quiet(s, d)'
    <2>1. Owes(q, s, d) /\ Quiet(s, d)
        BY <1>3, <1>12 DEF ClaimInv
    <2>2. CASE s = l /\ d = c
        BY <1>10, <1>11, <1>12, <2>2
    <2>3. CASE ~ (s = l /\ d = c)
        BY <1>8, <2>1, <2>3
    <2> QED BY <2>2, <2>3
<1>13. \A s \in Steps, d \in Channels : <<s, d>> \notin log => <<s, d>> # <<l, c>>
    BY <1>5
<1> QED BY <1>3, <1>6, <1>8, <1>9, <1>12, <1>13 DEF ClaimInv

\* A release gives back rows that only p had claimed and that carried no alarm.
LEMMA LeaveKeepsClaims ==
    ASSUME TypeInv, ClaimInv, NEW p \in Procs, Leave(p)
    PROVE  ClaimInv'
<1> USE DEF journal, observed
<1>1. /\ Others(p) /\ pc[p] # "idle" /\ pc'[p] \in {"idle", "bump"}
      /\ UNCHANGED <<alarms, doubtful, resolvedOld>>
    BY LeaveEffect
<1>2. \A s \in Steps, c \in Channels : ~ Owes(p, s, c)'
    BY <1>1 DEF Owes
<1>3. \A q \in Procs, s \in Steps, c \in Channels : Owes(q, s, c)' => Owes(q, s, c) /\ q # p
    BY <1>1, <1>2, OthersOwe
<1>4. CASE log \subseteq log'
    BY <1>1, <1>3, <1>4, ClaimsKept
<1>5. CASE ReleaseStepChannels(p)
    <2>1. \A s \in Steps, c \in Channels : <<s, c>> \in Unsent(p) <=> Owes(p, s, c)
        BY <1>5 DEF ReleaseStepChannels, Unsent, Rows, Owes
    <2>2. log' = log \ Unsent(p)
        BY <1>5 DEF ReleaseStepChannels
    <2>3. \A s \in Steps, c \in Channels : Quiet(s, c)' <=> Quiet(s, c)
        BY <1>1 DEF Quiet
    <2>4. NoDoubleAlarm'
        BY <1>1 DEF ClaimInv, NoDoubleAlarm
    <2>5. ASSUME NEW q \in Procs, NEW s \in Steps, NEW c \in Channels, Owes(q, s, c)'
          PROVE  <<s, c>> \in log' /\ Quiet(s, c)' /\ \A u \in Procs : Owes(u, s, c)' => u = q
        BY <1>3, <2>1, <2>2, <2>3, <2>5 DEF ClaimInv
    <2>6. ASSUME NEW s \in Steps, NEW c \in Channels, <<s, c>> \notin log', ~ resolvedOld PROVE Quiet(s, c)'
        BY <2>1, <2>2, <2>3, <2>6 DEF ClaimInv
    <2> QED BY <1>1, <2>4, <2>5, <2>6 DEF ClaimInv
<1> QED BY <1>4, <1>5 DEF Leave, ClaimError, ReleaseError, BumpEscalation, Crash

\* Every step keeps ClaimInv.
LEMMA ClaimStep ==
    ASSUME TypeInv, ClaimInv, Outside \/ \E p \in Procs : Elsewhere(p)
    PROVE  ClaimInv'
<1>1. CASE Outside
    <2>1. \A q \in Procs, s \in Steps, c \in Channels : Owes(q, s, c)' => Owes(q, s, c)
        BY <1>1, OutsideEffect DEF Owes, memory
    <2> QED BY <1>1, <2>1, OutsideEffect, ClaimsKept
<1>2. ASSUME NEW p \in Procs, Elsewhere(p) PROVE ClaimInv'
    <2>1. \A q \in Procs, s \in Steps, c \in Channels : Owes(q, s, c)' => Owes(q, s, c)
        <3>1. \A s \in Steps, c \in Channels : ~ Owes(p, s, c)'
            BY <1>2 DEF Elsewhere, Owes
        <3> QED BY <1>2, <3>1, OthersOwe DEF Elsewhere
    <2> QED BY <1>2, <2>1, ClaimsKept DEF Elsewhere
<1> QED BY <1>1, <1>2

-----------------------------------------------------------------------------
(* No step is skipped.                                                      *)

\* What p must see to: a row it adds, a duty it drops and a step it leaves have somebody
\* told, and the ladder moves over covered steps only.
LEMMA CoverPut ==
    ASSUME TypeInv, TypeInv', CoverInv, NEW p \in Procs, Others(p),
           \A s \in Steps, c \in Channels : Told(s, c) => Told(s, c)',
           \A s \in Steps, c \in Channels :
               <<s, c>> \in log' => <<s, c>> \in log \/ Told(s, c)' \/ Owes(p, s, c)',
           \A s \in Steps, c \in Channels : Owes(p, s, c) => Owes(p, s, c)' \/ Told(s, c)',
           pc'[p] = "notify" =>
               won'[p] # {} /\ \A c \in won'[p] : c \in todo'[p] \/ Told(seen[p].level, c)',
           pc[p] = "notify" =>
               \/ pc'[p] = "notify" /\ seen'[p] = seen[p]
               \/ \A s \in Steps : s = seen[p].level => \E c \in Channels : Told(s, c)',
           pc'[p] = "bump" => \A s \in Steps : s = seen'[p].level => Covered(s) \/ Covered(s)',
           \A s \in Steps : s < level' => s < level \/ Covered(s)
    PROVE  CoverInv'
<1>1. ASSUME NEW s \in Steps, Covered(s) PROVE Covered(s)'
    <2>1. CASE StepChannels(s) = {} \/ \E c \in Channels : Told(s, c)
        BY <2>1 DEF Covered, StepChannels
    <2>2. ASSUME NEW q \in Procs, pc[q] = "notify", seen[q].level = s PROVE Covered(s)'
        BY <2>2 DEF Covered, Others
    <2> QED BY <1>1, <2>1, <2>2 DEF Covered
<1>2. ASSUME NEW s \in Steps, NEW c \in Channels, <<s, c>> \in log'
      PROVE  Told(s, c)' \/ \E q \in Procs : Owes(q, s, c)'
    <2>1. CASE <<s, c>> \in log /\ ~ Told(s, c)
        <3>1. PICK q \in Procs : Owes(q, s, c)
            BY <2>1 DEF CoverInv
        <3> QED BY <3>1, OthersOwe
    <2> QED BY <1>2, <2>1
<1>3. ASSUME NEW q \in Procs, pc'[q] = "notify"
      PROVE  won'[q] # {} /\ \A c \in won'[q] : c \in todo'[q] \/ Told(seen[q].level, c)'
    <2>1. CASE q = p
        BY <1>3, <2>1
    <2>2. CASE q # p
        <3>1. /\ pc[q] = "notify" /\ seen'[q] = seen[q] /\ won'[q] = won[q] /\ todo'[q] = todo[q]
            BY <1>3, <2>2 DEF Others
        <3>2. seen[q].level \in Steps /\ won[q] \subseteq Channels
            BY <3>1, TypeParts DEF TypeInv, AtStep, MemoryOK
        <3>3. PICK l \in Steps : l = seen[q].level
            BY <3>2
        <3>4. \A c \in won[q] : c \in todo[q] \/ Told(l, c)'
            BY <3>1, <3>2, <3>3 DEF CoverInv
        <3>5. l = seen'[q].level
            BY <3>1, <3>3
        <3>6. won[q] # {}
            BY <3>1 DEF CoverInv
        <3> QED BY <3>1, <3>4, <3>5, <3>6
    <2> QED BY <2>1, <2>2
<1>4. ASSUME NEW q \in Procs, pc'[q] = "bump" PROVE Covered(seen[q].level)'
    <2>1. seen'[q].level \in Steps
        BY <1>4 DEF TypeInv, AtStep
    <2>2. PICK l \in Steps : l = seen'[q].level
        BY <2>1
    <2>3. Covered(l)'
        <3>1. CASE q = p
            BY <1>1, <1>4, <2>2, <3>1
        <3>2. CASE q # p
            BY <1>1, <1>4, <2>2, <3>2 DEF Others, CoverInv
        <3> QED BY <3>1, <3>2
    <2> QED BY <2>2, <2>3
<1>5. ASSUME NEW s \in Steps, s < level' PROVE Covered(s)'
    BY <1>1, <1>5 DEF CoverInv
<1> QED BY <1>2, <1>3, <1>4, <1>5 DEF CoverInv

\* Nothing won means that others have claimed the step, who tell or have told.
LEMMA ClaimKeepsCover ==
    ASSUME TypeInv, CoverInv, NEW p \in Procs, ClaimStepChannels(p)
    PROVE  CoverInv'
<1>0. PICK l \in Steps : l = seen[p].level
    BY ClaimEffect
<1> DEFINE W == Winnable(p)
<1>1. /\ TypeInv' /\ Others(p) /\ pc[p] = "claim" /\ W \subseteq Channels
      /\ pc'[p] = AfterClaim(p) /\ seen'[p] = seen[p]
      /\ won'[p] = W /\ todo'[p] = W /\ enqueued'[p] = {}
      /\ log' = log \cup Rows(l, W)
      /\ UNCHANGED <<incident, resolvedOld, observed>>
    BY <1>0, ClaimEffect
<1>2. pc'[p] = IF W = {} THEN "bump" ELSE "notify"
    BY <1>1 DEF AfterClaim
<1>3. \A s \in Steps, c \in Channels : Told(s, c)' <=> Told(s, c)
    BY <1>1 DEF Told, observed
<1>4. level' = level
    BY <1>1 DEF incident
<1>5. W = {} => Covered(l)
    <2> SUFFICES ASSUME W = {}, StepChannels(l) # {} PROVE Covered(l)
        BY DEF Covered
    <2>1. PICK c \in StepChannels(l) : <<l, c>> \in log
        BY <1>0 DEF Winnable
    <2>2. c \in Channels
        BY LadderFacts
    <2>3. Told(l, c) \/ \E q \in Procs : Owes(q, l, c)
        BY <2>1, <2>2 DEF CoverInv
    <2> QED BY <2>2, <2>3 DEF Covered, Owes
<1> HIDE DEF W
<1>6. \A s \in Steps, c \in Channels :
        <<s, c>> \in log' => <<s, c>> \in log \/ Told(s, c)' \/ Owes(p, s, c)'
    <2>1. \A s, c : <<s, c>> \in log' => <<s, c>> \in log \/ (s = l /\ c \in W)
        BY <1>1 DEF Rows
    <2>2. \A c \in W : Owes(p, l, c)'
        BY <1>0, <1>1, <1>2 DEF Owes
    <2> QED BY <2>1, <2>2
<1>7. \A s \in Steps, c \in Channels : ~ Owes(p, s, c)
    BY <1>1 DEF Owes
<1>8. pc'[p] = "notify" => won'[p] # {} /\ \A c \in won'[p] : c \in todo'[p] \/ Told(seen[p].level, c)'
    BY <1>1, <1>2
<1>9. pc'[p] = "bump" => \A s \in Steps : s = seen'[p].level => Covered(s) \/ Covered(s)'
    BY <1>0, <1>1, <1>2, <1>5
<1> QED BY <1>1, <1>3, <1>4, <1>6, <1>7, <1>8, <1>9, CoverPut

\* A channel whose turn was is told or excused.
LEMMA NotifyKeepsCover ==
    ASSUME TypeInv, CoverInv, NEW p \in Procs, NEW c \in Channels,
           \/ NotifyStep(p, c) \/ NotifySkips(p, c)
           \/ \E applied \in BOOLEAN : NotifyError(p, c, applied)
    PROVE  CoverInv'
<1>0. PICK l \in Steps : l = seen[p].level
    BY NotifyEffect
<1>1. /\ TypeInv' /\ Others(p) /\ pc[p] = "notify" /\ pc'[p] = "notify"
      /\ seen'[p] = seen[p] /\ won'[p] = won[p] /\ todo'[p] = todo[p] \ {c}
      /\ enqueued'[p] \subseteq enqueued[p] \cup {c}
      /\ \A r \in Steps \X Channels : alarms'[r] = alarms[r] \/ (r = <<l, c>> /\ alarms'[r] = alarms[r] + 1)
      /\ UNCHANGED <<incident, journal, ackedAt>>
    BY <1>0, NotifyEffect
<1>2. alarms \in [Steps \X Channels -> Nat] /\ won[p] \subseteq Channels /\ <<l, c>> \in Steps \X Channels
    BY TypeParts DEF TypeInv, SharedOK, MemoryOK
<1>3. excused \subseteq excused'
    BY DEF NotifyStep, NotifySkips, NotifyError
<1>4. \A s \in Steps, d \in Channels : Told(s, d) => Told(s, d)'
    BY <1>1, <1>2, <1>3 DEF Told
<1>5. Told(l, c)'
    <2>1. CASE NotifyStep(p, c)
        <3>1. alarms' = [alarms EXCEPT ![<<l, c>>] = @ + 1]
            BY <1>0, <2>1 DEF NotifyStep
        <3>2. alarms'[<<l, c>>] > 0
            BY <1>2, <3>1
        <3> QED BY <3>2 DEF Told
    <2>2. CASE NotifySkips(p, c) \/ \E applied \in BOOLEAN : NotifyError(p, c, applied)
        BY <1>0, <2>2 DEF NotifySkips, NotifyError, Told
    <2> QED BY <2>1, <2>2
<1>6. log' = log /\ level' = level
    BY <1>1 DEF journal, incident
<1>7. \A s \in Steps, d \in Channels : Owes(p, s, d) => Owes(p, s, d)' \/ Told(s, d)'
    <2> SUFFICES ASSUME NEW s \in Steps, NEW d \in Channels, Owes(p, s, d), d # c PROVE Owes(p, s, d)'
        BY <1>0, <1>5 DEF Owes
    <2> QED BY <1>1 DEF Owes
<1>8. won'[p] # {} /\ \A d \in won'[p] : d \in todo'[p] \/ Told(seen[p].level, d)'
    <2>1. won[p] # {} /\ \A d \in won[p] : d \in todo[p] \/ Told(l, d)
        BY <1>0, <1>1 DEF CoverInv
    <2>2. \A d \in won[p] : d \in todo'[p] \/ Told(l, d)'
        BY <1>1, <1>2, <1>4, <1>5, <2>1
    <2>3. l = seen'[p].level
        BY <1>0, <1>1
    <2> QED BY <1>1, <2>1, <2>2, <2>3
<1> QED BY <1>1, <1>4, <1>6, <1>7, <1>8, CoverPut

\* Whoever leaves a step after its dispatch has told or excused every channel it won, and
\* a bump passes a covered step.
LEMMA LeaveKeepsCover ==
    ASSUME TypeInv, CoverInv, NEW p \in Procs, Leave(p)
    PROVE  CoverInv'
<1> USE DEF incident, journal, observed
<1>1. /\ TypeInv' /\ Others(p) /\ pc[p] # "idle" /\ pc'[p] \in {"idle", "bump"}
      /\ pc'[p] = "bump" => pc[p] = "notify" /\ todo[p] = {} /\ seen'[p] = seen[p]
      /\ excused \subseteq excused' /\ alarms' = alarms
    BY LeaveEffect
<1>2. \A s \in Steps, c \in Channels : Told(s, c) => Told(s, c)'
    BY <1>1 DEF Told
<1>3. won[p] \subseteq Channels /\ (pc[p] \in {"claim", "notify", "bump"} => seen[p].level \in Steps)
      /\ seen[p].level \in Nat
    BY TypeParts, LadderFacts DEF TypeInv, AtStep, MemoryOK, Seen
<1>4. ASSUME pc[p] = "notify", NEW l \in Steps, l = seen[p].level
      PROVE  won[p] # {} /\ \A c \in won[p] : Told(l, c)'
    <2>1. won[p] # {} /\ \A c \in won[p] : c \in todo[p] \/ Told(l, c)
        BY <1>4 DEF CoverInv
    <2>2. CASE todo[p] = {}
        BY <1>2, <1>3, <2>1, <2>2
    <2>3. CASE Crash(p)
        <3>1. \A c \in todo[p] : <<l, c>> \in Unsent(p)
            BY <1>4 DEF Unsent, Rows, TypeInv, AtStep
        <3>2. Unsent(p) \subseteq excused'
            BY <2>3 DEF Crash
        <3>3. \A c \in todo[p] : Told(l, c)'
            BY <3>1, <3>2 DEF Told
        <3> QED BY <1>2, <1>3, <2>1, <3>3
    <2> QED BY <1>4, <2>2, <2>3 DEF Leave, ClaimError, ReleaseStepChannels, ReleaseError, BumpEscalation
<1>5. ASSUME NEW s \in Steps, NEW c \in Channels, <<s, c>> \in log'
      PROVE  <<s, c>> \in log \/ Told(s, c)'
    <2>1. CASE log' \subseteq log
        BY <1>5, <2>1
    <2>2. ASSUME NEW applied \in BOOLEAN, ClaimError(p, applied), applied
          PROVE  <<s, c>> \in log \/ Told(s, c)'
        BY <1>5, <2>2 DEF ClaimError, Told
    <2> QED BY <1>5, <2>1, <2>2 DEF Leave, ClaimError, ReleaseStepChannels, ReleaseError, BumpEscalation, Crash
<1>6. \A s \in Steps, c \in Channels : Owes(p, s, c) => Told(s, c)'
    BY <1>4 DEF Owes
<1>7. pc[p] = "notify" => \A s \in Steps : s = seen[p].level => \E c \in Channels : Told(s, c)'
    BY <1>3, <1>4
<1>8. pc'[p] = "bump" => \A s \in Steps : s = seen'[p].level => Covered(s)'
    BY <1>1, <1>7 DEF Covered
<1>9. \A s \in Steps : s < level' => s < level \/ Covered(s)
    <2>1. CASE BumpEscalation(p)
        <3>1. pc[p] = "bump" /\ level' = Bumped(p) /\ level \in Nat
            BY <2>1, TypeParts, LadderFacts DEF BumpEscalation, TypeInv, SharedOK
        <3>2. Covered(seen[p].level)
            BY <3>1 DEF CoverInv
        <3>3. level' = level \/ (level = seen[p].level /\ level' = level + 1)
            BY <3>1 DEF Bumped
        <3>4. ASSUME NEW s \in Steps, s < level', ~ (s < level) PROVE s = seen[p].level
            BY <3>1, <3>3, <3>4, LadderFacts
        <3> QED BY <3>2, <3>4
    <2>2. CASE level' = level
        BY <2>2
    <2> QED BY <2>1, <2>2 DEF Leave, ClaimError, ReleaseStepChannels, ReleaseError, Crash
<1> QED BY <1>1, <1>2, <1>5, <1>6, <1>7, <1>8, <1>9, CoverPut

\* The other steps drop no duty and pass no step.
LEMMA CoverStep ==
    ASSUME TypeInv, TypeInv', CoverInv, Outside \/ \E p \in Procs : Elsewhere(p)
    PROVE  CoverInv'
<1>1. CASE Outside
    <2>1. UNCHANGED <<memory, level, alarms, excused>> /\ log' \subseteq log
        BY <1>1, OutsideEffect
    <2>2. \A s \in Steps, c \in Channels : Told(s, c)' <=> Told(s, c)
        BY <2>1 DEF Told
    <2>3. \A q \in Procs, s \in Steps, c \in Channels : Owes(q, s, c)' <=> Owes(q, s, c)
        BY <2>1 DEF Owes, memory
    <2>4. \A s \in Steps : Covered(s) => Covered(s)'
        BY <2>1, <2>2 DEF Covered, StepChannels, memory
    <2>5. ASSUME NEW q \in Procs, pc'[q] = "bump" PROVE Covered(seen[q].level)'
        BY <2>1, <2>4, <2>5 DEF CoverInv, memory, TypeInv, AtStep
    <2>6. ASSUME NEW q \in Procs, pc'[q] = "notify"
          PROVE  won'[q] # {} /\ \A c \in won'[q] : c \in todo'[q] \/ Told(seen[q].level, c)'
        BY <2>1, <2>6 DEF CoverInv, memory, Told
    <2>7. \A s \in Steps, c \in Channels : <<s, c>> \in log' =>
            Told(s, c)' \/ \E q \in Procs : Owes(q, s, c)'
        BY <2>1, <2>2, <2>3 DEF CoverInv
    <2> QED BY <2>1, <2>4, <2>5, <2>6, <2>7 DEF CoverInv
<1>2. ASSUME NEW p \in Procs, Elsewhere(p) PROVE CoverInv'
    <2>1. \A s \in Steps, c \in Channels : Told(s, c)' <=> Told(s, c)
        BY <1>2 DEF Told, Elsewhere
    <2>2. \A s \in Steps, c \in Channels : ~ Owes(p, s, c)
        BY <1>2 DEF Owes, Elsewhere
    <2>3. pc'[p] = "bump" => \A s \in Steps : s = seen'[p].level => Covered(s)'
        BY <1>2 DEF Elsewhere, Covered, StepChannels
    <2>4. log' = log /\ level' = level /\ pc[p] # "notify" /\ pc'[p] # "notify" /\ Others(p)
        BY <1>2 DEF Elsewhere
    <2> QED BY <2>1, <2>2, <2>3, <2>4, CoverPut
<1> QED BY <1>1, <1>2

-----------------------------------------------------------------------------
(* The acknowledgement.                                                     *)

\* A step of p looks no further than the level, and after the acknowledgement no further
\* than the level of then.
LEMMA AckPut ==
    ASSUME TypeInv, TypeInv', AckInv, NEW p \in Procs, Others(p), UNCHANGED <<acked, ackedAt>>,
           seen'[p].level \in {0, seen[p].level} \/ (seen'[p].level = level /\ ~ acked),
           level' = level \/ (level' = level + 1 /\ level = seen[p].level),
           \A s \in Steps, c \in Channels : alarms'[<<s, c>>] > 0 => alarms[<<s, c>>] > 0 \/ s = seen[p].level
    PROVE  AckInv'
<1>1. level \in Nat /\ ackedAt \in Nat /\ \A q \in Procs : seen[q].level \in Nat
    BY TypeParts, LadderFacts DEF TypeInv, SharedOK, MemoryOK, Seen
<1>2. Steps \subseteq Nat
    BY LadderFacts
<1>3. level' \in Nat /\ level' >= level
    BY <1>1
<1>4. ASSUME NEW q \in Procs PROVE seen'[q].level <= level' /\ (acked' => seen'[q].level <= ackedAt')
    BY <1>1, <1>3 DEF AckInv, Others
<1>5. ASSUME NEW s \in Steps, NEW c \in Channels, alarms'[<<s, c>>] > 0
      PROVE  s <= level' /\ (acked' => s <= ackedAt')
    BY <1>1, <1>2, <1>3, <1>5 DEF AckInv
<1>6. acked' => level' <= ackedAt' + 1
    BY <1>1 DEF AckInv
<1> QED BY <1>4, <1>5, <1>6 DEF AckInv

\* Every step keeps AckInv.
LEMMA AckStep ==
    ASSUME TypeInv, TypeInv', AckInv,
           \/ Outside
           \/ \E p \in Procs : Elsewhere(p) \/ ClaimStepChannels(p) \/ Leave(p)
           \/ \E p \in Procs, c \in Channels :
                \/ NotifyStep(p, c) \/ NotifySkips(p, c)
                \/ \E applied \in BOOLEAN : NotifyError(p, c, applied)
    PROVE  AckInv'
<1>1. CASE Outside
    <2>1. level \in Nat /\ ackedAt \in Nat
        BY TypeParts, LadderFacts DEF TypeInv, SharedOK
    <2>2. UNCHANGED <<level, alarms, seen>>
        BY <1>1, OutsideEffect DEF memory
    <2>3. CASE UNCHANGED <<acked, ackedAt>>
        BY <2>2, <2>3 DEF AckInv
    <2>4. CASE ~ acked /\ acked' /\ ackedAt' = level
        BY <2>1, <2>2, <2>4 DEF AckInv
    <2> QED BY <1>1, <2>3, <2>4, OutsideEffect
<1>2. ASSUME NEW p \in Procs, Elsewhere(p) PROVE AckInv'
    BY <1>2, AckPut DEF Elsewhere
<1>3. ASSUME NEW p \in Procs, ClaimStepChannels(p) PROVE AckInv'
    BY <1>3, ClaimEffect, AckPut DEF incident, observed
<1>4. ASSUME NEW p \in Procs, Leave(p) PROVE AckInv'
    <2>1. level' = level \/ (level' = level + 1 /\ level = seen[p].level)
        BY <1>4 DEF Leave, ClaimError, ReleaseStepChannels, ReleaseError, BumpEscalation, Bumped,
                    Crash, incident
    <2> QED BY <1>4, <2>1, LeaveEffect, AckPut
<1>5. ASSUME NEW p \in Procs, NEW c \in Channels,
             \/ NotifyStep(p, c) \/ NotifySkips(p, c)
             \/ \E applied \in BOOLEAN : NotifyError(p, c, applied)
      PROVE  AckInv'
    <2>1. /\ Others(p) /\ seen'[p] = seen[p] /\ UNCHANGED <<incident, journal, ackedAt>>
          /\ \A r \in Steps \X Channels :
                alarms'[r] = alarms[r] \/ (r = <<seen[p].level, c>> /\ alarms'[r] = alarms[r] + 1)
        BY <1>5, NotifyEffect
    <2>2. \A s \in Steps, d \in Channels : alarms'[<<s, d>>] > 0 => alarms[<<s, d>>] > 0 \/ s = seen[p].level
        BY <2>1
    <2> QED BY <2>1, <2>2, AckPut DEF incident
<1> QED BY <1>1, <1>2, <1>3, <1>4, <1>5

-----------------------------------------------------------------------------
(* The specification.                                                       *)

\* No incident, nobody at work.
LEMMA InitInv == Init => IInv
<1> SUFFICES ASSUME Init PROVE IInv
    OBVIOUS
<1>1. 0 \in Levels /\ Steps \subseteq Nat /\ Nothing \in Seen /\ Nothing.level = 0
    BY LadderFacts, EscalationAssumption DEF Nothing, Seen
<1>2. <<maint, parent>> \in Gates
    <2>1. PICK g \in Gates : maint = g[1] /\ parent = g[2]
        BY DEF Init
    <2>2. g = <<g[1], g[2]>>
        BY <2>1, EscalationAssumption
    <2> QED BY <2>1, <2>2
<1>3. SharedOK
    <2>1. elapsed \in 0 .. MaxElapsed /\ faults \in 0 .. MaxFaults
        BY EscalationAssumption DEF Init
    <2>2. level \in Levels /\ ackedAt \in Levels /\ alarms \in [Steps \X Channels -> Nat]
        BY <1>1 DEF Init
    <2> QED BY <1>2, <2>1, <2>2 DEF Init, SharedOK
<1>4. MemoryOK
    BY <1>1 DEF Init, MemoryOK, Stages
<1>5. TypeInv
    BY <1>3, <1>4, TypeParts DEF Init, TypeInv, AtStep, Settled, Idle
<1>6. \A s \in Steps, c \in Channels : alarms[<<s, c>>] = 0
    BY DEF Init
<1>7. ClaimInv
    BY <1>6 DEF Init, ClaimInv, NoDoubleAlarm, Owes, Quiet
<1>8. CoverInv
    BY <1>1 DEF Init, CoverInv
<1>9. AckInv
    BY <1>1, <1>6 DEF Init, AckInv
<1> QED BY <1>5, <1>7, <1>8, <1>9 DEF IInv

\* Every statement of every process keeps the invariant.
LEMMA NextInv == IInv /\ [Next]_vars => IInv'
<1> SUFFICES ASSUME IInv, [Next]_vars PROVE IInv'
    OBVIOUS
<1> USE DEF IInv
<1>1. \/ Outside
      \/ \E p \in Procs :
            \/ Open(p) \/ OpenUngated(p) \/ ReleaseSuppressed(p) \/ ClearSuppressed(p)
            \/ OpenUnacked(p) \/ Gate(p) \/ GateError(p) \/ MarkSuppressed(p)
            \/ Resolve(p) \/ ReadRecovery(p) \/ (\E c \in Channels : NotifyRecovery(p, c))
            \/ BumpError(p)
      \/ \E p \in Procs : ClaimStepChannels(p) \/ Leave(p)
      \/ \E p \in Procs, c \in Channels :
            \/ NotifyStep(p, c) \/ NotifySkips(p, c)
            \/ \E applied \in BOOLEAN : NotifyError(p, c, applied)
    BY DEF Next, SchedulerStep, EvaluatorStep, SendStep, Leave, Outside, Procs
<1>2. CASE Outside
    BY <1>2, OutsideEffect, ClaimStep, CoverStep, AckStep
<1>3. ASSUME NEW p \in Procs,
             \/ Open(p) \/ OpenUngated(p) \/ ReleaseSuppressed(p) \/ ClearSuppressed(p)
             \/ OpenUnacked(p) \/ Gate(p) \/ GateError(p) \/ MarkSuppressed(p)
             \/ Resolve(p) \/ ReadRecovery(p) \/ (\E c \in Channels : NotifyRecovery(p, c))
             \/ BumpError(p)
      PROVE  IInv'
    <2>1. TypeInv' /\ Elsewhere(p)
        BY <1>3, ElsewhereStep
    <2> QED BY <2>1, ClaimStep, CoverStep, AckStep
<1>4. ASSUME NEW p \in Procs, ClaimStepChannels(p) PROVE IInv'
    BY <1>4, ClaimEffect, ClaimKeepsClaims, ClaimKeepsCover, AckStep
<1>5. ASSUME NEW p \in Procs, Leave(p) PROVE IInv'
    BY <1>5, LeaveEffect, LeaveKeepsClaims, LeaveKeepsCover, AckStep
<1>6. ASSUME NEW p \in Procs, NEW c \in Channels,
             \/ NotifyStep(p, c) \/ NotifySkips(p, c)
             \/ \E applied \in BOOLEAN : NotifyError(p, c, applied)
      PROVE  IInv'
    BY <1>6, NotifyEffect, NotifyKeepsClaims, NotifyKeepsCover, AckStep
<1> QED BY <1>1, <1>2, <1>3, <1>4, <1>5, <1>6

\* IInv holds in every reachable state.
LEMMA Invariance == Spec => []IInv
BY InitInv, NextInv, PTL DEF Spec

\* Type correctness: the level stays on the ladder, rows name its steps, and whoever
\* is at a step is at one of the ladder.
THEOREM TypeCorrect == Spec => []TypeOK
<1>1. IInv => TypeOK
    BY DEF IInv, TypeInv
<1> QED BY <1>1, Invariance, PTL

\* ClaimStepChannels before Dispatch: with any number of replicas, crashes and failed
\* statements, a channel is alarmed at most once for a step, unless an Enqueue reported
\* an error after it took effect.
THEOREM ClaimBeforeNotify == Spec => []NoDoubleAlarm
<1>1. IInv => NoDoubleAlarm
    BY DEF IInv, ClaimInv
<1> QED BY <1>1, Invariance, PTL

\* The rows RecoveryChannels reads outlive releases and purges: a channel with an alarm
\* has one until the incident is long closed.
THEOREM AlarmKeepsRow == Spec => []AlarmedCanRecover
<1>1. IInv => AlarmedCanRecover
    <2> SUFFICES ASSUME IInv, NEW s \in Steps, NEW c \in Channels, alarms[<<s, c>>] > 0
                 PROVE  <<s, c>> \in log \/ <<s, c>> \in doubtful \/ resolvedOld
        BY DEF AlarmedCanRecover
    <2> QED BY DEF IInv, ClaimInv, Quiet
<1> QED BY <1>1, Invariance, PTL

\* BumpEscalation never carries the level over a step nobody was told of, though any
\* replica may bump for any other.
THEOREM LadderTells == Spec => []NoStepSkipped
<1>1. IInv => NoStepSkipped
    BY DEF IInv, CoverInv, Covered, Told, NoStepSkipped
<1> QED BY <1>1, Invariance, PTL

\* An acknowledgement ends the ladder at the step that was due, for every tick under way.
THEOREM AckEndsLadder == Spec => []AckStopsLadder
<1>1. IInv => AckStopsLadder
    <2> SUFFICES ASSUME IInv, acked
                 PROVE  /\ level <= ackedAt + 1
                        /\ \A s \in Steps, c \in Channels : s > ackedAt => alarms[<<s, c>>] = 0
        BY DEF AckStopsLadder
    <2>1. ackedAt \in Nat /\ alarms \in [Steps \X Channels -> Nat] /\ Steps \subseteq Nat
        BY TypeParts, LadderFacts DEF IInv, TypeInv, SharedOK
    <2> QED BY <2>1 DEF IInv, AckInv
<1> QED BY <1>1, Invariance, PTL
=============================================================================
