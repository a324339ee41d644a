--------------------------- MODULE DetectorProofs ---------------------------
(***************************************************************************)
(* Proofs about Detector for any regions, channels, consensus, parents and *)
(* limits: the recoveries of an incident are not repeated, go to channels  *)
(* that saw the alarm, and reach those that did.                           *)
(***************************************************************************)
EXTENDS Detector, FiniteSetTheorems, TLAPS

Stages ==
    {"idle", "states", "find", "open", "resolve", "held", "clear", "gate", "suppress", "claim",
     "send", "log", "channels", "recover"}

\* The handler has no incident in hand.
Apart == {"idle", "states", "find", "open", "resolve"}

Row ==
    [open : BOOLEAN, old : BOOLEAN, maint : BOOLEAN, notified : BOOLEAN, failed : BOOLEAN,
     attempts : Nat, channels : SUBSET Channels, suppressed : BOOLEAN]

Pairs == Ids \X Channels

RowsOK ==
    /\ incidents \in [Ids -> Row]
    /\ log \subseteq Pairs /\ fresh \subseteq Pairs /\ deliverable \subseteq Channels
    /\ alarms \in [Pairs -> Nat] /\ recoveries \in [Pairs -> Nat] /\ owed \subseteq Ids

MemoryOK ==
    /\ pc \in [Regions -> Stages] /\ id \in [Regions -> Ids \cup {0}]
    /\ agg \in [Regions -> {"unknown", "up", "down"}]
    /\ todo \in [Regions -> SUBSET Channels] /\ won \in [Regions -> SUBSET Channels]
    /\ sent \in [Regions -> SUBSET Channels]

\* What the handler of r has in its hands, at each stage.
InHand(r) ==
    /\ id[r] = 0 <=> pc[r] \in Apart
    /\ pc[r] = "resolve" => agg[r] = "up"
    /\ pc[r] # "send" => won[r] = {} /\ sent[r] = {}
    /\ pc[r] \notin {"send", "log", "channels", "recover"} => todo[r] = {}
    /\ pc[r] = "send" => todo[r] \subseteq won[r] /\ sent[r] \subseteq won[r]

TypeInv == RowsOK /\ MemoryOK /\ \A r \in Regions : InHand(r)

-----------------------------------------------------------------------------

\* r has resolved its incident and is telling so.
Resolver(r) == pc[r] \in {"channels", "recover"} \/ (pc[r] = "log" /\ agg[r] = "up")

\* The channels of incident i, by what happened to them.
Sent(i, c) == alarms[<<i, c>>] > 0
Told(i, c) == recoveries[<<i, c>>] > 0
Excused(i, c) == <<i, c>> \in excused

\* An incident has one resolver, and no recovery before it ...
OneResolver ==
    /\ \A r \in Regions : Resolver(r) => ~ incidents[id[r]].open
    /\ \A r, q \in Regions : Resolver(r) /\ Resolver(q) /\ id[r] = id[q] => r = q

OpenUntold ==
    \A i \in Ids : incidents[i].open => i \notin owed /\ \A c \in Channels : recoveries[<<i, c>>] = 0

\* ... which sends each recovery once.
ToldOnce ==
    /\ \A r \in Regions, c \in Channels :
          Resolver(r) /\ (pc[r] = "recover" => c \in todo[r]) => recoveries[<<id[r], c>>] = 0
    /\ \A x \in Pairs : recoveries[x] <= 1

\* The claim of a handler at work is in the journal, young, and nobody else's.
HoldInv ==
    \A r \in Regions : \A c \in won[r] :
        ~ Excused(id[r], c) =>
            /\ <<id[r], c>> \in log \cap fresh
            /\ \A q \in Regions : id[q] = id[r] /\ c \in won[q] => q = r

\* What is noted as sent was sent.
SentInv ==
    /\ \A r \in Regions : \A c \in sent[r] : Sent(id[r], c)
    /\ \A r \in Regions : pc[r] = "log" => \A c \in todo[r] : Sent(id[r], c)
    /\ \A i \in Ids : \A c \in incidents[i].channels : Sent(i, c)

\* The journal of the claims is the record of the alarms, but for claims in hand.
JournalInv ==
    \A i \in Ids, c \in Channels : ~ Excused(i, c) =>
        /\ Sent(i, c) => <<i, c>> \in log
        /\ <<i, c>> \in log => Sent(i, c) \/ \E r \in Regions : id[r] = i /\ c \in won[r] \ sent[r]

\* Recoveries go where alarms went ...
ToldInv ==
    /\ \A r \in Regions : pc[r] = "recover" =>
          \A c \in todo[r] : ~ Excused(id[r], c) => Sent(id[r], c)
    /\ \A i \in Ids, c \in Channels : Told(i, c) /\ ~ Excused(i, c) => Sent(i, c)

\* ... and to all of them, or somebody is at it.
OwedInv ==
    \A i \in owed, c \in Channels :
        (<<i, c>> \in log /\ ~ Excused(i, c)) =>
            \/ Told(i, c)
            \/ \E r \in Regions : id[r] = i /\ Resolver(r) /\ (pc[r] = "recover" => c \in todo[r])

IInv ==
    /\ TypeInv /\ OneResolver /\ OpenUntold /\ ToldOnce
    /\ HoldInv /\ SentInv /\ JournalInv /\ ToldInv /\ OwedInv

-----------------------------------------------------------------------------
(* The memory of the handlers.                                              *)

\* The handler of q keeps its memory.
Same(q) ==
    /\ pc'[q] = pc[q] /\ id'[q] = id[q] /\ agg'[q] = agg[q]
    /\ todo'[q] = todo[q] /\ won'[q] = won[q] /\ sent'[q] = sent[q]

Others(r) == \A q \in Regions \ {r} : Same(q)

\* It has no claims and has resolved nothing.
Quiet(q) == won[q] = {} /\ sent[q] = {} /\ ~ Resolver(q)

\* It has sent what it wants to log.
LogsSent(q) == pc[q] = "log" => \A c \in todo[q] : Sent(id[q], c)

\* Incidents have a number.
LEMMA IdFacts == 0 \notin Ids /\ Cardinality(Regions) \in Nat /\ Ids \subseteq Nat /\ IsFiniteSet(Ids)
<1>1. Cardinality(Regions) \in Nat
    BY DetectorAssumption, FS_CardinalityType
<1> QED BY <1>1, FS_Interval DEF Ids

\* A handler that returns has nothing in hand.
LEMMA ReturnEffect ==
    ASSUME MemoryOK, NEW r \in Regions, Return(r)
    PROVE  /\ MemoryOK' /\ Others(r) /\ InHand(r)' /\ Quiet(r)'
           /\ pc'[r] = "idle" /\ id'[r] = 0 /\ todo'[r] = {} /\ won'[r] = {} /\ sent'[r] = {}
<1> USE DEF MemoryOK, Return
<1>1. pc' \in [Regions -> Stages] /\ pc'[r] = "idle" /\ \A q \in Regions \ {r} : pc'[q] = pc[q]
    BY DEF Goto, Stages
<1>2. /\ id' \in [Regions -> Ids \cup {0}] /\ agg' \in [Regions -> {"unknown", "up", "down"}]
      /\ id'[r] = 0 /\ \A q \in Regions \ {r} : id'[q] = id[q] /\ agg'[q] = agg[q]
    OBVIOUS
<1>3. /\ todo' \in [Regions -> SUBSET Channels] /\ won' \in [Regions -> SUBSET Channels]
      /\ sent' \in [Regions -> SUBSET Channels]
      /\ todo'[r] = {} /\ won'[r] = {} /\ sent'[r] = {}
      /\ \A q \in Regions \ {r} : todo'[q] = todo[q] /\ won'[q] = won[q] /\ sent'[q] = sent[q]
    OBVIOUS
<1> QED BY <1>1, <1>2, <1>3 DEF Others, Same, InHand, Apart, Quiet, Resolver

\* A handler that goes on keeps what it has.
LEMMA GotoEffect ==
    ASSUME MemoryOK, NEW r \in Regions, NEW l \in Stages, Goto(r, l), UNCHANGED memory
    PROVE  /\ MemoryOK' /\ Others(r)
           /\ pc'[r] = l /\ id'[r] = id[r] /\ agg'[r] = agg[r] /\ todo'[r] = todo[r]
           /\ won'[r] = won[r] /\ sent'[r] = sent[r]
BY DEF MemoryOK, Goto, memory, Others, Same

\* It takes up incident i.
LEMMA TakeEffect ==
    ASSUME MemoryOK, NEW r \in Regions, NEW l \in Stages, NEW i \in Ids, NEW S \in SUBSET Channels,
           Goto(r, l), id' = [id EXCEPT ![r] = i], todo' = [todo EXCEPT ![r] = S],
           UNCHANGED <<agg, won, sent>>
    PROVE  /\ MemoryOK' /\ Others(r)
           /\ pc'[r] = l /\ id'[r] = i /\ agg'[r] = agg[r] /\ todo'[r] = S
           /\ won'[r] = won[r] /\ sent'[r] = sent[r]
<1> USE DEF MemoryOK
<1>1. pc' \in [Regions -> Stages] /\ pc'[r] = l /\ \A q \in Regions \ {r} : pc'[q] = pc[q]
    BY DEF Goto
<1>2. id' \in [Regions -> Ids \cup {0}] /\ id'[r] = i /\ \A q \in Regions \ {r} : id'[q] = id[q]
    OBVIOUS
<1>3. todo' \in [Regions -> SUBSET Channels] /\ todo'[r] = S /\ \A q \in Regions \ {r} : todo'[q] = todo[q]
    OBVIOUS
<1> QED BY <1>1, <1>2, <1>3 DEF Others, Same

\* What is left to show of the memory after a step of r.
LEMMA HandPut ==
    ASSUME TypeInv, NEW r \in Regions, RowsOK', MemoryOK', Others(r), InHand(r)'
    PROVE  TypeInv'
BY DEF TypeInv, Others, Same, InHand

\* A row of the table changes.
LEMMA RowPut ==
    ASSUME incidents \in [Ids -> Row], NEW i \in Ids, NEW x \in Row, incidents' = [incidents EXCEPT ![i] = x]
    PROVE  /\ incidents' \in [Ids -> Row] /\ incidents'[i] = x
           /\ \A j \in Ids \ {i} : incidents'[j] = incidents[j]
OBVIOUS

\* Rows keep their state and their channels.
SameRows ==
    \A i \in Ids : incidents'[i].open = incidents[i].open /\ incidents'[i].channels = incidents[i].channels

\* Every handler keeps its memory, or has neither claims nor a recovery in hand.
Calm ==
    \A q \in Regions : Same(q) \/ (Quiet(q) /\ Quiet(q)' /\ LogsSent(q)')

\* A step that touches neither claims nor alarms nor recoveries keeps the invariant.
LEMMA CalmStep ==
    ASSUME IInv, TypeInv', Calm, SameRows, UNCHANGED <<log, fresh, alarms, recoveries, owed, excused>>
    PROVE  IInv'
<1>1. TypeInv
    BY DEF IInv
<1>2. \A q \in Regions : /\ won'[q] = won[q] /\ sent'[q] = sent[q]
                         /\ won[q] # {} => Same(q)
                         /\ sent[q] # {} => Same(q)
                         /\ Resolver(q) => Same(q)
                         /\ Resolver(q)' => Same(q)
    BY DEF Calm, Same, Quiet
<1>3. OneResolver'
    <2>1. \A r \in Regions : Resolver(r)' => Resolver(r) /\ id'[r] = id[r] /\ id[r] \in Ids
        BY <1>1, <1>2 DEF Same, Resolver, TypeInv, MemoryOK, InHand, Apart
    <2> QED BY <2>1 DEF IInv, OneResolver, SameRows
<1>4. OpenUntold'
    BY DEF IInv, OpenUntold, SameRows
<1>5. ToldOnce'
    BY <1>2 DEF IInv, ToldOnce, Same, Resolver
<1>6. HoldInv'
    BY <1>2 DEF IInv, HoldInv, Same, Excused
<1>7. SentInv'
    <2>1. \A q \in Regions : LogsSent(q)'
        BY DEF Calm, LogsSent, IInv, SentInv, Same, Sent
    <2>2. \A q \in Regions : \A c \in sent'[q] : Sent(id[q], c)'
        BY <1>2 DEF IInv, SentInv, Same, Sent
    <2>3. \A i \in Ids : \A c \in incidents'[i].channels : Sent(i, c)'
        BY DEF IInv, SentInv, SameRows, Sent
    <2> QED BY <2>1, <2>2, <2>3 DEF SentInv, LogsSent
<1>8. JournalInv'
    BY <1>2 DEF IInv, JournalInv, Same, Excused, Sent
<1>9. ToldInv'
    <2>1. \A q \in Regions : pc'[q] = "recover" => Same(q)
        BY <1>2 DEF Resolver
    <2> QED BY <2>1 DEF IInv, ToldInv, Same, Excused, Sent, Told
<1>10. OwedInv'
    BY <1>2 DEF IInv, OwedInv, Same, Excused, Told, Resolver
<1> QED BY <1>3, <1>4, <1>5, <1>6, <1>7, <1>8, <1>9, <1>10 DEF IInv

-----------------------------------------------------------------------------
(* Steps of that kind.                                                      *)

\* A handler of r that is calm before and after.
LEMMA CalmHandler ==
    ASSUME IInv, NEW r \in Regions, pc[r] \notin {"send", "log", "channels", "recover"},
           RowsOK', MemoryOK', Others(r), InHand(r)', Quiet(r)', LogsSent(r)',
           SameRows, UNCHANGED <<log, fresh, alarms, recoveries, owed, excused>>
    PROVE  IInv'
<1>1. TypeInv'
    BY HandPut DEF IInv
<1>2. Quiet(r)
    BY DEF Quiet, Resolver, IInv, TypeInv, InHand
<1>3. Calm
    BY <1>2 DEF Calm, Others
<1> QED BY <1>1, <1>3, CalmStep

\* It returns.
LEMMA CalmReturn ==
    ASSUME IInv, NEW r \in Regions, pc[r] \notin {"send", "log", "channels", "recover"}, Return(r),
           RowsOK', SameRows, UNCHANGED <<log, fresh, alarms, recoveries, owed, excused>>
    PROVE  IInv'
<1>1. /\ MemoryOK' /\ Others(r) /\ InHand(r)' /\ Quiet(r)' /\ pc'[r] = "idle"
    BY ReturnEffect DEF IInv, TypeInv
<1> QED BY <1>1, CalmHandler DEF LogsSent

\* It goes on.
LEMMA CalmGoto ==
    ASSUME IInv, NEW r \in Regions, pc[r] \notin {"send", "log", "channels", "recover"},
           NEW l \in Stages \ {"send", "log", "channels", "recover"},
           pc[r] \in Apart <=> l \in Apart, l = "resolve" => agg[r] = "up",
           Goto(r, l), UNCHANGED memory,
           RowsOK', SameRows, UNCHANGED <<log, fresh, alarms, recoveries, owed, excused>>
    PROVE  IInv'
<1>1. /\ MemoryOK' /\ Others(r)
      /\ pc'[r] = l /\ id'[r] = id[r] /\ agg'[r] = agg[r] /\ todo'[r] = todo[r]
      /\ won'[r] = won[r] /\ sent'[r] = sent[r]
    BY GotoEffect DEF IInv, TypeInv
<1>2. InHand(r)' /\ Quiet(r)' /\ LogsSent(r)'
    BY <1>1 DEF IInv, TypeInv, InHand, Quiet, Resolver, LogsSent
<1> QED BY <1>1, <1>2, CalmHandler

\* detectIncident reads.
LEMMA ReadStep ==
    ASSUME IInv, NEW r \in Regions, ReadStates(r) \/ OpenIncidentFor(r)
    PROVE  IInv'
<1> USE DEF db, world, observed
<1>1. UNCHANGED <<incidents, log, fresh, deliverable, alarms, recoveries, owed, excused>>
    BY DEF ReadStates, OpenIncidentFor
<1>2. RowsOK' /\ SameRows
    BY <1>1 DEF IInv, TypeInv, RowsOK, SameRows
<1>3. MemoryOK /\ InHand(r) /\ id[r] = 0 /\ pc[r] \in {"states", "find"}
    BY DEF IInv, TypeInv, InHand, Apart, ReadStates, OpenIncidentFor
<1>4. CASE Return(r)
    BY <1>1, <1>2, <1>3, <1>4, CalmReturn
<1>5. CASE ReadStates(r) /\ ~ Return(r)
    <2>1. Aggregate(States, want[r]) \in {"unknown", "up", "down"}
        BY DEF Aggregate
    <2>2. pc' = [pc EXCEPT ![r] = "find"] /\ UNCHANGED <<id, todo, won, sent>>
          /\ agg' = [agg EXCEPT ![r] = Aggregate(States, want[r])]
        BY <1>5 DEF ReadStates, Goto
    <2>3. /\ MemoryOK' /\ Others(r) /\ pc'[r] = "find" /\ id'[r] = 0
          /\ todo'[r] = todo[r] /\ won'[r] = won[r] /\ sent'[r] = sent[r]
        BY <1>3, <2>1, <2>2 DEF MemoryOK, Others, Same, Stages
    <2>4. InHand(r)' /\ Quiet(r)' /\ LogsSent(r)'
        BY <1>3, <2>3 DEF InHand, Apart, Quiet, Resolver, LogsSent
    <2> QED BY <1>1, <1>2, <1>3, <2>3, <2>4, CalmHandler
<1>6. ASSUME NEW l \in {"open", "resolve"}, pc[r] = "find", l = "resolve" => agg[r] = "up",
             Goto(r, l), UNCHANGED memory
      PROVE  IInv'
    <2>1. l \in Stages \ {"send", "log", "channels", "recover"} /\ l \in Apart /\ pc[r] \in Apart
        BY <1>6 DEF Stages, Apart
    <2> QED BY <1>1, <1>2, <1>3, <1>6, <2>1, CalmGoto
<1>7. ASSUME NEW i \in Opened, pc[r] = "find", agg[r] = "down", Settle(i) # "idle", Goto(r, Settle(i)),
             id' = [id EXCEPT ![r] = i],
             todo' = [todo EXCEPT ![r] = IF Settle(i) = "log" THEN incidents[i].channels ELSE {}],
             UNCHANGED <<agg, won, sent>>
      PROVE  IInv'
    <2> DEFINE S == IF Settle(i) = "log" THEN incidents[i].channels ELSE {}
    <2>1. i \in Ids /\ S \in SUBSET Channels
        BY DEF Opened, IInv, TypeInv, RowsOK, Row
    <2>2. Settle(i) \in {"log", "claim", "held", "gate"} /\ Settle(i) \in Stages
        BY <1>7 DEF Settle, Stages
    <2>3. /\ MemoryOK' /\ Others(r)
          /\ pc'[r] = Settle(i) /\ id'[r] = i /\ agg'[r] = agg[r] /\ todo'[r] = S
          /\ won'[r] = won[r] /\ sent'[r] = sent[r]
        BY <1>3, <1>7, <2>1, <2>2, TakeEffect
    <2>4. InHand(r)' /\ Quiet(r)'
        BY <1>3, <1>7, <2>1, <2>2, <2>3, IdFacts DEF InHand, Apart, Quiet, Resolver
    <2>5. LogsSent(r)'
        BY <1>1, <2>1, <2>3 DEF LogsSent, Sent, IInv, SentInv
    <2> QED BY <1>1, <1>2, <1>3, <1>7, <2>3, <2>4, <2>5, CalmHandler
<1>8. CASE OpenIncidentFor(r)
    BY <1>4, <1>6, <1>7, <1>8 DEF OpenIncidentFor, Proceed
<1> QED BY <1>4, <1>5, <1>8

\* The gates of settleHeldIncident, and a claim that fails.
LEMMA GateStep ==
    ASSUME IInv, NEW r \in Regions,
           \/ \E fails \in BOOLEAN : Held(r, fails) \/ Gate(r, fails)
           \/ ClearSuppressedByDep(r) \/ MarkSuppressedByDep(r)
    PROVE  IInv'
<1> USE DEF db, world, observed
<1>1. /\ MemoryOK /\ InHand(r) /\ id[r] \in Ids /\ pc[r] \in {"held", "gate", "clear", "suppress"}
      /\ incidents \in [Ids -> Row]
    BY DEF IInv, TypeInv, RowsOK, MemoryOK, InHand, Apart, Held, Gate, ClearSuppressedByDep, MarkSuppressedByDep
<1>2. UNCHANGED <<log, fresh, deliverable, alarms, recoveries, owed, excused>>
    BY DEF Held, Gate, ClearSuppressedByDep, MarkSuppressedByDep
<1>3. incidents' \in [Ids -> Row] /\ SameRows
    <2>1. CASE UNCHANGED incidents
        BY <1>1, <2>1 DEF SameRows
    <2>2. ASSUME NEW b \in BOOLEAN, incidents' = [incidents EXCEPT ![id[r]].suppressed = b]
          PROVE  <1>3
        <3> DEFINE x == [incidents[id[r]] EXCEPT !.suppressed = b]
        <3>1. x \in Row /\ x.open = incidents[id[r]].open /\ x.channels = incidents[id[r]].channels
            BY <1>1 DEF Row
        <3>2. incidents' = [incidents EXCEPT ![id[r]] = x]
            BY <1>1, <2>2 DEF Row
        <3> HIDE DEF x
        <3> QED BY <1>1, <3>1, <3>2, RowPut DEF SameRows
    <2> QED BY <2>1, <2>2 DEF Held, Gate, ClearSuppressedByDep, MarkSuppressedByDep
<1>4. RowsOK'
    BY <1>2, <1>3 DEF IInv, TypeInv, RowsOK
<1>5. CASE Return(r)
    BY <1>1, <1>2, <1>3, <1>4, <1>5, CalmReturn
<1>6. ASSUME NEW l \in {"clear", "gate", "suppress", "claim"}, Goto(r, l), UNCHANGED memory PROVE IInv'
    <2>1. l \in Stages \ {"send", "log", "channels", "recover"} /\ l \notin Apart /\ pc[r] \notin Apart /\ l # "resolve"
        BY <1>1 DEF Stages, Apart
    <2> QED BY <1>1, <1>2, <1>3, <1>4, <1>6, <2>1, CalmGoto
<1> QED BY <1>5, <1>6 DEF Held, Gate, ClearSuppressedByDep, MarkSuppressedByDep, Proceed

\* The claim fails: there is nothing to send.
LEMMA ClaimErrorStep == ASSUME IInv, NEW r \in Regions, ClaimError(r) PROVE IInv'
<1> USE DEF db, world, observed
<1>1. MemoryOK /\ InHand(r) /\ pc[r] = "claim"
    BY DEF IInv, TypeInv, ClaimError
<1>2. UNCHANGED <<incidents, log, fresh, deliverable, alarms, recoveries, owed, excused>>
    BY DEF ClaimError
<1>3. RowsOK' /\ SameRows
    BY <1>2 DEF IInv, TypeInv, RowsOK, SameRows
<1>4. /\ MemoryOK' /\ Others(r) /\ pc'[r] = "send" /\ id'[r] = id[r] /\ agg'[r] = agg[r]
      /\ todo'[r] = todo[r] /\ won'[r] = won[r] /\ sent'[r] = sent[r]
    BY <1>1 DEF ClaimError, Goto, MemoryOK, Others, Same, Stages
<1>5. InHand(r)' /\ Quiet(r)' /\ LogsSent(r)'
    BY <1>1, <1>4 DEF InHand, Apart, Quiet, Resolver, LogsSent
<1> QED BY <1>1, <1>2, <1>3, <1>4, <1>5, CalmHandler

\* Time passes, the scheduler releases, the operator edits, the world changes.
LEMMA WorldStep ==
    ASSUME IInv,
           \/ \E i \in Ids : GracePasses(i) \/ ReleaseSuppressed(i)
           \/ (\E S \in SUBSET Regions : UpdateRegions(S)) \/ WorldChanges \/ UNCHANGED vars
    PROVE  IInv'
<1> USE DEF db, world, observed, memory
<1>1. UNCHANGED <<log, fresh, alarms, recoveries, owed, excused, pc, id, agg, todo, won, sent>>
    BY DEF GracePasses, ReleaseSuppressed, UpdateRegions, WorldChanges, vars
<1>2. incidents \in [Ids -> Row] /\ deliverable \subseteq Channels
    BY DEF IInv, TypeInv, RowsOK
<1>3. incidents' \in [Ids -> Row] /\ SameRows
    <2>1. CASE UNCHANGED incidents
        BY <1>2, <2>1 DEF SameRows
    <2>2. ASSUME NEW i \in Ids, GracePasses(i) PROVE <1>3
        <3> DEFINE x == [incidents[i] EXCEPT !.old = TRUE]
        <3>1. x \in Row /\ x.open = incidents[i].open /\ x.channels = incidents[i].channels
            BY <1>2 DEF Row
        <3>2. incidents' = [incidents EXCEPT ![i] = x]
            BY <1>2, <2>2 DEF GracePasses, Row
        <3> HIDE DEF x
        <3> QED BY <1>2, <3>1, <3>2, RowPut DEF SameRows
    <2>3. ASSUME NEW i \in Ids, ReleaseSuppressed(i) PROVE <1>3
        <3> DEFINE x == [incidents[i] EXCEPT !.suppressed = FALSE]
        <3>1. x \in Row /\ x.open = incidents[i].open /\ x.channels = incidents[i].channels
            BY <1>2 DEF Row
        <3>2. incidents' = [incidents EXCEPT ![i] = x]
            BY <1>2, <2>3 DEF ReleaseSuppressed, Row
        <3> HIDE DEF x
        <3> QED BY <1>2, <3>1, <3>2, RowPut DEF SameRows
    <2> QED BY <2>1, <2>2, <2>3 DEF UpdateRegions, WorldChanges, vars
<1>4. deliverable' \subseteq Channels
    BY <1>2 DEF GracePasses, ReleaseSuppressed, UpdateRegions, WorldChanges, vars
<1>5. TypeInv'
    BY <1>1, <1>3, <1>4 DEF IInv, TypeInv, RowsOK, MemoryOK, InHand
<1>6. Calm
    BY <1>1 DEF Calm, Same
<1> QED BY <1>1, <1>3, <1>5, <1>6, CalmStep

-----------------------------------------------------------------------------
(* A number is used again.                                                  *)

\* The rows and observations after Forget.
LEMMA ForgetRows ==
    ASSUME IInv, NEW S \in SUBSET Ids, NEW rows \in [Ids -> Row], Forget(S, rows), UNCHANGED deliverable
    PROVE  /\ RowsOK' /\ incidents' = rows
           /\ \A i \in Ids, c \in Channels : i \in S =>
                 /\ <<i, c>> \notin log' /\ <<i, c>> \notin fresh' /\ <<i, c>> \notin excused'
                 /\ alarms'[<<i, c>>] = 0 /\ recoveries'[<<i, c>>] = 0 /\ i \notin owed'
           /\ \A i \in Ids, c \in Channels : i \notin S =>
                 /\ <<i, c>> \in log' <=> <<i, c>> \in log
                 /\ <<i, c>> \in fresh' <=> <<i, c>> \in fresh
                 /\ <<i, c>> \in excused' <=> <<i, c>> \in excused
                 /\ alarms'[<<i, c>>] = alarms[<<i, c>>] /\ recoveries'[<<i, c>>] = recoveries[<<i, c>>]
                 /\ i \in owed' <=> i \in owed
<1>1. RowsOK
    BY DEF IInv, TypeInv
<1>2. /\ DOMAIN alarms = Pairs /\ DOMAIN recoveries = Pairs
      /\ \A i \in Ids, c \in Channels : <<i, c>> \in Pairs /\ <<i, c>>[1] = i
      /\ \A x \in Pairs : x[1] \in Ids
    BY <1>1 DEF RowsOK, Pairs
<1>3. /\ alarms' \in [Pairs -> Nat] /\ recoveries' \in [Pairs -> Nat]
      /\ \A x \in Pairs : /\ alarms'[x] = (IF x[1] \in S THEN 0 ELSE alarms[x])
                          /\ recoveries'[x] = (IF x[1] \in S THEN 0 ELSE recoveries[x])
    BY <1>1, <1>2 DEF Forget, RowsOK
<1>4. RowsOK' /\ incidents' = rows
    BY <1>1, <1>3 DEF Forget, RowsOK
<1>5. \A i \in Ids, c \in Channels :
          /\ <<i, c>> \in log' <=> <<i, c>> \in log /\ i \notin S
          /\ <<i, c>> \in fresh' <=> <<i, c>> \in fresh /\ i \notin S
          /\ <<i, c>> \in excused' <=> <<i, c>> \in excused /\ i \notin S
    BY DEF Forget
<1>6. \A i \in Ids : i \in owed' <=> i \in owed /\ i \notin S
    BY DEF Forget
<1> QED BY <1>2, <1>3, <1>4, <1>5, <1>6

\* Incidents that are finished are forgotten, or make way for a new one.
LEMMA ForgetStep ==
    ASSUME IInv, NEW S \in SUBSET Finished, NEW rows \in [Ids -> Row], Forget(S, rows), UNCHANGED deliverable,
           \A i \in Ids : IF i \in S THEN rows[i].channels = {} ELSE rows[i] = incidents[i],
           NEW r \in Regions, pc[r] \notin {"send", "log", "channels", "recover"},
           MemoryOK', Others(r), InHand(r)', Quiet(r)', pc'[r] # "log"
    PROVE  IInv'
<1>1. S \in SUBSET Ids /\ \A q \in Regions : id[q] \notin S
    BY DEF Finished, Working
<1>2. RowsOK' /\ incidents' = rows
    BY <1>1, ForgetRows
<1>3. \A i \in Ids, c \in Channels : i \in S =>
          /\ <<i, c>> \notin log' /\ <<i, c>> \notin fresh' /\ <<i, c>> \notin excused'
          /\ alarms'[<<i, c>>] = 0 /\ recoveries'[<<i, c>>] = 0 /\ i \notin owed'
    BY <1>1, ForgetRows
<1>4. \A i \in Ids, c \in Channels : i \notin S =>
          /\ <<i, c>> \in log' <=> <<i, c>> \in log
          /\ <<i, c>> \in fresh' <=> <<i, c>> \in fresh
          /\ <<i, c>> \in excused' <=> <<i, c>> \in excused
          /\ alarms'[<<i, c>>] = alarms[<<i, c>>] /\ recoveries'[<<i, c>>] = recoveries[<<i, c>>]
          /\ i \in owed' <=> i \in owed
    BY <1>1, ForgetRows
<1>5. TypeInv' /\ TypeInv
    BY <1>2, HandPut DEF IInv
<1>6. Quiet(r)
    BY <1>5 DEF Quiet, Resolver, TypeInv, InHand
<1>7. \A q \in Regions : q # r => Same(q)
    BY DEF Others
<1>8. \A q \in Regions : /\ won'[q] = won[q] /\ sent'[q] = sent[q]
                         /\ won[q] # {} \/ sent[q] # {} \/ Resolver(q) \/ Resolver(q)' \/ pc'[q] \in {"log", "recover"}
                                => Same(q) /\ id[q] \in Ids /\ id[q] \notin S
    <2>1. \A q \in Regions : /\ won'[q] = won[q] /\ sent'[q] = sent[q]
                             /\ won[q] # {} \/ sent[q] # {} \/ Resolver(q) \/ Resolver(q)' \/ pc'[q] \in {"log", "recover"}
                                => Same(q)
        BY <1>6, <1>7 DEF Same, Quiet, Resolver
    <2>2. \A q \in Regions : Same(q) /\ (won[q] # {} \/ sent[q] # {} \/ Resolver(q) \/ Resolver(q)' \/ pc'[q] \in {"log", "recover"})
              => pc[q] \notin Apart
        BY <1>5 DEF TypeInv, InHand, Same, Resolver, Apart
    <2>3. \A q \in Regions : pc[q] \notin Apart => id[q] \in Ids
        BY <1>5 DEF TypeInv, InHand, MemoryOK
    <2> QED BY <1>1, <2>1, <2>2, <2>3
<1>9. OneResolver'
    BY <1>2, <1>8 DEF IInv, OneResolver, Same, Resolver
<1>10. OpenUntold'
    <2>1. ASSUME NEW i \in Ids, incidents'[i].open
          PROVE  i \notin owed' /\ \A c \in Channels : recoveries'[<<i, c>>] = 0
        <3>1. PICK c \in Channels : TRUE
            BY DetectorAssumption
        <3> QED BY <1>2, <1>3, <1>4, <2>1, <3>1 DEF IInv, OpenUntold
    <2> QED BY <2>1 DEF OpenUntold
<1>11. ToldOnce'
    <2>1. \A q \in Regions, c \in Channels :
              (Resolver(q) /\ (pc[q] = "recover" => c \in todo[q]))' => recoveries'[<<id'[q], c>>] = 0
        BY <1>4, <1>8 DEF IInv, ToldOnce, Same, Resolver
    <2>2. \A i \in Ids, c \in Channels : recoveries'[<<i, c>>] <= 1
        <3>1. \A i \in Ids, c \in Channels : <<i, c>> \in Pairs
            BY DEF Pairs
        <3>2. \A i \in Ids, c \in Channels : recoveries[<<i, c>>] <= 1
            BY <3>1 DEF IInv, ToldOnce
        <3> SUFFICES ASSUME NEW i \in Ids, NEW c \in Channels PROVE recoveries'[<<i, c>>] <= 1
            OBVIOUS
        <3>3. recoveries'[<<i, c>>] \in {0, recoveries[<<i, c>>]}
            BY <1>3, <1>4
        <3> QED BY <3>2, <3>3
    <2> QED BY <2>1, <2>2 DEF ToldOnce, Pairs
<1>12. HoldInv'
    <2>1. \A q \in Regions : won'[q] \subseteq Channels
        BY <1>5 DEF TypeInv, MemoryOK
    <2>2. ASSUME NEW q \in Regions, NEW c \in won'[q], ~ Excused(id[q], c)'
          PROVE  /\ <<id'[q], c>> \in log' \cap fresh'
                 /\ \A u \in Regions : id'[u] = id'[q] /\ c \in won'[u] => u = q
        <3>1. /\ won'[q] = won[q] /\ id'[q] = id[q] /\ id[q] \in Ids /\ id[q] \notin S /\ c \in Channels
            BY <1>8, <2>1 DEF Same
        <3>2. ~ Excused(id[q], c)
            BY <1>4, <2>2, <3>1 DEF Excused
        <3>3. <<id[q], c>> \in log \cap fresh /\ \A u \in Regions : id[u] = id[q] /\ c \in won[u] => u = q
            BY <3>1, <3>2 DEF IInv, HoldInv
        <3> QED BY <1>4, <1>8, <3>1, <3>3 DEF Same
    <2> QED BY <2>2 DEF HoldInv
<1>13. SentInv'
    <2>1. \A q \in Regions : \A c \in sent'[q] : Sent(id[q], c)'
        BY <1>4, <1>5, <1>8 DEF IInv, SentInv, Same, Sent, TypeInv, MemoryOK
    <2>2. \A q \in Regions : pc'[q] = "log" => \A c \in todo'[q] : Sent(id[q], c)'
        BY <1>4, <1>5, <1>8 DEF IInv, SentInv, Same, Sent, TypeInv, MemoryOK
    <2>3. \A i \in Ids : \A c \in incidents'[i].channels : Sent(i, c)'
        BY <1>2, <1>4, <1>5 DEF IInv, SentInv, Sent, TypeInv, RowsOK, Row
    <2> QED BY <2>1, <2>2, <2>3 DEF SentInv
<1>14. JournalInv'
    <2>1. ASSUME NEW i \in Ids, NEW c \in Channels, ~ Excused(i, c)'
          PROVE  /\ Sent(i, c)' => <<i, c>> \in log'
                 /\ <<i, c>> \in log' => Sent(i, c)' \/ \E q \in Regions : id'[q] = i /\ c \in won'[q] \ sent'[q]
        <3>1. CASE i \in S
            BY <1>3, <3>1 DEF Sent
        <3>2. CASE i \notin S
            BY <1>4, <1>8, <2>1, <3>2 DEF IInv, JournalInv, Sent, Excused, Same
        <3> QED BY <3>1, <3>2
    <2> QED BY <2>1 DEF JournalInv
<1>15. ToldInv'
    <2>1. \A q \in Regions : pc'[q] = "recover" => \A c \in todo'[q] : ~ Excused(id[q], c)' => Sent(id[q], c)'
        BY <1>4, <1>5, <1>8 DEF IInv, ToldInv, Same, Sent, Excused, TypeInv, MemoryOK
    <2>2. \A i \in Ids, c \in Channels : Told(i, c)' /\ ~ Excused(i, c)' => Sent(i, c)'
        BY <1>3, <1>4 DEF IInv, ToldInv, Sent, Excused, Told
    <2> QED BY <2>1, <2>2 DEF ToldInv
<1>16. OwedInv'
    <2>1. ASSUME NEW i \in owed', NEW c \in Channels, <<i, c>> \in log', ~ Excused(i, c)'
          PROVE  \/ Told(i, c)'
                 \/ \E q \in Regions : id'[q] = i /\ (Resolver(q) /\ (pc[q] = "recover" => c \in todo[q]))'
        <3>1. i \in Ids /\ i \notin S
            BY <1>3, <1>5 DEF TypeInv, RowsOK
        <3>2. i \in owed /\ <<i, c>> \in log /\ ~ Excused(i, c)
            BY <1>4, <2>1, <3>1 DEF Excused
        <3>3. CASE Told(i, c)
            BY <1>4, <3>1, <3>3 DEF Told
        <3>4. CASE \E q \in Regions : id[q] = i /\ Resolver(q) /\ (pc[q] = "recover" => c \in todo[q])
            BY <1>8, <3>4 DEF Same, Resolver
        <3> QED BY <3>2, <3>3, <3>4 DEF IInv, OwedInv
    <2> QED BY <2>1 DEF OwedInv
<1> QED BY <1>5, <1>9, <1>10, <1>11, <1>12, <1>13, <1>14, <1>15, <1>16 DEF IInv

\* A result comes.
LEMMA ResultStep ==
    ASSUME IInv, NEW r \in Regions, Result(r)
    PROVE  IInv'
<1> USE DEF world
<1>1. PICK n, s : ApplyResult(r, n, s)
    BY DEF Result
<1> DEFINE rows == [i \in Ids |-> IF i \in Finished THEN NoIncident ELSE incidents[i]]
<1>2. incidents \in [Ids -> Row] /\ MemoryOK /\ InHand(r) /\ pc[r] = "idle"
    BY <1>1 DEF IInv, TypeInv, RowsOK, ApplyResult
<1>3. NoIncident \in Row /\ NoIncident.channels = {}
    BY DEF NoIncident, NewIncident, Row
<1>4. rows \in [Ids -> Row] /\ \A i \in Ids : IF i \in Finished THEN rows[i].channels = {} ELSE rows[i] = incidents[i]
    BY <1>2, <1>3
<1>5. Forget(Finished, rows) /\ UNCHANGED deliverable
    BY <1>1 DEF ApplyResult
<1> HIDE DEF rows
<1>6. /\ MemoryOK' /\ Others(r) /\ pc'[r] = "states" /\ id'[r] = id[r] /\ agg'[r] = agg[r]
      /\ todo'[r] = todo[r] /\ won'[r] = won[r] /\ sent'[r] = sent[r]
    BY <1>1, <1>2 DEF ApplyResult, Goto, MemoryOK, Others, Same, Stages
<1>7. InHand(r)' /\ Quiet(r)'
    BY <1>2, <1>6 DEF InHand, Apart, Quiet, Resolver
<1> QED BY <1>2, <1>4, <1>5, <1>6, <1>7, ForgetStep

\* While one handler has no incident in hand, and none is open, a number is free.
LEMMA NumberIsFree ==
    ASSUME TypeInv, NEW r \in Regions, id[r] = 0, Opened = {}
    PROVE  Finished # {}
<1> SUFFICES ASSUME Finished = {} PROVE FALSE
    OBVIOUS
<1>1. \A i \in Ids : \E q \in Regions \ {r} : id[q] = i
    BY IdFacts DEF Finished, Opened, Working
<1>2. IsFiniteSet(Regions \ {r}) /\ Cardinality(Regions \ {r}) = Cardinality(Regions) - 1
    BY DetectorAssumption, FS_RemoveElement
<1> DEFINE f == [q \in Regions \ {r} |-> IF id[q] = 0 THEN 1 ELSE id[q]]
<1>3. Cardinality(Regions) \in Nat
    BY IdFacts
<1>4. Cardinality(Regions) # 0
    BY DetectorAssumption, FS_EmptySet
<1>5. 1 \in Ids /\ Cardinality(Ids) = Cardinality(Regions)
    BY <1>3, <1>4, FS_Interval DEF Ids
<1>6. f \in [Regions \ {r} -> Ids]
    BY <1>5 DEF TypeInv, MemoryOK
<1>7. f \in Surjection(Regions \ {r}, Ids)
    <2>1. \A i \in Ids : \E q \in Regions \ {r} : f[q] = i
        BY <1>1, IdFacts
    <2> QED BY <1>6, <2>1 DEF Surjection
<1> HIDE DEF f
<1>8. Cardinality(Ids) <= Cardinality(Regions \ {r})
    BY <1>2, <1>7, FS_Surjection
<1> QED BY <1>2, <1>3, <1>5, <1>8

\* An incident is opened, or was there.
LEMMA OpenStep ==
    ASSUME IInv, NEW r \in Regions, NEW fails \in BOOLEAN, OpenIncident(r, fails)
    PROVE  IInv'
<1> USE DEF world, observed
<1>1. incidents \in [Ids -> Row] /\ MemoryOK /\ InHand(r) /\ pc[r] = "open" /\ id[r] = 0 /\ TypeInv
    BY DEF IInv, TypeInv, RowsOK, InHand, Apart, OpenIncident
<1>2. UNCHANGED deliverable
    BY DEF OpenIncident
<1>3. CASE Opened # {}
    <2>1. Return(r) /\ UNCHANGED <<incidents, log, fresh, alarms, recoveries, owed, excused>>
        BY <1>3 DEF OpenIncident, Conflict
    <2>2. RowsOK' /\ SameRows
        BY <1>2, <2>1 DEF IInv, TypeInv, RowsOK, SameRows
    <2> QED BY <1>1, <2>1, <2>2, CalmReturn
<1>4. CASE Opened = {}
    <2> DEFINE new == CHOOSE i \in Finished : TRUE
               x == NewIncident(maint /\ ~ fails)
               rows == [incidents EXCEPT ![new] = x]
    <2>1. PICK n \in Finished : n = new
        BY <1>1, <1>4, NumberIsFree
    <2>2. n \in Ids
        BY DEF Finished
    <2>3. x \in Row /\ x.channels = {}
        <3>1. (maint /\ ~ fails) \in BOOLEAN
            OBVIOUS
        <3> QED BY <3>1 DEF NewIncident, Row
    <2>4. /\ Forget({new}, rows)
          /\ IF (maint \/ parent # "none") /\ ~ fails THEN Return(r)
             ELSE /\ Goto(r, "claim") /\ id' = [id EXCEPT ![r] = new]
                  /\ UNCHANGED <<want, agg, todo, won, sent, err>>
        BY <1>4 DEF OpenIncident
    <2> HIDE DEF x, new
    <2>5. rows \in [Ids -> Row] /\ \A i \in Ids : IF i \in {n} THEN rows[i].channels = {} ELSE rows[i] = incidents[i]
        BY <1>1, <2>1, <2>2, <2>3
    <2>6. /\ MemoryOK' /\ Others(r) /\ InHand(r)' /\ Quiet(r)' /\ pc'[r] # "log"
        <3>1. CASE Return(r)
            BY <1>1, <3>1, ReturnEffect
        <3>2. CASE Goto(r, "claim") /\ id' = [id EXCEPT ![r] = n] /\ UNCHANGED <<agg, todo, won, sent>>
            <4>1. /\ MemoryOK' /\ Others(r) /\ pc'[r] = "claim" /\ id'[r] = n /\ agg'[r] = agg[r]
                  /\ todo'[r] = todo[r] /\ won'[r] = won[r] /\ sent'[r] = sent[r]
                BY <1>1, <2>2, <3>2 DEF Goto, MemoryOK, Others, Same, Stages
            <4> QED BY <1>1, <2>2, <4>1, IdFacts DEF InHand, Apart, Quiet, Resolver
        <3> QED BY <2>1, <2>4, <3>1, <3>2
    <2>7. Forget({n}, rows) /\ {n} \in SUBSET Finished
        BY <2>1, <2>4
    <2> HIDE DEF rows
    <2> QED BY <1>1, <1>2, <2>5, <2>6, <2>7, ForgetStep
<1> QED BY <1>3, <1>4

-----------------------------------------------------------------------------
(* The alarm.                                                               *)

\* r neither begins nor ends a resolution, nor does it send recoveries.
Onward(r) ==
    Resolver(r) \/ Resolver(r)' =>
        /\ Resolver(r) /\ Resolver(r)' /\ id'[r] = id[r] /\ pc[r] # "recover" /\ pc'[r] # "recover"

\* Claims and alarms leave the recoveries alone.
LEMMA WorkStep ==
    ASSUME IInv, TypeInv', NEW r \in Regions, Others(r), Onward(r), pc'[r] # "recover",
           \A i \in Ids : incidents'[i].open = incidents[i].open,
           UNCHANGED <<recoveries, owed>>, excused \subseteq excused',
           \A i \in Ids, c \in Channels : Sent(i, c) => Sent(i, c)',
           \A i \in owed, c \in Channels : <<i, c>> \in log' /\ ~ Excused(i, c)' => <<i, c>> \in log
    PROVE  OneResolver' /\ OpenUntold' /\ ToldOnce' /\ ToldInv' /\ OwedInv'
<1>1. TypeInv
    BY DEF IInv
<1>2. \A q \in Regions : q # r => Same(q)
    BY DEF Others
<1>3. \A q \in Regions : /\ Resolver(q)' <=> Resolver(q)
                         /\ Resolver(q) => id'[q] = id[q] /\ id[q] \in Ids /\ (pc'[q] = "recover" <=> pc[q] = "recover")
                         /\ pc'[q] = "recover" => Same(q)
    <2>1. \A q \in Regions : Resolver(q) => id[q] \in Ids
        BY <1>1 DEF TypeInv, MemoryOK, InHand, Apart, Resolver
    <2> QED BY <1>2, <2>1 DEF Onward, Same, Resolver
<1>4. \A q \in Regions : Resolver(q) /\ pc'[q] = "recover" => todo'[q] = todo[q]
    BY <1>3 DEF Same
<1>5. OneResolver'
    BY <1>3 DEF IInv, OneResolver
<1>6. OpenUntold'
    BY DEF IInv, OpenUntold
<1>7. ToldOnce'
    BY <1>3, <1>4 DEF IInv, ToldOnce
<1>8. ToldInv'
    <2>1. ASSUME NEW q \in Regions, pc'[q] = "recover", NEW c \in todo'[q], ~ Excused(id[q], c)'
          PROVE  Sent(id[q], c)'
        <3>1. pc[q] = "recover" /\ id'[q] = id[q] /\ todo'[q] = todo[q] /\ id[q] \in Ids /\ c \in Channels
            BY <1>1, <1>3, <2>1 DEF Same, Resolver, TypeInv, MemoryOK
        <3>2. PICK i \in Ids : i = id[q]
            BY <3>1
        <3>3. Sent(i, c)
            BY <2>1, <3>1, <3>2 DEF IInv, ToldInv, Excused
        <3>4. Sent(i, c)'
            BY <3>1, <3>3
        <3> QED BY <3>1, <3>2, <3>4 DEF Sent
    <2>2. ASSUME NEW i \in Ids, NEW c \in Channels, Told(i, c)', ~ Excused(i, c)' PROVE Sent(i, c)'
        <3>1. Told(i, c) /\ ~ Excused(i, c)
            BY <2>2 DEF Told, Excused
        <3> QED BY <3>1 DEF IInv, ToldInv
    <2> QED BY <2>1, <2>2 DEF ToldInv
<1>9. OwedInv'
    <2>1. ASSUME NEW i \in owed, NEW c \in Channels, <<i, c>> \in log', ~ Excused(i, c)'
          PROVE  \/ Told(i, c)'
                 \/ \E q \in Regions : id'[q] = i /\ (Resolver(q) /\ (pc[q] = "recover" => c \in todo[q]))'
        <3>1. <<i, c>> \in log /\ ~ Excused(i, c)
            BY <2>1 DEF Excused
        <3>2. CASE Told(i, c)
            BY <3>2 DEF Told
        <3>3. CASE \E q \in Regions : id[q] = i /\ Resolver(q) /\ (pc[q] = "recover" => c \in todo[q])
            BY <1>3, <1>4, <3>3
        <3> QED BY <3>1, <3>2, <3>3 DEF IInv, OwedInv
    <2> QED BY <2>1 DEF OwedInv
<1> QED BY <1>5, <1>6, <1>7, <1>8, <1>9

\* The handlers but r sent what they note as sent.
LEMMA SentKept ==
    ASSUME IInv, TypeInv', NEW r \in Regions, Others(r),
           \A i \in Ids, c \in Channels : Sent(i, c) => Sent(i, c)',
           \A c \in sent'[r] : Sent(id[r], c)', pc'[r] # "log",
           \A i \in Ids : \A c \in incidents'[i].channels : Sent(i, c)'
    PROVE  SentInv'
<1>1. TypeInv
    BY DEF IInv
<1>2. ASSUME NEW q \in Regions, q # r, NEW c, c \in sent'[q] \/ (pc'[q] = "log" /\ c \in todo'[q])
      PROVE  Sent(id[q], c)'
    <2>1. Same(q)
        BY <1>2 DEF Others
    <2>2. id[q] \in Ids /\ c \in Channels
        BY <1>1, <1>2, <2>1 DEF Same, TypeInv, MemoryOK, InHand, Apart
    <2>3. PICK i \in Ids : i = id[q]
        BY <2>2
    <2>4. Sent(i, c)
        BY <1>2, <2>1, <2>3 DEF Same, IInv, SentInv
    <2>5. Sent(i, c)'
        BY <2>2, <2>4
    <2> QED BY <2>1, <2>3, <2>5 DEF Same, Sent
<1> QED BY <1>2 DEF SentInv

\* The claim.
LEMMA ClaimStep ==
    ASSUME IInv, NEW r \in Regions, ClaimStepChannelsWithLease(r)
    PROVE  IInv'
<1> USE DEF world
<1>1. TypeInv /\ RowsOK /\ MemoryOK /\ InHand(r) /\ pc[r] = "claim" /\ id[r] \in Ids
    BY DEF IInv, TypeInv, MemoryOK, InHand, Apart, ClaimStepChannelsWithLease
<1>2. PICK i \in Ids : i = id[r]
    BY <1>1
<1> DEFINE w == Winnable(i)
<1>3. w \in SUBSET Channels /\ \A c \in w : <<i, c>> \notin fresh
    BY DEF Winnable
<1>4. \A c : <<i, c>> \in At(i, w) <=> c \in w
    BY DEF At
<1>5. /\ log' = log \cup At(i, w) /\ fresh' = fresh \cup At(i, w)
      /\ excused' = excused \cup {x \in At(i, w) : ~ incidents[i].open}
      /\ UNCHANGED <<incidents, deliverable, alarms, recoveries, owed>>
    BY <1>2 DEF ClaimStepChannelsWithLease
<1>6. At(i, w) \subseteq Pairs
    BY <1>3 DEF At, Pairs
<1>7. RowsOK' /\ SameRows
    BY <1>1, <1>5, <1>6 DEF RowsOK, SameRows
<1>8. CASE w = {}
    <2>1. At(i, w) = {}
        BY <1>8 DEF At
    <2>2. Return(r)
        BY <1>2, <1>8 DEF ClaimStepChannelsWithLease
    <2> QED BY <1>1, <1>5, <1>7, <2>1, <2>2, CalmReturn
<1>9. CASE w # {}
    <2>1. /\ pc' = [pc EXCEPT ![r] = "send"] /\ won' = [won EXCEPT ![r] = w]
          /\ todo' = [todo EXCEPT ![r] = w \cap deliverable] /\ UNCHANGED <<agg, id, sent>>
        BY <1>2, <1>9 DEF ClaimStepChannelsWithLease, Goto
    <2> HIDE DEF w
    <2>2. /\ MemoryOK' /\ Others(r) /\ pc'[r] = "send" /\ id'[r] = i /\ won'[r] = w /\ sent'[r] = {}
          /\ todo'[r] = w \cap deliverable
        BY <1>1, <1>2, <1>3, <2>1 DEF MemoryOK, InHand, Others, Same, Stages
    <2>3. InHand(r)'
        BY <2>2, IdFacts DEF InHand, Apart
    <2>4. TypeInv'
        BY <1>1, <1>7, <2>2, <2>3, HandPut
    <2>5. \A j, c : Sent(j, c)' <=> Sent(j, c)
        BY <1>5 DEF Sent
    <2>6. \A j, c : Excused(j, c) => Excused(j, c)'
        BY <1>5 DEF Excused
    <2>7. OneResolver' /\ OpenUntold' /\ ToldOnce' /\ ToldInv' /\ OwedInv'
        <3>1. ASSUME NEW j \in owed, NEW c \in Channels, <<j, c>> \in log', ~ Excused(j, c)'
              PROVE  <<j, c>> \in log
            <4> SUFFICES ASSUME <<j, c>> \in At(i, w) PROVE FALSE
                BY <1>5, <3>1
            <4>1. j = i
                BY DEF At
            <4>2. ~ incidents[i].open
                BY <4>1 DEF IInv, OpenUntold
            <4> QED BY <1>5, <3>1, <4>2 DEF Excused
        <3>2. Onward(r) /\ pc'[r] # "recover"
            BY <1>1, <2>2 DEF Onward, Resolver
        <3>3. \A j \in Ids : incidents'[j].open = incidents[j].open
            BY <1>5
        <3> QED BY <1>5, <2>2, <2>4, <2>5, <3>1, <3>2, <3>3, WorkStep
    <2>8. HoldInv'
        <3>1. ASSUME NEW q \in Regions, NEW c \in won'[q], ~ Excused(id[q], c)'
              PROVE  /\ <<id'[q], c>> \in log' \cap fresh'
                     /\ \A u \in Regions : id'[u] = id'[q] /\ c \in won'[u] => u = q
            <4>1. CASE q = r
                <5>1. c \in w /\ <<i, c>> \in log' \cap fresh'
                    BY <1>4, <1>5, <2>2, <4>1
                <5>2. ASSUME NEW u \in Regions, id'[u] = i, c \in won'[u], u # r PROVE FALSE
                    <6>1. id[u] = i /\ c \in won[u]
                        BY <2>2, <5>2 DEF Others, Same
                    <6>2. ~ Excused(i, c)
                        BY <2>2, <2>6, <3>1, <4>1 DEF Excused
                    <6>3. <<i, c>> \in fresh
                        BY <6>1, <6>2 DEF IInv, HoldInv
                    <6> QED BY <1>3, <5>1, <6>3
                <5> QED BY <2>2, <4>1, <5>1, <5>2
            <4>2. CASE q # r
                <5>1. id'[q] = id[q] /\ won'[q] = won[q]
                    BY <2>2, <4>2 DEF Others, Same
                <5>2. ~ Excused(id[q], c)
                    BY <1>5, <3>1, <5>1 DEF Excused
                <5>3. <<id[q], c>> \in log \cap fresh /\ \A u \in Regions : id[u] = id[q] /\ c \in won[u] => u = q
                    BY <3>1, <5>1, <5>2 DEF IInv, HoldInv
                <5>4. ~ (id[q] = i /\ c \in w)
                    BY <1>3, <5>3
                <5>5. \A u \in Regions : id'[u] = id'[q] /\ c \in won'[u] => u = q
                    BY <2>2, <5>1, <5>3, <5>4 DEF Others, Same
                <5> QED BY <1>5, <5>1, <5>3, <5>5
            <4> QED BY <4>1, <4>2
        <3> QED BY <3>1 DEF HoldInv
    <2>9. SentInv'
        <3>1. \A j \in Ids : \A c \in incidents'[j].channels : Sent(j, c)'
            BY <1>5, <2>5 DEF IInv, SentInv
        <3> QED BY <2>2, <2>4, <2>5, <3>1, SentKept
    <2>10. JournalInv'
        <3>1. ASSUME NEW j \in Ids, NEW c \in Channels, ~ Excused(j, c)'
              PROVE  /\ Sent(j, c)' => <<j, c>> \in log'
                     /\ <<j, c>> \in log' => Sent(j, c)' \/ \E q \in Regions : id'[q] = j /\ c \in won'[q] \ sent'[q]
            <4>1. ~ Excused(j, c)
                BY <2>6, <3>1
            <4>2. /\ Sent(j, c) => <<j, c>> \in log
                  /\ <<j, c>> \in log => Sent(j, c) \/ \E q \in Regions : id[q] = j /\ c \in won[q] \ sent[q]
                BY <4>1 DEF IInv, JournalInv
            <4>3. ASSUME NEW q \in Regions, c \in won[q] \ sent[q] PROVE q # r
                BY <1>1, <4>3 DEF InHand
            <4>4. CASE <<j, c>> \in At(i, w)
                <5>1. j = i /\ c \in w
                    BY <4>4 DEF At
                <5> QED BY <1>5, <2>2, <2>5, <4>2, <5>1
            <4>5. CASE <<j, c>> \notin At(i, w)
                BY <1>5, <2>2, <2>5, <4>2, <4>3, <4>5 DEF Others, Same
            <4> QED BY <4>4, <4>5
        <3> QED BY <3>1 DEF JournalInv
    <2> QED BY <2>4, <2>7, <2>8, <2>9, <2>10 DEF IInv
<1> QED BY <1>8, <1>9

\* One channel of the alarm.
LEMMA SendStep ==
    ASSUME IInv, NEW r \in Regions, NEW c \in Channels,
           NotifyOpenStep0(r, c) \/ \E applied \in BOOLEAN : NotifyError(r, c, applied)
    PROVE  IInv'
<1> USE DEF world, db
<1>1. TypeInv /\ RowsOK /\ MemoryOK /\ InHand(r) /\ pc[r] = "send" /\ id[r] \in Ids /\ c \in todo[r]
    BY DEF IInv, TypeInv, MemoryOK, InHand, Apart, NotifyOpenStep0, NotifyError, NextOf
<1>2. PICK i \in Ids : i = id[r]
    BY <1>1
<1>3. UNCHANGED <<incidents, log, fresh, deliverable, pc, agg, id, won, recoveries, owed>>
      /\ todo' = [todo EXCEPT ![r] = @ \ {c}]
    BY DEF NotifyOpenStep0, NotifyError
<1>4. /\ alarms' = alarms \/ alarms' = [alarms EXCEPT ![<<i, c>>] = Larger(alarms[<<i, c>>], 1)]
      /\ excused' = excused \/ excused' = excused \cup {<<i, c>>}
      /\ sent' = sent \/ sent' = [sent EXCEPT ![r] = @ \cup {c}]
      /\ sent' # sent => alarms' = [alarms EXCEPT ![<<i, c>>] = Larger(alarms[<<i, c>>], 1)]
    BY <1>2 DEF NotifyOpenStep0, NotifyError, Alarmed
<1>5. <<i, c>> \in Pairs /\ \A n \in Nat : Larger(n, 1) \in Nat /\ Larger(n, 1) > 0
    BY DEF Pairs, Larger
<1>6. /\ alarms' \in [Pairs -> Nat]
      /\ \A x \in Pairs : alarms[x] > 0 => alarms'[x] > 0
      /\ \A x \in Pairs : alarms'[x] > 0 => alarms[x] > 0 \/ x = <<i, c>>
      /\ sent' # sent => alarms'[<<i, c>>] > 0
    <2> HIDE DEF Larger
    <2> QED BY <1>1, <1>4, <1>5 DEF RowsOK
<1>7. /\ \A j \in Ids, d \in Channels : Sent(j, d) => Sent(j, d)'
      /\ \A j \in Ids, d \in Channels : Sent(j, d)' => Sent(j, d) \/ (j = i /\ d = c)
      /\ sent' # sent => Sent(i, c)'
    BY <1>6 DEF Sent, Pairs
<1>8. \A j, d : Excused(j, d) => Excused(j, d)'
    BY <1>4 DEF Excused
<1>9. /\ MemoryOK' /\ Others(r) /\ pc'[r] = "send" /\ id'[r] = i /\ won'[r] = won[r]
      /\ todo'[r] = todo[r] \ {c} /\ (sent'[r] = sent[r] \/ (sent'[r] = sent[r] \cup {c} /\ Sent(i, c)'))
    <2>1. sent' \in [Regions -> SUBSET Channels] /\ \A q \in Regions \ {r} : sent'[q] = sent[q]
        BY <1>1, <1>4 DEF MemoryOK
    <2>2. sent'[r] = sent[r] \/ (sent'[r] = sent[r] \cup {c} /\ Sent(i, c)')
        BY <1>1, <1>4, <1>7 DEF MemoryOK
    <2> QED BY <1>1, <1>2, <1>3, <2>1, <2>2 DEF MemoryOK, Others, Same
<1>10. TypeInv'
    <2>1. RowsOK'
        BY <1>1, <1>3, <1>6 DEF RowsOK
    <2>2. InHand(r)'
        BY <1>1, <1>9, IdFacts DEF InHand, Apart
    <2> QED BY <1>1, <1>9, <2>1, <2>2, HandPut
<1>11. OneResolver' /\ OpenUntold' /\ ToldOnce' /\ ToldInv' /\ OwedInv'
    <2>1. Onward(r) /\ pc'[r] # "recover"
        BY <1>1, <1>9 DEF Onward, Resolver
    <2>2. \A j \in Ids : incidents'[j].open = incidents[j].open
        BY <1>3
    <2>3. excused \subseteq excused'
        BY <1>4
    <2> QED BY <1>3, <1>7, <1>9, <1>10, <2>1, <2>2, <2>3, WorkStep
<1>12. HoldInv'
    BY <1>3, <1>8 DEF IInv, HoldInv, Excused
<1>13. SentInv'
    <2>1. \A d \in sent'[r] : Sent(id[r], d)'
        <3>1. ASSUME NEW d \in sent[r] PROVE Sent(i, d)'
            BY <1>1, <1>2, <1>7 DEF IInv, SentInv, MemoryOK
        <3> QED BY <1>2, <1>9, <3>1 DEF Sent
    <2>2. \A j \in Ids : \A d \in incidents'[j].channels : Sent(j, d)'
        BY <1>1, <1>3, <1>7 DEF IInv, SentInv, RowsOK, Row
    <2> QED BY <1>7, <1>9, <1>10, <2>1, <2>2, SentKept
<1>14. JournalInv'
    <2>1. ASSUME NEW j \in Ids, NEW d \in Channels, ~ Excused(j, d)'
          PROVE  /\ Sent(j, d)' => <<j, d>> \in log'
                 /\ <<j, d>> \in log' => Sent(j, d)' \/ \E q \in Regions : id'[q] = j /\ d \in won'[q] \ sent'[q]
        <3>1. ~ Excused(j, d)
            BY <1>8, <2>1
        <3>2. /\ Sent(j, d) => <<j, d>> \in log
              /\ <<j, d>> \in log => Sent(j, d) \/ \E q \in Regions : id[q] = j /\ d \in won[q] \ sent[q]
            BY <3>1 DEF IInv, JournalInv
        <3>3. ASSUME j = i, d = c PROVE <<j, d>> \in log
            BY <1>1, <1>2, <3>1, <3>3 DEF InHand, IInv, HoldInv
        <3>4. ASSUME NEW q \in Regions, id[q] = j, d \in won[q] \ sent[q]
              PROVE  Sent(j, d)' \/ (id'[q] = j /\ d \in won'[q] \ sent'[q])
            <4>1. CASE q = r
                BY <1>2, <1>3, <1>9, <3>4, <4>1
            <4>2. CASE q # r
                BY <1>9, <3>4, <4>2 DEF Others, Same
            <4> QED BY <4>1, <4>2
        <3> QED BY <1>3, <1>7, <3>2, <3>3, <3>4
    <2> QED BY <2>1 DEF JournalInv
<1> QED BY <1>10, <1>11, <1>12, <1>13, <1>14 DEF IInv

\* What was not sent is released.
LEMMA ReleaseStep ==
    ASSUME IInv, NEW r \in Regions, NEW fails \in BOOLEAN, Release(r, fails)
    PROVE  IInv'
<1> USE DEF world
<1>1. TypeInv /\ RowsOK /\ MemoryOK /\ InHand(r) /\ pc[r] = "send" /\ id[r] \in Ids /\ todo[r] = {}
    BY DEF IInv, TypeInv, MemoryOK, InHand, Apart, Release
<1>2. PICK i \in Ids : i = id[r]
    BY <1>1
<1> DEFINE U == At(i, won[r] \ sent[r])
<1>3. \A j, d : <<j, d>> \in U <=> j = i /\ d \in won[r] \ sent[r]
    BY DEF At
<1>4. /\ \/ log' = log /\ fresh' = fresh /\ excused' = excused \cup U
         \/ /\ log' = log \ U /\ fresh' = fresh \ U
            /\ excused' = excused \cup {x \in U : alarms[x] > 0}
      /\ won' = [won EXCEPT ![r] = sent[r]]
      /\ UNCHANGED <<incidents, deliverable, pc, agg, id, todo, sent, alarms, recoveries, owed>>
    BY <1>2 DEF Release, Unsent
<1> HIDE DEF U
<1>5. /\ MemoryOK' /\ Others(r) /\ pc'[r] = "send" /\ id'[r] = i /\ won'[r] = sent[r]
      /\ todo'[r] = {} /\ sent'[r] = sent[r]
    BY <1>1, <1>2, <1>4 DEF MemoryOK, Others, Same
<1>6. TypeInv'
    <2>1. RowsOK'
        BY <1>1, <1>4 DEF RowsOK
    <2>2. InHand(r)'
        BY <1>1, <1>5, IdFacts DEF InHand, Apart
    <2> QED BY <1>1, <1>5, <2>1, <2>2, HandPut
<1>7. \A j, d : (Excused(j, d) => Excused(j, d)') /\ (Sent(j, d)' <=> Sent(j, d))
    BY <1>4 DEF Excused, Sent
<1>8. OneResolver' /\ OpenUntold' /\ ToldOnce' /\ ToldInv' /\ OwedInv'
    <2>1. Onward(r) /\ pc'[r] # "recover"
        BY <1>1, <1>5 DEF Onward, Resolver
    <2>2. \A j \in Ids : incidents'[j].open = incidents[j].open
        BY <1>4
    <2>3. excused \subseteq excused' /\ log' \subseteq log
        BY <1>4
    <2> QED BY <1>4, <1>5, <1>6, <1>7, <2>1, <2>2, <2>3, WorkStep
<1>9. HoldInv'
    <2>1. ASSUME NEW q \in Regions, NEW c \in won'[q], ~ Excused(id[q], c)'
          PROVE  /\ <<id'[q], c>> \in log' \cap fresh'
                 /\ \A u \in Regions : id'[u] = id'[q] /\ c \in won'[u] => u = q
        <3>1. \A u \in Regions : id'[u] = id[u] /\ won'[u] \subseteq won[u]
            BY <1>1, <1>2, <1>4, <1>5 DEF Others, Same, InHand
        <3>2. ~ Excused(id[q], c)
            BY <1>4, <2>1 DEF Excused
        <3>3. <<id[q], c>> \in log \cap fresh /\ \A u \in Regions : id[u] = id[q] /\ c \in won[u] => u = q
            BY <2>1, <3>1, <3>2 DEF IInv, HoldInv
        <3>4. <<id[q], c>> \notin U
            BY <1>2, <1>3, <1>5, <2>1, <3>3
        <3> QED BY <1>4, <3>1, <3>3, <3>4
    <2> QED BY <2>1 DEF HoldInv
<1>10. SentInv'
    BY <1>4 DEF IInv, SentInv, Sent
<1>11. JournalInv'
    <2>1. ASSUME NEW j \in Ids, NEW d \in Channels, ~ Excused(j, d)'
          PROVE  /\ Sent(j, d)' => <<j, d>> \in log'
                 /\ <<j, d>> \in log' => Sent(j, d)' \/ \E q \in Regions : id'[q] = j /\ d \in won'[q] \ sent'[q]
        <3>1. ~ Excused(j, d)
            BY <1>7, <2>1
        <3>2. /\ Sent(j, d) => <<j, d>> \in log
              /\ <<j, d>> \in log => Sent(j, d) \/ \E q \in Regions : id[q] = j /\ d \in won[q] \ sent[q]
            BY <3>1 DEF IInv, JournalInv
        <3>3. Sent(j, d) => <<j, d>> \notin U
            BY <1>4, <2>1 DEF Excused, Sent
        <3>4. <<j, d>> \in U => <<j, d>> \notin log'
            BY <1>4, <2>1 DEF Excused
        <3>5. ASSUME NEW q \in Regions, id[q] = j, d \in won[q] \ sent[q], <<j, d>> \notin U
              PROVE  id'[q] = j /\ d \in won'[q] \ sent'[q]
            BY <1>2, <1>3, <1>5, <3>5 DEF Others, Same
        <3> QED BY <1>4, <1>7, <3>2, <3>3, <3>4, <3>5
    <2> QED BY <2>1 DEF JournalInv
<1> QED BY <1>6, <1>8, <1>9, <1>10, <1>11 DEF IInv

\* The row is marked.
LEMMA MarkStep ==
    ASSUME IInv, NEW r \in Regions, NEW failing, MarkNotified(r, failing)
    PROVE  IInv'
<1> USE DEF world, observed
<1>1. /\ TypeInv /\ RowsOK /\ MemoryOK /\ InHand(r) /\ pc[r] = "send" /\ id[r] \in Ids /\ todo[r] = {}
      /\ Unsent(r) = {}
    BY DEF IInv, TypeInv, MemoryOK, InHand, Apart, MarkNotified
<1>2. PICK i \in Ids : i = id[r]
    BY <1>1
<1>3. won[r] \subseteq sent[r]
    BY <1>1 DEF Unsent, At
<1> DEFINE old == incidents[i]
           row == [old EXCEPT !.channels = IF failing = "save" THEN @ ELSE Saved(r)]
           x == IF failing = "both" \/ (failing = "mark" /\ err[r]) THEN row
                ELSE IF failing = "mark" \/ err[r]
                THEN [row EXCEPT !.failed = TRUE, !.attempts = @ + 1]
                ELSE [row EXCEPT !.notified = TRUE, !.failed = FALSE]
<1>4. /\ incidents' = [incidents EXCEPT ![i] = x] /\ Return(r)
      /\ UNCHANGED <<log, fresh, deliverable, alarms, recoveries, owed, excused>>
    BY <1>2 DEF MarkNotified
<1>5. x \in Row /\ x.open = old.open /\ (x.channels = old.channels \/ x.channels = sent[r])
    <2>1. old \in Row /\ sent[r] \in SUBSET Channels
        BY <1>1 DEF RowsOK, MemoryOK
    <2> DEFINE chs == IF failing = "save" THEN old.channels ELSE Saved(r)
    <2>2. chs \in SUBSET Channels /\ (chs = old.channels \/ chs = sent[r])
        BY <1>2, <2>1 DEF Saved, Row
    <2>3. row = [old EXCEPT !.channels = chs]
        BY <2>1 DEF Row
    <2> HIDE DEF chs, old
    <2>4. row \in Row /\ row.open = old.open /\ row.channels = chs
        BY <2>1, <2>2, <2>3 DEF Row
    <2> HIDE DEF row
    <2>5. x \in Row /\ x.open = row.open /\ x.channels = row.channels
        <3>1. \/ x = row
              \/ x = [row EXCEPT !.failed = TRUE, !.attempts = @ + 1]
              \/ x = [row EXCEPT !.notified = TRUE, !.failed = FALSE]
            OBVIOUS
        <3> HIDE DEF x
        <3>2. CASE x = row
            BY <2>4, <3>2
        <3>3. CASE x = [row EXCEPT !.failed = TRUE, !.attempts = @ + 1]
            <4>1. PICK n \in Nat : n = row.attempts + 1
                BY <2>4 DEF Row
            <4>2. x = [row EXCEPT !.failed = TRUE, !.attempts = n]
                BY <3>3, <4>1
            <4> QED BY <2>4, <4>2 DEF Row
        <3>4. CASE x = [row EXCEPT !.notified = TRUE, !.failed = FALSE]
            BY <2>4, <3>4 DEF Row
        <3> QED BY <3>1, <3>2, <3>3, <3>4
    <2> HIDE DEF x
    <2> QED BY <2>2, <2>4, <2>5
<1> HIDE DEF x
<1>6. /\ incidents' \in [Ids -> Row] /\ incidents'[i] = x
      /\ \A j \in Ids \ {i} : incidents'[j] = incidents[j]
    BY <1>1, <1>4, <1>5, RowPut DEF RowsOK
<1>7. /\ MemoryOK' /\ Others(r) /\ InHand(r)' /\ Quiet(r)'
      /\ pc'[r] = "idle" /\ id'[r] = 0 /\ todo'[r] = {} /\ won'[r] = {} /\ sent'[r] = {}
    BY <1>1, <1>4, ReturnEffect
<1>8. TypeInv'
    <2>1. RowsOK'
        BY <1>1, <1>4, <1>6 DEF RowsOK
    <2> QED BY <1>1, <1>7, <2>1, HandPut
<1>9. \A j, d : (Excused(j, d)' <=> Excused(j, d)) /\ (Sent(j, d)' <=> Sent(j, d))
    BY <1>4 DEF Excused, Sent
<1>10. OneResolver' /\ OpenUntold' /\ ToldOnce' /\ ToldInv' /\ OwedInv'
    <2>1. Onward(r) /\ pc'[r] # "recover"
        BY <1>1, <1>7 DEF Onward, Resolver
    <2>2. \A j \in Ids : incidents'[j].open = incidents[j].open
        BY <1>5, <1>6
    <2> QED BY <1>4, <1>7, <1>8, <1>9, <2>1, <2>2, WorkStep
<1>11. HoldInv'
    <2>1. ASSUME NEW q \in Regions, NEW c \in won'[q], ~ Excused(id[q], c)'
          PROVE  /\ <<id'[q], c>> \in log' \cap fresh'
                 /\ \A u \in Regions : id'[u] = id'[q] /\ c \in won'[u] => u = q
        <3>1. \A u \in Regions : won'[u] # {} => id'[u] = id[u] /\ won'[u] = won[u]
            BY <1>7 DEF Others, Same
        <3>2. ~ Excused(id[q], c) /\ id'[q] = id[q] /\ won'[q] = won[q]
            BY <1>4, <2>1, <3>1 DEF Excused
        <3>3. <<id[q], c>> \in log \cap fresh /\ \A u \in Regions : id[u] = id[q] /\ c \in won[u] => u = q
            BY <2>1, <3>2 DEF IInv, HoldInv
        <3> QED BY <1>4, <3>1, <3>2, <3>3
    <2> QED BY <2>1 DEF HoldInv
<1>12. SentInv'
    <2>1. ASSUME NEW j \in Ids, NEW d \in incidents'[j].channels PROVE Sent(j, d)'
        <3>1. d \in incidents[j].channels \/ (j = i /\ d \in sent[r])
            BY <1>5, <1>6, <2>1
        <3> QED BY <1>2, <1>9, <3>1 DEF IInv, SentInv
    <2> QED BY <1>7, <1>8, <1>9, <2>1, SentKept
<1>13. JournalInv'
    <2>1. \A q \in Regions : won[q] \ sent[q] # {} => Same(q)
        BY <1>3, <1>7 DEF Others
    <2>2. ASSUME NEW j \in Ids, NEW d \in Channels, ~ Excused(j, d)'
          PROVE  /\ Sent(j, d)' => <<j, d>> \in log'
                 /\ <<j, d>> \in log' => Sent(j, d)' \/ \E q \in Regions : id'[q] = j /\ d \in won'[q] \ sent'[q]
        BY <1>4, <1>9, <2>1, <2>2 DEF IInv, JournalInv, Same
    <2> QED BY <2>2 DEF JournalInv
<1> QED BY <1>8, <1>10, <1>11, <1>12, <1>13 DEF IInv

\* The journal is written again from the row.
LEMMA LogStep ==
    ASSUME IInv, NEW r \in Regions, NEW fails \in BOOLEAN, RetryStepZeroLog(r, fails)
    PROVE  IInv'
<1> USE DEF world, observed
<1>1. /\ TypeInv /\ RowsOK /\ MemoryOK /\ InHand(r) /\ pc[r] = "log" /\ id[r] \in Ids
      /\ won[r] = {} /\ sent[r] = {}
    BY DEF IInv, TypeInv, MemoryOK, InHand, Apart, RetryStepZeroLog
<1>2. PICK i \in Ids : i = id[r]
    BY <1>1
<1> DEFINE T == At(i, todo[r])
<1>3. \A j, d : <<j, d>> \in T <=> j = i /\ d \in todo[r]
    BY DEF At
<1>4. T \subseteq Pairs
    BY <1>1 DEF At, MemoryOK, Pairs
<1>5. UNCHANGED <<deliverable, alarms, recoveries, owed, excused>>
    BY DEF RetryStepZeroLog
<1>6. \/ log' = log /\ fresh' = fresh /\ incidents' = incidents
      \/ /\ log' = log \cup T /\ fresh' = fresh \cup (T \ log)
         /\ incidents' = [incidents EXCEPT ![i].channels = {}]
    BY <1>2 DEF RetryStepZeroLog
<1> HIDE DEF T
<1>7. /\ MemoryOK' /\ Others(r) /\ InHand(r)' /\ won'[r] = {} /\ sent'[r] = {} /\ Onward(r)
      /\ pc'[r] \notin {"log", "recover"}
    <2>1. CASE agg[r] = "up"
        <3>1. Goto(r, "channels") /\ UNCHANGED memory
            BY <2>1 DEF RetryStepZeroLog, Proceed
        <3>2. "channels" \in Stages
            BY DEF Stages
        <3>3. /\ MemoryOK' /\ Others(r)
              /\ pc'[r] = "channels" /\ id'[r] = id[r] /\ agg'[r] = agg[r] /\ todo'[r] = todo[r]
              /\ won'[r] = won[r] /\ sent'[r] = sent[r]
            BY <1>1, <3>1, <3>2, GotoEffect
        <3> QED BY <1>1, <2>1, <3>3, IdFacts DEF InHand, Apart, Onward, Resolver
    <2>2. CASE agg[r] # "up"
        <3>1. Return(r)
            BY <2>2 DEF RetryStepZeroLog, Proceed
        <3>2. /\ MemoryOK' /\ Others(r) /\ InHand(r)' /\ Quiet(r)'
              /\ pc'[r] = "idle" /\ won'[r] = {} /\ sent'[r] = {}
            BY <1>1, <3>1, ReturnEffect
        <3> QED BY <1>1, <2>2, <3>2 DEF Onward, Resolver
    <2> QED BY <2>1, <2>2
<1>8. /\ incidents' \in [Ids -> Row]
      /\ \A j \in Ids : incidents'[j].open = incidents[j].open /\ incidents'[j].channels \subseteq incidents[j].channels
    <2> DEFINE x == [incidents[i] EXCEPT !.channels = {}]
    <2>1. incidents \in [Ids -> Row] /\ incidents[i] \in Row
        BY <1>1 DEF RowsOK
    <2>2. x \in Row /\ x.open = incidents[i].open /\ x.channels = {}
        BY <2>1 DEF Row
    <2>3. incidents' = incidents \/ incidents' = [incidents EXCEPT ![i] = x]
        BY <1>6, <2>1
    <2> HIDE DEF x
    <2> QED BY <2>1, <2>2, <2>3
<1>9. TypeInv'
    <2>1. RowsOK'
        BY <1>1, <1>4, <1>5, <1>6, <1>8 DEF RowsOK
    <2> QED BY <1>1, <1>7, <2>1, HandPut
<1>10. \A j, d : (Excused(j, d)' <=> Excused(j, d)) /\ (Sent(j, d)' <=> Sent(j, d))
    BY <1>5 DEF Excused, Sent
<1>11. ASSUME NEW j \in Ids, NEW d \in Channels, ~ Excused(j, d)
       PROVE  <<j, d>> \in log' <=> <<j, d>> \in log
    <2>1. <<j, d>> \in T => Sent(j, d)
        BY <1>1, <1>2, <1>3 DEF IInv, SentInv
    <2>2. <<j, d>> \in T => <<j, d>> \in log
        BY <1>11, <2>1 DEF IInv, JournalInv
    <2> QED BY <1>6, <2>2
<1>12. OneResolver' /\ OpenUntold' /\ ToldOnce' /\ ToldInv' /\ OwedInv'
    <2>1. owed \subseteq Ids
        BY <1>1 DEF RowsOK
    <2> QED BY <1>5, <1>7, <1>8, <1>9, <1>10, <1>11, <2>1, WorkStep
<1>13. \A q \in Regions : /\ won'[q] = won[q] /\ sent'[q] = sent[q]
                          /\ won[q] # {} => id'[q] = id[q]
    BY <1>1, <1>7 DEF Others, Same
<1>14. HoldInv'
    <2>1. ASSUME NEW q \in Regions, NEW c \in won'[q], ~ Excused(id[q], c)'
          PROVE  /\ <<id'[q], c>> \in log' \cap fresh'
                 /\ \A u \in Regions : id'[u] = id'[q] /\ c \in won'[u] => u = q
        <3>1. ~ Excused(id[q], c) /\ id'[q] = id[q] /\ c \in won[q]
            BY <1>5, <1>13, <2>1 DEF Excused
        <3>2. <<id[q], c>> \in log \cap fresh /\ \A u \in Regions : id[u] = id[q] /\ c \in won[u] => u = q
            BY <3>1 DEF IInv, HoldInv
        <3> QED BY <1>6, <1>13, <3>1, <3>2
    <2> QED BY <2>1 DEF HoldInv
<1>15. SentInv'
    <2>1. \A j \in Ids : \A d \in incidents'[j].channels : Sent(j, d)'
        BY <1>8, <1>10 DEF IInv, SentInv
    <2> QED BY <1>7, <1>9, <1>10, <2>1, SentKept
<1>16. JournalInv'
    <2>1. ASSUME NEW j \in Ids, NEW d \in Channels, ~ Excused(j, d)'
          PROVE  /\ Sent(j, d)' => <<j, d>> \in log'
                 /\ <<j, d>> \in log' => Sent(j, d)' \/ \E q \in Regions : id'[q] = j /\ d \in won'[q] \ sent'[q]
        <3>1. /\ ~ Excused(j, d) /\ (Sent(j, d) => <<j, d>> \in log)
              /\ <<j, d>> \in log => Sent(j, d) \/ \E q \in Regions : id[q] = j /\ d \in won[q] \ sent[q]
            BY <1>10, <2>1 DEF IInv, JournalInv
        <3> QED BY <1>10, <1>11, <1>13, <3>1
    <2> QED BY <2>1 DEF JournalInv
<1> QED BY <1>9, <1>12, <1>14, <1>15, <1>16 DEF IInv

-----------------------------------------------------------------------------
(* The recovery.                                                            *)

\* An incident is resolved, by one handler.
LEMMA ResolveStep ==
    ASSUME IInv, NEW r \in Regions, ResolveIncident(r)
    PROVE  IInv'
<1> USE DEF world
<1>1. /\ TypeInv /\ RowsOK /\ MemoryOK /\ InHand(r) /\ pc[r] = "resolve" /\ agg[r] = "up"
      /\ won[r] = {} /\ sent[r] = {}
    BY DEF IInv, TypeInv, InHand, Apart, ResolveIncident
<1>2. UNCHANGED <<log, fresh, deliverable, alarms, recoveries, excused>>
    BY DEF ResolveIncident
<1>3. CASE Return(r) /\ UNCHANGED <<incidents, owed>>
    <2>1. RowsOK' /\ SameRows
        BY <1>1, <1>2, <1>3 DEF RowsOK, SameRows
    <2> QED BY <1>1, <1>2, <1>3, <2>1, CalmReturn
<1>4. ASSUME NEW i \in Opened, owed' = IF Owed(incidents[i]) THEN owed \cup {i} ELSE owed,
             incidents' = [incidents EXCEPT ![i].open = FALSE],
             IF ~ Owed(incidents[i]) THEN Return(r)
             ELSE /\ Goto(r, IF incidents[i].channels = {} THEN "channels" ELSE "log")
                  /\ id' = [id EXCEPT ![r] = i]
                  /\ todo' = [todo EXCEPT ![r] = incidents[i].channels]
                  /\ UNCHANGED <<want, agg, won, sent, err>>
      PROVE  IInv'
    <2>1. i \in Ids /\ incidents[i].open /\ incidents \in [Ids -> Row] /\ incidents[i] \in Row
        BY <1>1 DEF Opened, RowsOK
    <2>2. /\ MemoryOK' /\ Others(r) /\ InHand(r)' /\ won'[r] = {} /\ sent'[r] = {}
          /\ pc'[r] \in {"idle", "channels", "log"} /\ (pc'[r] # "idle" => id'[r] = i)
          /\ pc'[r] = "log" => todo'[r] = incidents[i].channels
          /\ owed' = owed \/ (owed' = owed \cup {i} /\ Resolver(r)' /\ pc'[r] # "idle")
        <3>1. CASE ~ Owed(incidents[i])
            BY <1>1, <1>4, <3>1, ReturnEffect
        <3>2. CASE Owed(incidents[i])
            <4>1. PICK l \in {"channels", "log"} : l = IF incidents[i].channels = {} THEN "channels" ELSE "log"
                OBVIOUS
            <4>2. PICK S \in SUBSET Channels : S = incidents[i].channels
                BY <2>1 DEF Row
            <4>3. /\ l \in Stages /\ Goto(r, l) /\ id' = [id EXCEPT ![r] = i] /\ todo' = [todo EXCEPT ![r] = S]
                  /\ UNCHANGED <<agg, won, sent>>
                BY <1>4, <3>2, <4>1, <4>2 DEF Stages
            <4>4. /\ MemoryOK' /\ Others(r)
                  /\ pc'[r] = l /\ id'[r] = i /\ agg'[r] = agg[r] /\ todo'[r] = S
                  /\ won'[r] = won[r] /\ sent'[r] = sent[r]
                BY <1>1, <2>1, <4>3, TakeEffect
            <4>5. InHand(r)' /\ Resolver(r)'
                BY <1>1, <2>1, <4>1, <4>4, IdFacts DEF InHand, Apart, Resolver
            <4>6. owed' = owed \cup {i}
                BY <1>4, <3>2
            <4> QED BY <1>1, <4>1, <4>2, <4>4, <4>5, <4>6
        <3> QED BY <3>1, <3>2
    <2>3. /\ incidents' \in [Ids -> Row] /\ ~ incidents'[i].open
          /\ \A j \in Ids \ {i} : incidents'[j] = incidents[j]
          /\ \A j \in Ids : incidents'[j].channels = incidents[j].channels
        <3> DEFINE x == [incidents[i] EXCEPT !.open = FALSE]
        <3>1. x \in Row /\ ~ x.open /\ x.channels = incidents[i].channels
            BY <2>1 DEF Row
        <3>2. incidents' = [incidents EXCEPT ![i] = x]
            BY <1>4, <2>1
        <3> HIDE DEF x
        <3> QED BY <2>1, <3>1, <3>2
    <2>4. TypeInv'
        <3>1. RowsOK'
            BY <1>1, <1>2, <2>1, <2>2, <2>3 DEF RowsOK
        <3> QED BY <1>1, <2>2, <3>1, HandPut
    <2>5. \A j, d : /\ Excused(j, d)' <=> Excused(j, d)
                    /\ Sent(j, d)' <=> Sent(j, d)
                    /\ Told(j, d)' <=> Told(j, d)
        BY <1>2 DEF Excused, Sent, Told
    <2>6. \A q \in Regions \ {r} : Same(q) /\ (Resolver(q)' <=> Resolver(q))
        BY <2>2 DEF Others, Same, Resolver
    <2>7. \A q \in Regions : Resolver(q) => q # r /\ id[q] \in Ids /\ id[q] # i
        <3>1. ~ Resolver(r)
            BY <1>1 DEF Resolver
        <3>2. \A q \in Regions : Resolver(q) => id[q] \in Ids
            BY <1>1 DEF TypeInv, MemoryOK, InHand, Apart, Resolver
        <3> QED BY <2>1, <3>1, <3>2 DEF IInv, OneResolver
    <2>8. Resolver(r)' => id'[r] = i /\ pc'[r] # "recover"
        BY <2>2 DEF Resolver
    <2>9. OneResolver'
        BY <2>3, <2>6, <2>7, <2>8 DEF IInv, OneResolver, Same
    <2>10. OpenUntold'
        BY <1>2, <2>2, <2>3 DEF IInv, OpenUntold
    <2>11. ToldOnce'
        <3>1. ASSUME NEW q \in Regions, NEW c \in Channels, Resolver(q)', pc'[q] = "recover" => c \in todo'[q]
              PROVE  recoveries'[<<id'[q], c>>] = 0
            <4>1. CASE q = r
                BY <1>2, <2>1, <2>8, <3>1, <4>1 DEF IInv, OpenUntold
            <4>2. CASE q # r
                BY <1>2, <2>6, <3>1, <4>2 DEF IInv, ToldOnce, Same
            <4> QED BY <4>1, <4>2
        <3> QED BY <1>2, <3>1 DEF IInv, ToldOnce
    <2>12. \A q \in Regions : /\ won'[q] = won[q] /\ sent'[q] = sent[q]
                              /\ won[q] # {} => id'[q] = id[q]
        BY <1>1, <2>2, <2>6 DEF Same
    <2>13. HoldInv'
        BY <1>2, <2>12 DEF IInv, HoldInv, Excused
    <2>14. SentInv'
        <3>1. ASSUME NEW q \in Regions, NEW c \in sent'[q] PROVE Sent(id[q], c)'
            BY <1>1, <1>2, <2>6, <2>12, <3>1 DEF Same, IInv, SentInv, Sent
        <3>2. ASSUME NEW q \in Regions, pc'[q] = "log", NEW c \in todo'[q] PROVE Sent(id[q], c)'
            <4>1. CASE q = r
                BY <1>2, <2>1, <2>2, <3>2, <4>1 DEF IInv, SentInv, Sent
            <4>2. CASE q # r
                BY <1>2, <2>6, <3>2, <4>2 DEF Same, IInv, SentInv, Sent
            <4> QED BY <4>1, <4>2
        <3>3. \A j \in Ids : \A c \in incidents'[j].channels : Sent(j, c)'
            BY <2>3, <2>5 DEF IInv, SentInv
        <3> QED BY <3>1, <3>2, <3>3 DEF SentInv
    <2>15. JournalInv'
        BY <1>2, <2>5, <2>12 DEF IInv, JournalInv
    <2>16. ToldInv'
        <3>1. \A q \in Regions : pc'[q] = "recover" => Same(q)
            BY <2>2, <2>6
        <3> QED BY <1>2, <3>1 DEF IInv, ToldInv, Same, Excused, Sent, Told
    <2>17. OwedInv'
        <3>1. ASSUME NEW j \in owed', NEW c \in Channels, <<j, c>> \in log', ~ Excused(j, c)'
              PROVE  \/ Told(j, c)'
                     \/ \E q \in Regions : id'[q] = j /\ (Resolver(q) /\ (pc[q] = "recover" => c \in todo[q]))'
            <4>1. CASE j \in owed
                <5>1. CASE Told(j, c)
                    BY <2>5, <5>1
                <5>2. CASE \E q \in Regions : id[q] = j /\ Resolver(q) /\ (pc[q] = "recover" => c \in todo[q])
                    BY <2>6, <2>7, <5>2 DEF Same
                <5> QED BY <1>2, <2>5, <3>1, <4>1, <5>1, <5>2 DEF IInv, OwedInv
            <4>2. CASE j \notin owed
                <5>1. j = i /\ Resolver(r)'
                    BY <2>2, <3>1, <4>2
                <5> QED BY <2>8, <5>1
            <4> QED BY <4>1, <4>2
        <3> QED BY <3>1 DEF OwedInv
    <2> QED BY <2>4, <2>9, <2>10, <2>11, <2>13, <2>14, <2>15, <2>16, <2>17 DEF IInv
<1> QED BY <1>3, <1>4 DEF ResolveIncident, Resolvable

\* A handler without claims, or whose claims are excused, leaves those of the others as they are.
LEMMA LeaveClaims ==
    ASSUME IInv, TypeInv', NEW r \in Regions, Others(r), won'[r] = {}, sent'[r] = {}, pc'[r] # "log",
           \A c \in won[r] \ sent[r] : <<id[r], c>> \in excused',
           UNCHANGED <<incidents, log, fresh, alarms>>, excused \subseteq excused'
    PROVE  HoldInv' /\ SentInv' /\ JournalInv'
<1>1. \A j, d : (Excused(j, d) => Excused(j, d)') /\ (Sent(j, d)' <=> Sent(j, d))
    BY DEF Excused, Sent
<1>2. \A q \in Regions : won'[q] # {} => q # r /\ id'[q] = id[q] /\ won'[q] = won[q]
    BY DEF Others, Same
<1>3. HoldInv'
    <2>1. ASSUME NEW q \in Regions, NEW c \in won'[q], ~ Excused(id[q], c)'
          PROVE  /\ <<id'[q], c>> \in log' \cap fresh'
                 /\ \A u \in Regions : id'[u] = id'[q] /\ c \in won'[u] => u = q
        <3>1. ~ Excused(id[q], c) /\ id'[q] = id[q] /\ c \in won[q]
            BY <1>2, <2>1 DEF Excused
        <3>2. <<id[q], c>> \in log \cap fresh /\ \A u \in Regions : id[u] = id[q] /\ c \in won[u] => u = q
            BY <3>1 DEF IInv, HoldInv
        <3> QED BY <1>2, <3>1, <3>2
    <2> QED BY <2>1 DEF HoldInv
<1>4. SentInv'
    <2>1. \A j \in Ids : \A d \in incidents'[j].channels : Sent(j, d)'
        BY <1>1 DEF IInv, SentInv
    <2> QED BY <1>1, <2>1, SentKept
<1>5. JournalInv'
    <2>1. ASSUME NEW j \in Ids, NEW d \in Channels, ~ Excused(j, d)'
          PROVE  /\ Sent(j, d)' => <<j, d>> \in log'
                 /\ <<j, d>> \in log' => Sent(j, d)' \/ \E q \in Regions : id'[q] = j /\ d \in won'[q] \ sent'[q]
        <3>1. /\ ~ Excused(j, d) /\ (Sent(j, d) => <<j, d>> \in log)
              /\ <<j, d>> \in log => Sent(j, d) \/ \E q \in Regions : id[q] = j /\ d \in won[q] \ sent[q]
            BY <1>1, <2>1 DEF IInv, JournalInv
        <3>2. ASSUME NEW q \in Regions, id[q] = j, d \in won[q] \ sent[q]
              PROVE  id'[q] = j /\ d \in won'[q] \ sent'[q]
            BY <2>1, <3>2 DEF Others, Same, Excused
        <3> QED BY <1>1, <3>1, <3>2
    <2> QED BY <2>1 DEF JournalInv
<1> QED BY <1>3, <1>4, <1>5

\* The resolver learns whom to tell.
LEMMA ChannelsStep ==
    ASSUME IInv, NEW r \in Regions, ReadRecoveryChannels(r)
    PROVE  IInv'
<1> USE DEF world, db
<1>1. /\ TypeInv /\ RowsOK /\ MemoryOK /\ InHand(r) /\ pc[r] = "channels" /\ id[r] \in Ids
      /\ won[r] = {} /\ sent[r] = {} /\ Resolver(r)
    BY DEF IInv, TypeInv, MemoryOK, InHand, Apart, Resolver, ReadRecoveryChannels
<1>2. PICK i \in Ids : i = id[r]
    BY <1>1
<1> DEFINE L == RecoveryChannels(i)
           chs == L \cap deliverable
           rest == At(i, L \ deliverable)
           pending == UNION {Unsent(q) : q \in {q \in Regions : id[q] = i}}
<1>3. UNCHANGED <<incidents, log, fresh, deliverable, alarms, recoveries, owed>>
    BY DEF ReadRecoveryChannels
<1>4. excused' = excused \cup rest \cup pending
    BY <1>2 DEF ReadRecoveryChannels
<1>5. chs \in SUBSET Channels /\ \A c \in Channels : <<i, c>> \in log => c \in L
    BY DEF RecoveryChannels
<1>6. \A c \in L : c \notin chs => <<i, c>> \in excused'
    BY <1>4 DEF At
<1>7. \A q \in Regions : id[q] = i => \A c \in won[q] \ sent[q] : <<i, c>> \in excused'
    <2>1. ASSUME NEW q \in Regions, id[q] = i, NEW c \in won[q] \ sent[q] PROVE <<i, c>> \in excused'
        <3>1. <<i, c>> \in Unsent(q)
            BY <2>1 DEF Unsent, At
        <3>2. <<i, c>> \in pending
            BY <2>1, <3>1
        <3> QED BY <1>4, <3>2
    <2> QED BY <2>1
<1>8. \A c \in chs : <<i, c>> \in log
    BY DEF RecoveryChannels
<1>9. excused \subseteq excused'
    BY <1>4
<1>10. IF chs = {} THEN Return(r)
       ELSE pc' = [pc EXCEPT ![r] = "recover"] /\ todo' = [todo EXCEPT ![r] = chs] /\ UNCHANGED <<agg, id, won, sent>>
    BY <1>2 DEF ReadRecoveryChannels, Goto
<1> HIDE DEF L, chs, rest, pending
<1>11. /\ MemoryOK' /\ Others(r) /\ InHand(r)' /\ won'[r] = {} /\ sent'[r] = {}
       /\ \/ chs = {} /\ pc'[r] = "idle"
          \/ chs # {} /\ pc'[r] = "recover" /\ id'[r] = i /\ todo'[r] = chs
    <2>1. CASE chs = {}
        BY <1>1, <1>10, <2>1, ReturnEffect
    <2>2. CASE chs # {}
        <3>1. /\ MemoryOK' /\ Others(r) /\ won'[r] = {} /\ sent'[r] = {}
              /\ pc'[r] = "recover" /\ id'[r] = i /\ todo'[r] = chs
            BY <1>1, <1>2, <1>5, <1>10, <2>2 DEF MemoryOK, Others, Same, Stages
        <3>2. InHand(r)'
            BY <3>1, IdFacts DEF InHand, Apart
        <3> QED BY <2>2, <3>1, <3>2
    <2> QED BY <2>1, <2>2
<1>12. TypeInv'
    <2>1. RowsOK'
        BY <1>1, <1>3 DEF RowsOK
    <2> QED BY <1>1, <1>11, <2>1, HandPut
<1>13. HoldInv' /\ SentInv' /\ JournalInv'
    BY <1>1, <1>3, <1>9, <1>11, <1>12, LeaveClaims
<1>14. \A j, d : /\ Excused(j, d) => Excused(j, d)'
                 /\ Sent(j, d)' <=> Sent(j, d)
                 /\ Told(j, d)' <=> Told(j, d)
    BY <1>3, <1>9 DEF Excused, Sent, Told
<1>15. \A q \in Regions \ {r} : Same(q) /\ (Resolver(q)' <=> Resolver(q))
    BY <1>11 DEF Others, Same, Resolver
<1>16. Resolver(r)' => pc'[r] = "recover" /\ id'[r] = id[r]
    BY <1>2, <1>11 DEF Resolver
<1>17. OneResolver'
    BY <1>1, <1>3, <1>15, <1>16 DEF IInv, OneResolver, Same
<1>18. OpenUntold'
    BY <1>3 DEF IInv, OpenUntold
<1>19. ToldOnce'
    BY <1>1, <1>3, <1>15, <1>16 DEF IInv, ToldOnce, Same
<1>20. ToldInv'
    <2>1. ASSUME NEW q \in Regions, pc'[q] = "recover", NEW c \in todo'[q], ~ Excused(id[q], c)'
          PROVE  Sent(id[q], c)'
        <3>1. CASE q = r
            <4>1. c \in chs /\ id'[q] = i /\ c \in Channels /\ <<i, c>> \notin excused'
                BY <1>5, <1>11, <2>1, <3>1 DEF Excused
            <4>2. <<i, c>> \in log /\ ~ Excused(i, c)
                BY <1>8, <1>9, <4>1 DEF Excused
            <4>3. Sent(i, c)
                BY <1>7, <4>1, <4>2 DEF IInv, JournalInv
            <4> QED BY <1>3, <4>1, <4>3 DEF Sent
        <3>2. CASE q # r
            BY <1>3, <1>9, <1>15, <2>1, <3>2 DEF IInv, ToldInv, Same, Excused, Sent
        <3> QED BY <3>1, <3>2
    <2>2. \A j \in Ids, d \in Channels : (Told(j, d) /\ ~ Excused(j, d) => Sent(j, d))'
        BY <1>14 DEF IInv, ToldInv
    <2> QED BY <2>1, <2>2 DEF ToldInv
<1>21. OwedInv'
    <2>1. ASSUME NEW j \in owed, NEW c \in Channels, <<j, c>> \in log, ~ Excused(j, c)'
          PROVE  \/ Told(j, c)'
                 \/ \E q \in Regions : id'[q] = j /\ (Resolver(q) /\ (pc[q] = "recover" => c \in todo[q]))'
        <3>1. CASE Told(j, c)
            BY <1>14, <3>1
        <3>2. ASSUME NEW q \in Regions, id[q] = j, Resolver(q), pc[q] = "recover" => c \in todo[q]
              PROVE  id'[q] = j /\ (Resolver(q) /\ (pc[q] = "recover" => c \in todo[q]))'
            <4>1. CASE q = r
                <5>1. j = i /\ c \in L
                    BY <1>2, <1>5, <2>1, <3>2, <4>1
                <5>2. c \in chs
                    BY <1>6, <2>1, <5>1 DEF Excused
                <5> QED BY <1>11, <4>1, <5>1, <5>2 DEF Resolver
            <4>2. CASE q # r
                BY <1>15, <3>2, <4>2 DEF Same
            <4> QED BY <4>1, <4>2
        <3> QED BY <1>14, <2>1, <3>1, <3>2 DEF IInv, OwedInv
    <2> QED BY <1>3, <2>1 DEF OwedInv
<1> QED BY <1>12, <1>13, <1>17, <1>18, <1>19, <1>20, <1>21 DEF IInv

\* One channel is told.
LEMMA TellStep ==
    ASSUME IInv, NEW r \in Regions, NEW c \in Channels, NEW fails \in BOOLEAN, NotifyRecovery(r, c, fails)
    PROVE  IInv'
<1> USE DEF world, db
<1>1. /\ TypeInv /\ RowsOK /\ MemoryOK /\ InHand(r) /\ pc[r] = "recover" /\ id[r] \in Ids
      /\ won[r] = {} /\ sent[r] = {} /\ Resolver(r) /\ c \in todo[r]
    BY DEF IInv, TypeInv, MemoryOK, InHand, Apart, Resolver, NotifyRecovery, NextOf
<1>2. PICK i \in Ids : i = id[r]
    BY <1>1
<1>3. UNCHANGED <<incidents, log, fresh, deliverable, alarms, owed>>
    BY DEF NotifyRecovery
<1>4. \/ recoveries' = recoveries /\ excused' = excused \cup {<<i, c>>}
      \/ recoveries' = [recoveries EXCEPT ![<<i, c>>] = @ + 1] /\ excused' = excused
    BY <1>2 DEF NotifyRecovery
<1>5. <<i, c>> \in Pairs /\ recoveries \in [Pairs -> Nat] /\ recoveries[<<i, c>>] = 0 /\ ~ incidents[i].open
    BY <1>1, <1>2 DEF IInv, ToldOnce, OneResolver, RowsOK, Pairs
<1>6. /\ recoveries' \in [Pairs -> Nat] /\ recoveries'[<<i, c>>] <= 1
      /\ \A x \in Pairs : x # <<i, c>> => recoveries'[x] = recoveries[x]
      /\ recoveries'[<<i, c>>] > 0 \/ <<i, c>> \in excused'
    BY <1>4, <1>5
<1>7. excused \subseteq excused'
    BY <1>4
<1>8. IF todo[r] = {c} THEN Return(r)
      ELSE todo' = [todo EXCEPT ![r] = @ \ {c}] /\ UNCHANGED <<pc, agg, id, won, sent>>
    BY DEF NotifyRecovery
<1>9. /\ MemoryOK' /\ Others(r) /\ InHand(r)' /\ won'[r] = {} /\ sent'[r] = {}
      /\ \/ todo[r] = {c} /\ pc'[r] = "idle"
         \/ pc'[r] = "recover" /\ id'[r] = i /\ todo'[r] = todo[r] \ {c}
    <2>1. CASE todo[r] = {c}
        BY <1>1, <1>8, <2>1, ReturnEffect
    <2>2. CASE todo[r] # {c}
        <3>1. /\ MemoryOK' /\ Others(r) /\ won'[r] = {} /\ sent'[r] = {}
              /\ pc'[r] = "recover" /\ id'[r] = i /\ todo'[r] = todo[r] \ {c}
            BY <1>1, <1>2, <1>8, <2>2 DEF MemoryOK, Others, Same
        <3>2. InHand(r)'
            BY <3>1, IdFacts DEF InHand, Apart
        <3> QED BY <3>1, <3>2
    <2> QED BY <2>1, <2>2
<1>10. TypeInv'
    <2>1. RowsOK'
        BY <1>1, <1>3, <1>6 DEF RowsOK
    <2> QED BY <1>1, <1>9, <2>1, HandPut
<1>11. HoldInv' /\ SentInv' /\ JournalInv'
    BY <1>1, <1>3, <1>7, <1>9, <1>10, LeaveClaims
<1>12. \A j \in Ids, d \in Channels :
          /\ Excused(j, d) => Excused(j, d)'
          /\ Sent(j, d)' <=> Sent(j, d)
          /\ j # i \/ d # c => recoveries'[<<j, d>>] = recoveries[<<j, d>>]
          /\ Told(j, d) => Told(j, d)'
          /\ Told(j, d)' => Told(j, d) \/ (j = i /\ d = c)
    BY <1>3, <1>4, <1>5, <1>6, <1>7 DEF Excused, Sent, Told, Pairs
<1>13. \A q \in Regions \ {r} : Same(q) /\ (Resolver(q)' <=> Resolver(q))
    BY <1>9 DEF Others, Same, Resolver
<1>14. Resolver(r)' => pc'[r] = "recover" /\ id'[r] = i /\ todo'[r] = todo[r] \ {c}
    BY <1>9 DEF Resolver
<1>15. \A q \in Regions : Resolver(q) => id[q] \in Ids /\ (q # r => id[q] # i)
    <2>1. \A q \in Regions : Resolver(q) => id[q] \in Ids
        BY <1>1 DEF TypeInv, MemoryOK, InHand, Apart, Resolver
    <2> QED BY <1>1, <1>2, <2>1 DEF IInv, OneResolver
<1>16. OneResolver'
    BY <1>1, <1>2, <1>3, <1>13, <1>14 DEF IInv, OneResolver, Same
<1>17. OpenUntold'
    BY <1>3, <1>5, <1>12 DEF IInv, OpenUntold
<1>18. ToldOnce'
    <2>1. ASSUME NEW q \in Regions, NEW d \in Channels, Resolver(q)', pc'[q] = "recover" => d \in todo'[q]
          PROVE  recoveries'[<<id'[q], d>>] = 0
        <3>1. CASE q = r
            <4>1. d \in todo[r] /\ d # c /\ id'[q] = i
                BY <1>14, <2>1, <3>1
            <4>2. recoveries[<<i, d>>] = 0
                BY <1>1, <1>2, <4>1 DEF IInv, ToldOnce
            <4> QED BY <1>12, <4>1, <4>2
        <3>2. CASE q # r
            <4>1. Same(q) /\ Resolver(q) /\ id[q] \in Ids /\ id[q] # i
                BY <1>13, <1>15, <2>1, <3>2
            <4>2. recoveries[<<id[q], d>>] = 0
                BY <2>1, <4>1 DEF IInv, ToldOnce, Same
            <4> QED BY <1>12, <4>1, <4>2 DEF Same
        <3> QED BY <3>1, <3>2
    <2>2. \A x \in Pairs : recoveries'[x] <= 1
        BY <1>6 DEF IInv, ToldOnce
    <2> QED BY <2>1, <2>2 DEF ToldOnce
<1>19. ToldInv'
    <2>1. ASSUME NEW q \in Regions, pc'[q] = "recover", NEW d \in todo'[q], ~ Excused(id[q], d)'
          PROVE  Sent(id[q], d)'
        <3>1. pc[q] = "recover" /\ d \in todo[q] /\ id'[q] = id[q]
            BY <1>1, <1>2, <1>9, <1>13, <2>1 DEF Same
        <3>2. ~ Excused(id[q], d)
            BY <1>7, <2>1, <3>1 DEF Excused
        <3>3. Sent(id[q], d)
            BY <3>1, <3>2 DEF IInv, ToldInv
        <3> QED BY <1>3, <3>1, <3>3 DEF Sent
    <2>2. ASSUME NEW j \in Ids, NEW d \in Channels, Told(j, d)', ~ Excused(j, d)' PROVE Sent(j, d)'
        <3>1. ~ Excused(j, d) /\ (Told(j, d) \/ (j = i /\ d = c))
            BY <1>12, <2>2
        <3>2. CASE Told(j, d)
            BY <1>12, <3>1, <3>2 DEF IInv, ToldInv
        <3>3. CASE j = i /\ d = c
            BY <1>1, <1>2, <1>12, <3>1, <3>3 DEF IInv, ToldInv
        <3> QED BY <3>1, <3>2, <3>3
    <2> QED BY <2>1, <2>2 DEF ToldInv
<1>20. OwedInv'
    <2>1. ASSUME NEW j \in owed, NEW d \in Channels, <<j, d>> \in log, ~ Excused(j, d)'
          PROVE  \/ Told(j, d)'
                 \/ \E q \in Regions : id'[q] = j /\ (Resolver(q) /\ (pc[q] = "recover" => d \in todo[q]))'
        <3>1. j \in Ids /\ ~ Excused(j, d)
            BY <1>1, <1>12, <2>1 DEF RowsOK
        <3>2. CASE Told(j, d)
            BY <1>12, <3>1, <3>2
        <3>3. ASSUME NEW q \in Regions, id[q] = j, Resolver(q), pc[q] = "recover" => d \in todo[q]
              PROVE  \/ Told(j, d)'
                     \/ id'[q] = j /\ (Resolver(q) /\ (pc[q] = "recover" => d \in todo[q]))'
            <4>1. CASE q = r /\ d = c
                BY <1>2, <1>6, <2>1, <3>3, <4>1 DEF Told, Excused
            <4>2. CASE q = r /\ d # c
                <5>1. d \in todo[r] /\ j = i
                    BY <1>1, <1>2, <3>3, <4>2
                <5>2. pc'[r] = "recover" /\ id'[r] = i /\ todo'[r] = todo[r] \ {c}
                    BY <1>9, <4>2, <5>1
                <5> QED BY <4>2, <5>1, <5>2 DEF Resolver
            <4>3. CASE q # r
                BY <1>13, <3>3, <4>3 DEF Same
            <4> QED BY <4>1, <4>2, <4>3
        <3> QED BY <2>1, <3>1, <3>2, <3>3 DEF IInv, OwedInv
    <2> QED BY <1>3, <2>1 DEF OwedInv
<1> QED BY <1>10, <1>11, <1>16, <1>17, <1>18, <1>19, <1>20 DEF IInv

-----------------------------------------------------------------------------
(* What comes between.                                                      *)

\* A handler is cut short.
LEMMA CrashStep ==
    ASSUME IInv, NEW r \in Regions, Crash(r)
    PROVE  IInv'
<1> USE DEF world, db
<1>1. TypeInv /\ RowsOK /\ MemoryOK /\ InHand(r)
    BY DEF IInv, TypeInv
<1>2. UNCHANGED <<incidents, log, fresh, deliverable, alarms, recoveries, owed>> /\ Return(r)
    BY DEF Crash
<1>3. /\ MemoryOK' /\ Others(r) /\ InHand(r)' /\ Quiet(r)'
      /\ pc'[r] = "idle" /\ id'[r] = 0 /\ todo'[r] = {} /\ won'[r] = {} /\ sent'[r] = {}
    BY <1>1, <1>2, ReturnEffect
<1>4. excused \subseteq excused' /\ (id[r] # 0 => \A c \in Channels : <<id[r], c>> \in excused')
    BY DEF Crash, At
<1>5. TypeInv'
    <2>1. RowsOK'
        BY <1>1, <1>2 DEF RowsOK
    <2> QED BY <1>1, <1>3, <2>1, HandPut
<1>6. HoldInv' /\ SentInv' /\ JournalInv'
    <2>1. \A c \in won[r] \ sent[r] : <<id[r], c>> \in excused'
        BY <1>1, <1>4 DEF InHand, Apart, MemoryOK
    <2> QED BY <1>2, <1>3, <1>4, <1>5, <2>1, LeaveClaims
<1>7. \A j, d : /\ Excused(j, d) => Excused(j, d)'
                /\ Sent(j, d)' <=> Sent(j, d)
                /\ Told(j, d)' <=> Told(j, d)
    BY <1>2, <1>4 DEF Excused, Sent, Told
<1>8. \A q \in Regions : Resolver(q)' => Same(q) /\ Resolver(q)
    BY <1>3 DEF Others, Same, Resolver
<1>9. OneResolver'
    BY <1>2, <1>8 DEF IInv, OneResolver, Same
<1>10. OpenUntold'
    BY <1>2 DEF IInv, OpenUntold
<1>11. ToldOnce'
    BY <1>2, <1>8 DEF IInv, ToldOnce, Same
<1>12. ToldInv'
    <2>1. \A q \in Regions : pc'[q] = "recover" => Same(q)
        BY <1>8 DEF Resolver
    <2> QED BY <1>2, <1>4, <2>1 DEF IInv, ToldInv, Same, Excused, Sent, Told
<1>13. OwedInv'
    <2>1. ASSUME NEW j \in owed, NEW d \in Channels, <<j, d>> \in log, ~ Excused(j, d)'
          PROVE  \/ Told(j, d)'
                 \/ \E q \in Regions : id'[q] = j /\ (Resolver(q) /\ (pc[q] = "recover" => d \in todo[q]))'
        <3>1. CASE Told(j, d)
            BY <1>7, <3>1
        <3>2. ASSUME NEW q \in Regions, id[q] = j, Resolver(q), pc[q] = "recover" => d \in todo[q]
              PROVE  id'[q] = j /\ (Resolver(q) /\ (pc[q] = "recover" => d \in todo[q]))'
            <4>1. q # r
                BY <1>1, <1>4, <2>1, <3>2 DEF InHand, Apart, Resolver, Excused
            <4> QED BY <1>3, <3>2, <4>1 DEF Others, Same, Resolver
        <3> QED BY <1>7, <2>1, <3>1, <3>2 DEF IInv, OwedInv
    <2> QED BY <1>2, <2>1 DEF OwedInv
<1> QED BY <1>5, <1>6, <1>9, <1>10, <1>11, <1>12, <1>13 DEF IInv

\* Claims grow old: those left behind, or any while their handlers are excused.
LEMMA LeaseStep ==
    ASSUME IInv, LeaseExpires \/ LeaseOutlived
    PROVE  IInv'
<1> USE DEF world, memory, observed
<1>1. UNCHANGED <<incidents, log, deliverable, pc, agg, id, todo, won, sent, alarms, recoveries, owed>>
      /\ fresh' \subseteq fresh /\ excused \subseteq excused'
    BY DEF LeaseExpires, LeaseOutlived
<1>2. TypeInv'
    BY <1>1 DEF IInv, TypeInv, RowsOK, MemoryOK, InHand
<1>3. ASSUME NEW q \in Regions, NEW c \in won[q], ~ Excused(id[q], c)'
      PROVE  <<id[q], c>> \in fresh => <<id[q], c>> \in fresh'
    <2>1. <<id[q], c>> \in Sending
        <3>1. <<id[q], c>> \in At(id[q], won[q])
            BY <1>3 DEF At
        <3> QED BY <3>1 DEF Sending
    <2>2. CASE LeaseExpires
        BY <2>1, <2>2 DEF LeaseExpires, LeftBehind
    <2>3. CASE LeaseOutlived
        <3>1. id[q] \in Ids /\ c \in Channels
            BY <1>3 DEF IInv, TypeInv, MemoryOK, InHand, Apart
        <3>2. <<id[q], c>> \in {x \in Ids \X Channels : Working(x[1])}
            BY <3>1 DEF Working
        <3> QED BY <1>1, <1>3, <2>3, <3>2 DEF LeaseOutlived, Excused
    <2> QED BY <2>2, <2>3
<1>4. HoldInv'
    <2>1. ASSUME NEW q \in Regions, NEW c \in won[q], ~ Excused(id[q], c)'
          PROVE  /\ <<id[q], c>> \in log \cap fresh'
                 /\ \A u \in Regions : id[u] = id[q] /\ c \in won[u] => u = q
        <3>1. ~ Excused(id[q], c)
            BY <1>1, <2>1 DEF Excused
        <3> QED BY <1>3, <2>1, <3>1 DEF IInv, HoldInv
    <2> QED BY <1>1, <2>1 DEF HoldInv, Excused
<1>5. OneResolver' /\ OpenUntold' /\ ToldOnce' /\ SentInv'
    BY <1>1 DEF IInv, OneResolver, OpenUntold, ToldOnce, SentInv, Resolver, Sent
<1>6. JournalInv'
    BY <1>1 DEF IInv, JournalInv, Excused, Sent
<1>7. ToldInv'
    BY <1>1 DEF IInv, ToldInv, Excused, Sent, Told
<1>8. OwedInv'
    BY <1>1 DEF IInv, OwedInv, Excused, Told, Resolver
<1> QED BY <1>2, <1>4, <1>5, <1>6, <1>7, <1>8 DEF IInv

-----------------------------------------------------------------------------
(* The theorems.                                                            *)

LEMMA Start == Init => IInv
<1> SUFFICES ASSUME Init PROVE IInv
    OBVIOUS
<1>1. TypeInv
    <2>1. NoIncident \in Row
        BY DEF NoIncident, NewIncident, Row
    <2>2. RowsOK
        BY <2>1 DEF Init, RowsOK, Pairs
    <2>3. MemoryOK
        BY DEF Init, MemoryOK, Stages
    <2>4. \A r \in Regions : InHand(r)
        BY DEF Init, InHand, Apart
    <2> QED BY <2>2, <2>3, <2>4 DEF TypeInv
<1>2. \A i \in Ids : ~ incidents[i].open /\ incidents[i].channels = {}
    BY DEF Init, NoIncident, NewIncident
<1>3. \A r \in Regions : pc[r] = "idle" /\ won[r] = {} /\ sent[r] = {} /\ ~ Resolver(r)
    BY DEF Init, Resolver
<1>4. \A i \in Ids, c \in Channels : ~ Sent(i, c) /\ ~ Told(i, c) /\ recoveries[<<i, c>>] = 0
    BY DEF Init, Sent, Told
<1>5. OneResolver /\ OpenUntold /\ ToldOnce
    BY <1>2, <1>3 DEF OneResolver, OpenUntold, ToldOnce, Init, Pairs
<1>6. HoldInv /\ SentInv /\ JournalInv
    BY <1>2, <1>3, <1>4 DEF HoldInv, SentInv, JournalInv, Init
<1>7. ToldInv /\ OwedInv
    BY <1>3, <1>4 DEF ToldInv, OwedInv, Init
<1> QED BY <1>1, <1>5, <1>6, <1>7 DEF IInv

\* Every step keeps what the handlers, the journal and the outbox know of each other.
LEMMA Step == IInv /\ [Next]_vars => IInv'
<1> SUFFICES ASSUME IInv, [Next]_vars PROVE IInv'
    OBVIOUS
<1>1. ASSUME NEW r \in Regions, Result(r) PROVE IInv'
    BY <1>1, ResultStep
<1>2. ASSUME NEW r \in Regions, Handle(r) PROVE IInv'
    <2>1. CASE ReadStates(r) \/ OpenIncidentFor(r)
        BY <2>1, ReadStep
    <2>2. CASE OpenIncident(r, FALSE)
        BY <2>2, OpenStep
    <2>3. CASE Held(r, FALSE) \/ ClearSuppressedByDep(r) \/ Gate(r, FALSE) \/ MarkSuppressedByDep(r)
        BY <2>3, GateStep
    <2>4. CASE ClaimStepChannelsWithLease(r)
        BY <2>4, ClaimStep
    <2>5. ASSUME NEW c \in Channels, NotifyOpenStep0(r, c) PROVE IInv'
        BY <2>5, SendStep
    <2>6. ASSUME NEW c \in Channels, NotifyRecovery(r, c, FALSE) PROVE IInv'
        BY <2>6, TellStep
    <2>7. CASE Release(r, FALSE)
        BY <2>7, ReleaseStep
    <2>8. CASE MarkNotified(r, "none")
        BY <2>8, MarkStep
    <2>9. CASE RetryStepZeroLog(r, FALSE)
        BY <2>9, LogStep
    <2>10. CASE ResolveIncident(r)
        BY <2>10, ResolveStep
    <2>11. CASE ReadRecoveryChannels(r)
        BY <2>11, ChannelsStep
    <2> QED BY <1>2, <2>1, <2>2, <2>3, <2>4, <2>5, <2>6, <2>7, <2>8, <2>9, <2>10, <2>11 DEF Handle
<1>3. ASSUME NEW r \in Regions, Fails(r) PROVE IInv'
    <2>1. CASE OpenIncident(r, TRUE)
        BY <2>1, OpenStep
    <2>2. CASE Held(r, TRUE) \/ Gate(r, TRUE)
        BY <2>2, GateStep
    <2>3. CASE ClaimError(r)
        BY <2>3, ClaimErrorStep
    <2>4. ASSUME NEW c \in Channels, NotifyRecovery(r, c, TRUE) PROVE IInv'
        BY <2>4, TellStep
    <2>5. ASSUME NEW c \in Channels, NEW applied \in BOOLEAN, NotifyError(r, c, applied) PROVE IInv'
        BY <2>5, SendStep
    <2>6. CASE Release(r, TRUE)
        BY <2>6, ReleaseStep
    <2>7. ASSUME NEW f, MarkNotified(r, f) PROVE IInv'
        BY <2>7, MarkStep
    <2>8. CASE RetryStepZeroLog(r, TRUE)
        BY <2>8, LogStep
    <2>9. CASE Crash(r)
        BY <2>9, CrashStep
    <2> QED BY <1>3, <2>1, <2>2, <2>3, <2>4, <2>5, <2>6, <2>7, <2>8, <2>9 DEF Fails
<1>4. CASE LeaseExpires \/ LeaseOutlived
    BY <1>4, LeaseStep
<1>5. CASE \/ \E i \in Ids : GracePasses(i) \/ ReleaseSuppressed(i)
           \/ (\E S \in SUBSET Regions : UpdateRegions(S)) \/ WorldChanges \/ UNCHANGED vars
    BY <1>5, WorldStep
<1> QED BY <1>1, <1>2, <1>3, <1>4, <1>5 DEF Next

LEMMA Invariance == Spec => []IInv
<1> QED BY Start, Step, PTL DEF Spec

\* However many regions see the monitor up at once, and whatever crashes, stalls, retries and
\* edits come between resolveIncident, retryStepZeroLog and NotifyRecovery, a channel is sent
\* one recovery of an incident at most, and none when it saw no alarm of it (detector.go,
\* notifier.go), but for the channels that were treated at cross purposes.
THEOREM RecoveryOnce == Spec => []NoStrayRecovery
<1>1. IInv => NoStrayRecovery
    <2> SUFFICES ASSUME IInv, NEW x \in DOMAIN recoveries
                 PROVE  recoveries[x] <= 1 /\ (x \notin excused => recoveries[x] <= alarms[x])
        BY DEF NoStrayRecovery
    <2>1. x \in Pairs /\ recoveries[x] \in Nat /\ alarms[x] \in Nat /\ recoveries[x] <= 1
        BY DEF IInv, TypeInv, RowsOK, ToldOnce
    <2>2. PICK i \in Ids, c \in Channels : x = <<i, c>>
        BY <2>1 DEF Pairs
    <2>3. x \notin excused /\ recoveries[x] > 0 => alarms[x] > 0
        BY <2>2 DEF IInv, ToldInv, Told, Sent, Excused
    <2> QED BY <2>1, <2>3
<1> QED BY <1>1, Invariance, PTL

\* The channels that saw the alarm of an incident have seen its recovery when its handlers
\* are done: the journal that RecoveryChannels reads is the record of the alarms, however the
\* claims were retried, released, left behind and taken over (notifier.go, incident.go).
THEOREM AlarmedHearTheEnd == Spec => []AlarmedIsTold
<1>1. IInv => AlarmedIsTold
    <2> SUFFICES ASSUME IInv, NEW i \in owed, NEW c \in Channels,
                        ~ Working(i), alarms[<<i, c>>] > 0, <<i, c>> \notin excused
                 PROVE  recoveries[<<i, c>>] > 0
        BY DEF AlarmedIsTold
    <2>1. i \in Ids
        BY DEF IInv, TypeInv, RowsOK
    <2>2. <<i, c>> \in log
        BY <2>1 DEF IInv, JournalInv, Sent, Excused
    <2>3. \A r \in Regions : id[r] # i
        BY DEF Working
    <2> QED BY <2>2, <2>3 DEF IInv, OwedInv, Told, Excused
<1> QED BY <1>1, Invariance, PTL

=============================================================================
