-------------------------- MODULE DeliveryContract --------------------------
(***************************************************************************)
(* What the notification outbox promises to the code that enqueues a       *)
(* message (alerting, escalation, uptime): an accepted message is either   *)
(* confirmed as sent, and then it really reached its receiver, or given up *)
(* on; the verdict is final; and a verdict is always reached.  The outbox  *)
(* makes no promise on how often the receiver sees the message (at least   *)
(* once when sent): see Outbox!DuplicateOnlyAfterLoss for what can be said.*)
(***************************************************************************)
CONSTANT Jobs

VARIABLES
    status,     \* "absent", "pending", "sent", "failed", "purged" or "withdrawn"
    received    \* whether the receiver has seen the message, per job

contractVars == <<status, received>>

Init ==
    /\ status = [j \in Jobs |-> "absent"]
    /\ received = [j \in Jobs |-> FALSE]

Accept(j) ==
    /\ status[j] = "absent"
    /\ status' = [status EXCEPT ![j] = "pending"]
    /\ UNCHANGED received

\* The receiver may see the message (again) at any time after its acceptance,
\* even after the verdict: a delayed worker can still be sending.
Receive(j) ==
    /\ status[j] # "absent"
    /\ received' = [received EXCEPT ![j] = TRUE]
    /\ UNCHANGED status

Confirm(j) ==
    /\ status[j] = "pending"
    /\ received[j]
    /\ status' = [status EXCEPT ![j] = "sent"]
    /\ UNCHANGED received

GiveUp(j) ==
    /\ status[j] = "pending"
    /\ status' = [status EXCEPT ![j] = "failed"]
    /\ UNCHANGED received

\* Only verdicts are purged ...
Forget(S) ==
    /\ \A j \in S : status[j] \in {"sent", "failed"}
    /\ status' = [j \in Jobs |-> IF j \in S THEN "purged" ELSE status[j]]
    /\ UNCHANGED received

\* ... but whoever deletes a channel withdraws its messages, sent or not.
Withdraw(j) ==
    /\ status[j] \in {"pending", "sent", "failed"}
    /\ status' = [status EXCEPT ![j] = "withdrawn"]
    /\ UNCHANGED received

Next ==
    \/ \E j \in Jobs : Accept(j) \/ Receive(j) \/ Confirm(j) \/ GiveUp(j) \/ Withdraw(j)
    \/ \E S \in SUBSET Jobs : Forget(S)

Settle(j) ==
    /\ status[j] = "pending"
    /\ Confirm(j) \/ GiveUp(j) \/ Withdraw(j)

Safety == Init /\ [][Next]_contractVars

Spec == Safety /\ \A j \in Jobs : WF_contractVars(Settle(j))
=============================================================================
