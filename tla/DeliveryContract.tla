--------------------------- MODULE DeliveryContract ---------------------------
(***************************************************************************)
(* What the delivery worker promises about a reminder, whatever happens to *)
(* its processes: docs/worker_delivery.md, "External-send idempotency      *)
(* boundary".  The current occurrence is open until the worker confirms it *)
(* or gives up, or the user withdraws the reminder; copies counts the      *)
(* messages the user received for it.                                      *)
(***************************************************************************)
EXTENDS Naturals

CONSTANTS Reminders, MaxCopies

VARIABLES outcome, occurrence, copies

contract == <<outcome, occurrence, copies>>

Init ==
  /\ outcome = [r \in Reminders |-> "open"]
  /\ occurrence \in [Reminders -> Nat]
  /\ copies = [r \in Reminders |-> 0]

\* Delivery is at least once: an open occurrence may be sent again, within the
\* attempt budget.  A message may overtake the cancellation of its reminder.
Receive(r) ==
  /\ outcome[r] \in {"open", "cancelled"}
  /\ copies[r] < MaxCopies
  /\ copies' = [copies EXCEPT ![r] = @ + 1]
  /\ UNCHANGED <<outcome, occurrence>>

\* Only what the user received is confirmed: it waits for the user's action,
\* or the series moves forwards.
Confirm(r) ==
  /\ outcome[r] = "open"
  /\ copies[r] > 0
  /\ \/ /\ outcome' = [outcome EXCEPT ![r] = "delivered"]
        /\ UNCHANGED <<occurrence, copies>>
     \/ /\ occurrence'[r] > occurrence[r]
        /\ occurrence' = [occurrence EXCEPT ![r] = occurrence'[r]]
        /\ copies' = [copies EXCEPT ![r] = 0]
        /\ UNCHANGED outcome

\* One claim transaction may find the budget of several reminders spent.
GiveUp(S) ==
  /\ \A r \in S : outcome[r] = "open"
  /\ outcome' = [r \in Reminders |-> IF r \in S THEN "failed" ELSE outcome[r]]
  /\ UNCHANGED <<occurrence, copies>>

Withdraw(r) ==
  /\ outcome[r] # "cancelled"
  /\ outcome' = [outcome EXCEPT ![r] = "cancelled"]
  /\ UNCHANGED <<occurrence, copies>>

Next ==
  \/ \E r \in Reminders : Receive(r) \/ Confirm(r) \/ Withdraw(r)
  \/ \E S \in SUBSET Reminders : GiveUp(S)

Spec == Init /\ [][Next]_contract
=============================================================================
