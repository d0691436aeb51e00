------------------------ MODULE PersistentReminders ------------------------
(***************************************************************************)
(* The one-off important ("persistent") reminders of one user: repeated    *)
(* until the user answers or the limit of deliveries is reached, not in    *)
(* the quiet hours, and claimed one at a time for each cooldown            *)
(* (persistent_policy.py and its branches in reminder_worker.py).          *)
(*                                                                         *)
(* Times are numbers of ticks still to go.  A tick is longer than the      *)
(* poll interval of the worker.  A flight is a claim and the worker that   *)
(* has it; ReminderWorker shows that a row has one at most.                *)
(***************************************************************************)
EXTENDS Naturals

CONSTANTS
  Reminders,
  Day, Quiet,     \* a day is Day ticks; the hours of Quiet are quiet
  Interval,       \* persistent_interval_minutes
  Cooldown,       \* persistent_user_cooldown_minutes
  MaxDeliveries,  \* max_effective_deliveries of the policy
  MaxAttempts,    \* worker_max_attempts
  Lease           \* worker_lease_duration_seconds

VARIABLES
  hour,      \* the local hour
  reserved,  \* ticks to next_persistent_delivery_at_utc of the user
  row,       \* the reminders
  flight     \* "none", "claimed" or "sending", for each row
vars == <<hour, reserved, row, flight>>

\* "at" joins status and state; "over" is completed or cancelled.  "remind",
\* "wait", "retry" and "lease" are the ticks to remind_at_utc, delivery_at_utc,
\* next_retry_at and lease_until.  "card": the last delivery still has buttons,
\* those of its message or those /list shows for it.
Row == [mode : {"persistent", "normal"},
        at : {"pending", "processing", "delivered", "failed", "over"},
        remind : 0..1, wait : 0..(Interval + Cooldown + Day), retry : 0..1, lease : 0..Lease,
        count : 0..MaxDeliveries, attempt : 0..MaxAttempts, card : BOOLEAN]

\* A flight has its row, and buttons belong to a delivery that is not under way.
TypeOK ==
  /\ hour \in 0..(Day - 1) /\ reserved \in 0..Cooldown
  /\ row \in [Reminders -> Row]
  /\ flight \in [Reminders -> {"none", "claimed", "sending"}]
  /\ \A r \in Reminders :
       /\ flight[r] # "none" => row[r].at = "processing" /\ row[r].lease > 0
       /\ row[r].card => row[r].at \in {"pending", "delivered"}
       /\ row[r].mode = "persistent" /\ row[r].at \in {"pending", "processing"}
            => row[r].count < MaxDeliveries

Init ==
  /\ hour \in 0..(Day - 1) /\ reserved = 0
  /\ row \in [Reminders -> {[mode |-> "persistent", at |-> "pending", remind |-> t, wait |-> t,
                             retry |-> 0, lease |-> 0, count |-> 0, attempt |-> 0,
                             card |-> FALSE] : t \in 0..1}]
  /\ flight = [r \in Reminders |-> "none"]

-----------------------------------------------------------------------------
(* The policy *)

QuietIn(t) == (hour + t) % Day \in Quiet

\* next_allowed_delivery of t ticks from now.
Allowed(t) == CHOOSE u \in t..(t + Day) : ~QuietIn(u) /\ \A v \in t..(u - 1) : QuietIn(v)

Due(r) == \/ row[r].at = "pending" /\ row[r].wait = 0 /\ row[r].retry = 0
          \/ row[r].at = "processing" /\ row[r].lease = 0

Put(r, new) == row' = [row EXCEPT ![r] = new]

\* Mutant: a row that is put off gets its attempts back.
DeferredAnew(r, t) == [row[r] EXCEPT !.at = "pending", !.wait = t, !.retry = 0, !.lease = 0,
                                     !.attempt = 0]
\* _release_policy_deferral: the attempts spent stay spent.
Deferred(r, t) == [row[r] EXCEPT !.at = "pending", !.wait = t, !.retry = 0, !.lease = 0]

\* _reserve_user_persistent_slot.
Reserved == IF reserved > 0 THEN reserved ELSE Cooldown

-----------------------------------------------------------------------------
(* The worker *)

\* What a claim makes of a row that the policy lets pass.
Taken(r) ==
  IF row[r].attempt >= MaxAttempts
  THEN /\ Put(r, [row[r] EXCEPT !.at = "failed", !.lease = 0, !.retry = 0, !.card = FALSE])
       /\ UNCHANGED flight
  ELSE /\ Put(r, [row[r] EXCEPT !.at = "processing", !.lease = Lease, !.retry = 0,
                                !.attempt = @ + 1, !.card = FALSE])
       /\ flight' = [flight EXCEPT ![r] = "claimed"]

\* The next row of a batch of claim_due_reminders, in any order of rows due.
\* The slot of the user is reserved before the attempts are counted.  (That the
\* limit of deliveries is not reached yet is in TypeOK, so that the branch of
\* _mark_persistent_exhausted is never taken.)
Claim(r) ==
  /\ Due(r)
  /\ UNCHANGED hour
  /\ IF row[r].mode = "normal"
     THEN Taken(r) /\ UNCHANGED reserved
     ELSE IF Allowed(0) > 0
     THEN Put(r, Deferred(r, Allowed(0))) /\ UNCHANGED <<reserved, flight>>
     ELSE /\ reserved' = Reserved
          /\ IF reserved > 0
             THEN Put(r, Deferred(r, reserved)) /\ UNCHANGED flight
             ELSE Taken(r)

\* renew_claim_before_send.
Renew(r) ==
  /\ flight[r] = "claimed"
  /\ flight' = [flight EXCEPT ![r] = "sending"]
  /\ Put(r, [row[r] EXCEPT !.lease = Lease])
  /\ UNCHANGED <<hour, reserved>>

Landed(r, new) ==
  /\ flight[r] = "sending"
  /\ flight' = [flight EXCEPT ![r] = "none"]
  /\ Put(r, [new EXCEPT !.lease = 0])
  /\ UNCHANGED <<hour, reserved>>

\* finalize_delivery_success: the last delivery, or the next one of the cycle.
FinalizeSuccess(r) ==
  LET sent == [row[r] EXCEPT !.attempt = 0, !.card = TRUE] IN
  IF row[r].mode = "normal" THEN Landed(r, [sent EXCEPT !.at = "delivered", !.wait = 0])
  ELSE IF row[r].count + 1 >= MaxDeliveries
  THEN Landed(r, [sent EXCEPT !.at = "delivered", !.wait = 0, !.count = @ + 1])
  ELSE Landed(r, [sent EXCEPT !.at = "pending", !.wait = Allowed(Interval), !.count = @ + 1])

\* finalize_delivery_failure.
FinalizeFailure(r) ==
  \/ Landed(r, [row[r] EXCEPT !.at = "failed"])
  \/ /\ row[r].attempt < MaxAttempts
     /\ Landed(r, [row[r] EXCEPT !.at = "pending", !.retry = 1])

\* The worker dies or stops, or its finalization does: the row waits for the end
\* of the lease.
Abandon(r) ==
  /\ flight[r] # "none"
  /\ flight' = [flight EXCEPT ![r] = "none"]
  /\ UNCHANGED <<hour, reserved, row>>

Down(t) == IF t > 0 THEN t - 1 ELSE 0

\* Due rows are polled and a call of Telegram ends before its lease does.  A
\* claim whose lease ends is worth nothing.
Tick ==
  /\ \A r \in Reminders : ~Due(r) /\ ~(flight[r] = "sending" /\ row[r].lease = 1)
  /\ hour' = (hour + 1) % Day
  /\ reserved' = Down(reserved)
  /\ row' = [r \in Reminders |-> [row[r] EXCEPT !.remind = Down(@), !.wait = Down(@),
                                                !.retry = Down(@), !.lease = Down(@)]]
  /\ flight' = [r \in Reminders |-> IF row'[r].lease = 0 THEN "none" ELSE flight[r]]

-----------------------------------------------------------------------------
(* The user *)

\* A button of the last delivery; or, when there is none, of the row in /list.
OnCard(r) == row[r].card
OnRow(r) == ~row[r].card /\ row[r].at = "pending"

Acts(r, new) == Put(r, new) /\ UNCHANGED <<hour, reserved, flight>>

Over(r) == [row[r] EXCEPT !.at = "over", !.wait = 0, !.retry = 0, !.card = FALSE]

\* complete_reminder of the delivery; cancel_reminder of it or of the row.
Done(r) == OnCard(r) /\ Acts(r, Over(r))
Delete(r) == (OnCard(r) \/ OnRow(r)) /\ Acts(r, Over(r))

\* disable_persistent_reminder: a delivered one stays to be answered, another
\* becomes an ordinary reminder of its own time.
Disable(r) ==
  /\ row[r].mode = "persistent"
  /\ \/ OnCard(r) /\ Acts(r, [row[r] EXCEPT !.mode = "normal", !.at = "delivered", !.wait = 0])
     \/ OnRow(r) /\ Acts(r, [row[r] EXCEPT !.mode = "normal", !.wait = row[r].remind,
                                           !.retry = 0, !.attempt = 0])

\* snooze_reminder, by a tick.
Snooze(r) ==
  /\ OnCard(r) \/ OnRow(r)
  /\ Acts(r, [row[r] EXCEPT !.mode = "normal", !.at = "pending", !.wait = 1, !.retry = 0,
                            !.attempt = 0, !.card = FALSE])

-----------------------------------------------------------------------------
FlightStep(r) == Renew(r) \/ FinalizeSuccess(r) \/ FinalizeFailure(r) \/ Abandon(r)

Next ==
  \/ Tick
  \/ \E r \in Reminders :
       \/ Claim(r) \/ FlightStep(r)
       \/ Done(r) \/ Delete(r) \/ Disable(r) \/ Snooze(r)

\* Time passes, whatever is due is claimed, and a call of Telegram ends.
Spec ==
  /\ Init /\ [][Next]_vars
  /\ WF_vars(Tick)
  /\ \A r \in Reminders : WF_vars(Claim(r)) /\ WF_vars(FlightStep(r))

-----------------------------------------------------------------------------
(* Properties *)

Repeating(r) == row[r].mode = "persistent" /\ row[r].at \in {"pending", "processing"}

\* Every cycle ends, by its limits if not by the user: neither the quiet hours nor
\* the slot that each claim of the user's other reminders reserves, that of a
\* claim which fails or dies included, puts a reminder off for ever.
CyclesEnd == []<>(\A r \in DOMAIN row : ~Repeating(r))
=============================================================================
