---------------------------- MODULE ReminderWorker ----------------------------
(***************************************************************************)
(* The delivery protocol of app/workers/reminder_worker.py: several worker *)
(* processes share the table of reminders, claim due rows under a lease,   *)
(* renew the lease just before calling Telegram, and record the outcome in *)
(* transactions fenced by the lease token.  A worker may crash between any *)
(* two steps, and Telegram may accept a message whose acknowledgement is   *)
(* lost.  Rows are ordinary reminders (mode "normal", not a deadline, not  *)
(* shared, without snooze children); /cancel is the one user action that   *)
(* the code admits while a row is being processed.                         *)
(*                                                                         *)
(* Every transaction is one step: it holds the row lock (SELECT ... FOR    *)
(* UPDATE) to its commit.  The time it compares with is read before it     *)
(* waits for the lock: that reading is now[w], the clock when the worker   *)
(* reached the step, and the step itself may happen later.                 *)
(*                                                                         *)
(* A NULL time or token is 0, a moment that is never later than the clock. *)
(***************************************************************************)
EXTENDS Naturals, FiniteSets

CONSTANTS
  Workers,        \* worker processes
  Reminders,      \* primary keys of the rows, natural numbers
  Repeating,      \* the rows with a recurrence rule that is not completion-relative
  Interval,       \* time between two occurrences of a repeating row
  DueTimes,       \* first occurrences that Init picks from
  SeriesEnd,      \* no occurrence is later: the rule's end, and a bound on time
  MaxTime,        \* bound on the clock
  MaxFaults,      \* bound on crashes and database errors
  BatchSize,      \* worker_batch_size
  MaxAttempts,    \* worker_max_attempts
  LeaseDuration,  \* worker_lease_duration_seconds
  SendTimeout,    \* worker_send_timeout_seconds
  SafetyMargin,   \* worker_lease_safety_margin_seconds
  RetryBase,      \* worker_retry_base_seconds
  RetryMax,       \* worker_retry_max_seconds
  RetryAfters,    \* delays Telegram may ask for with a 429 answer
  PollInterval,   \* worker_poll_interval_seconds
  StepBound       \* longest time one transaction takes, lock wait included

Null == 0

ASSUME DataAssumption ==
  /\ Reminders \subseteq Nat
  /\ Repeating \subseteq Reminders
  /\ DueTimes \subseteq Nat \ {0}
  /\ {Interval, BatchSize, MaxAttempts} \subseteq Nat \ {0}
  /\ {SeriesEnd, MaxTime, MaxFaults, RetryBase, RetryMax} \subseteq Nat
  /\ RetryAfters \subseteq Nat

\* Settings.validate_worker_timing refuses to start with a shorter lease.
ASSUME LeaseAssumption ==
  /\ {LeaseDuration, SendTimeout, SafetyMargin, PollInterval, StepBound} \subseteq Nat
  /\ LeaseDuration > SendTimeout + SafetyMargin

\* What the safety margin is there for: it covers the five transactions
\* around the Telegram call (renew, prepare, load context, record, finalize).
ASSUME MarginAssumption == 5 * StepBound <= SafetyMargin

\* A fact of arithmetic the provers do not know.
ASSUME PowersAssumption == \A e \in 0..30 : 2^e \in Nat

-----------------------------------------------------------------------------

Live == {"scheduled", "snoozed"}

Row ==
  [status   : {"pending", "processing", "sent", "failed"},
   state    : Live \union {"delivered", "failed", "cancelled"},
   remindAt : Nat,      \* canonical occurrence
   deliverAt: Nat,      \* delivery_at_utc
   nextRetry: Nat,
   lease    : Nat,      \* lease_until
   token    : Nat,      \* lease_token
   issued   : Nat,      \* tokens issued for the row: uuid4 never repeats one
   attempts : Nat,      \* attempt_count
   retries  : Nat,      \* retry_count
   lastMsg  : Nat,      \* last_message_id, named by the token of the call that sent it
   lastOcc  : Nat,      \* last_delivery_occurrence_utc
   occ      : {"absent", "processing", "delivered", "failed", "cancelled"},
                        \* status of the occurrence row at remindAt
   cancelledAt : Nat]

\* What a worker keeps of a row it claimed: the detached ORM snapshot.
Claim == [id : Reminders, token : Nat, occ : Nat, due : Nat]

\* A message a user received: for which occurrence, from which claim.
Message == [id : Reminders, occ : Nat, token : Nat]

Failure == [terminal : BOOLEAN, retryAfter : RetryAfters \union {0}]

\* Where a worker stands: between two polls, or about to run a transaction of
\* process_due_reminders, or inside the Telegram call ("send").
Steps == {"idle", "claim", "renew", "prepare", "compose", "send",
          "record", "finalize", "fail"}

VARIABLES
  clock,     \* the time utc_now() returns
  row,       \* the reminders table
  step,      \* the step each worker is at
  now,       \* the time it reached that step: the clock reading the step uses
  job,       \* the claim it is processing
  batch,     \* the claims of its batch it has not started
  failure,   \* the failure it is about to record
  inbox,     \* messages Telegram accepted
  lost,      \* those whose acknowledgement the worker never got, or never saved
  faults     \* crashes and database errors so far

vars == <<clock, row, step, now, job, batch, failure, inbox, lost, faults>>

worker == <<step, now, job, batch, failure>>

NoClaim == [id |-> 0, token |-> 0, occ |-> 0, due |-> 0]
NoFailure == [terminal |-> FALSE, retryAfter |-> 0]

TypeOK ==
  /\ clock \in Nat
  /\ row \in [Reminders -> Row]
  /\ step \in [Workers -> Steps]
  /\ now \in [Workers -> Nat]
  /\ job \in [Workers -> Claim \union {NoClaim}]
  /\ \A w \in Workers : step[w] \notin {"idle", "claim"} => job[w] \in Claim
  /\ batch \in [Workers -> SUBSET Claim]
  /\ failure \in [Workers -> Failure]
  /\ inbox \subseteq Message
  /\ lost \subseteq Message
  /\ faults \in Nat

-----------------------------------------------------------------------------
(* Initial rows: waiting for a first delivery, or snoozed by the user.     *)

NewRow(due, later) ==
  [status |-> "pending", state |-> IF later > due THEN "snoozed" ELSE "scheduled",
   remindAt |-> due, deliverAt |-> later, nextRetry |-> Null,
   lease |-> Null, token |-> Null, issued |-> 0, attempts |-> 0, retries |-> 0,
   lastMsg |-> Null, lastOcc |-> Null, occ |-> "absent", cancelledAt |-> Null]

InitialRows ==
  { NewRow(due, due) : due \in DueTimes }
    \union { NewRow(p[1], p[2]) : p \in { q \in DueTimes \X DueTimes : q[1] < q[2] } }

Init ==
  /\ clock = 1
  /\ row \in [Reminders -> InitialRows]
  /\ step = [w \in Workers |-> "idle"]
  /\ now = [w \in Workers |-> 1]
  /\ job = [w \in Workers |-> NoClaim]
  /\ batch = [w \in Workers |-> {}]
  /\ failure = [w \in Workers |-> NoFailure]
  /\ inbox = {}
  /\ lost = {}
  /\ faults = 0

-----------------------------------------------------------------------------
(* Time.  A step takes a bounded time: that is asyncio.wait_for around the  *)
(* Telegram call, the poll interval, and an assumption on the database.     *)

Patience(s) ==
  CASE s = "idle" -> PollInterval
    [] s = "send" -> SendTimeout
    [] OTHER      -> StepBound

Tick ==
  /\ clock < MaxTime
  /\ \A w \in Workers : clock < now[w] + Patience(step[w])
  /\ clock' = clock + 1
  /\ UNCHANGED <<row, worker, inbox, lost, faults>>

\* Worker w reaches step s, and reads the clock there.
Enter(w, s) ==
  /\ step' = [step EXCEPT ![w] = s]
  /\ now' = [now EXCEPT ![w] = clock]

\* order_by(delivery_at, id)
Precedes(c, d) == c.due < d.due \/ (c.due = d.due /\ c.id < d.id)

\* The for loop of process_due_reminders: go on with the first of the given
\* claims, or sleep when there is none.
TakeNext(w, claims) ==
  /\ failure' = [failure EXCEPT ![w] = NoFailure]
  /\ \/ /\ claims = {}
        /\ job' = [job EXCEPT ![w] = NoClaim]
        /\ batch' = [batch EXCEPT ![w] = {}]
        /\ Enter(w, "idle")
     \/ \E c \in claims :
          /\ \A d \in claims \ {c} : Precedes(c, d)
          /\ job' = [job EXCEPT ![w] = c]
          /\ batch' = [batch EXCEPT ![w] = claims \ {c}]
          /\ Enter(w, "renew")

\* The worker goes on with the same claim.
Continue(w, s) ==
  /\ Enter(w, s)
  /\ UNCHANGED <<job, batch, failure>>

-----------------------------------------------------------------------------
(* claim_due_reminders                                                      *)

ClearProcessingState(q) ==
  [q EXCEPT !.lease = Null, !.token = Null, !.nextRetry = Null]

\* Mutant: a claimed row may be taken again before its lease runs out.
ClaimableUnderLease(q, t) ==
  /\ q.state \in Live
  /\ \/ q.status = "pending" /\ q.deliverAt <= t /\ q.nextRetry <= t
     \/ q.status = "processing"

\* Mutant: rows left behind by a crashed worker are never recovered.
ClaimableWhenPending(q, t) ==
  /\ q.state \in Live
  /\ q.status = "pending" /\ q.deliverAt <= t /\ q.nextRetry <= t

Claimable(q, t) ==
  /\ q.state \in Live
  /\ \/ q.status = "pending" /\ q.deliverAt <= t /\ q.nextRetry <= t
     \/ q.status = "processing" /\ q.lease <= t

Exhausted(q) ==
  ClearProcessingState(
    [q EXCEPT !.status = "failed", !.state = "failed",
              !.retries = IF @ > q.attempts THEN @ ELSE q.attempts,
              !.lastMsg = Null, !.lastOcc = Null])

\* Mutant: the claim does not spend an attempt.
ClaimedForFree(q, t) ==
  [q EXCEPT !.status = "processing", !.lease = t + LeaseDuration,
            !.token = q.issued + 1, !.issued = @ + 1, !.nextRetry = Null,
            !.lastMsg = Null, !.lastOcc = Null]

Claimed(q, t) ==
  [q EXCEPT !.status = "processing", !.lease = t + LeaseDuration,
            !.token = q.issued + 1, !.issued = @ + 1, !.nextRetry = Null,
            !.lastMsg = Null, !.lastOcc = Null, !.attempts = @ + 1]

Poll(w) ==
  /\ step[w] = "idle"
  /\ Continue(w, "claim")
  /\ UNCHANGED <<clock, row, inbox, lost, faults>>

ClaimDueReminders(w) ==
  /\ step[w] = "claim"
  /\ LET due == { r \in Reminders : Claimable(row[r], now[w]) }
         Key(r) == [id |-> r, due |-> row[r].deliverAt]
         chosen == { r \in due :
           Cardinality({ q \in due : Precedes(Key(q), Key(r)) }) < BatchSize }
         spent == { r \in chosen : row[r].attempts >= MaxAttempts }
         taken == chosen \ spent
     IN /\ row' = [r \in Reminders |->
                     CASE r \in spent -> Exhausted(row[r])
                       [] r \in taken -> Claimed(row[r], now[w])
                       [] OTHER       -> row[r]]
        /\ TakeNext(w, { [id |-> r, token |-> row[r].issued + 1,
                          occ |-> row[r].remindAt, due |-> row[r].deliverAt] :
                         r \in taken })
  /\ UNCHANGED <<clock, inbox, lost, faults>>

-----------------------------------------------------------------------------
(* process_claimed_reminder: up to the Telegram call                        *)

\* The predicate of every fenced transaction, with the clock reading it uses.
OwnsLease(w) ==
  LET q == row[job[w].id]
  IN /\ q.status = "processing"
     /\ q.state \in Live
     /\ q.token = job[w].token
     /\ q.lease > now[w]

\* The update of the job's row, when the worker may write it.
Write(w, q) == row' = [row EXCEPT ![job[w].id] = q]

RenewClaimBeforeSend(w) ==
  /\ step[w] = "renew"
  /\ \/ /\ OwnsLease(w)
        /\ Write(w, [row[job[w].id] EXCEPT !.lease = now[w] + LeaseDuration])
        /\ Continue(w, "prepare")
     \/ /\ ~OwnsLease(w)
        /\ TakeNext(w, batch[w])
        /\ UNCHANGED row
  /\ UNCHANGED <<clock, inbox, lost, faults>>

\* Mutant: the occurrence is prepared without looking at the lease again.
PrepareUnfenced(w) ==
  /\ step[w] = "prepare"
  /\ Write(w, [row[job[w].id] EXCEPT !.occ = "processing"])
  /\ Continue(w, "compose")
  /\ UNCHANGED <<clock, inbox, lost, faults>>

PrepareDeliveryOccurrence(w) ==
  /\ step[w] = "prepare"
  /\ \/ /\ OwnsLease(w)
        /\ Write(w, [row[job[w].id] EXCEPT !.occ = "processing"])
        /\ Continue(w, "compose")
     \/ /\ ~OwnsLease(w)
        /\ TakeNext(w, batch[w])
        /\ UNCHANGED row
  /\ UNCHANGED <<clock, inbox, lost, faults>>

\* The message context is loaded (nothing to do for most rows), then the call
\* starts; a failure to load it is recorded as a transient delivery failure.
StartSend(w) ==
  /\ step[w] = "compose"
  /\ Continue(w, "send")
  /\ UNCHANGED <<clock, row, inbox, lost, faults>>

Fails(w, f) ==
  /\ Enter(w, "fail")
  /\ failure' = [failure EXCEPT ![w] = f]
  /\ UNCHANGED <<job, batch>>

ContextFails(w) ==
  /\ step[w] = "compose"
  /\ Fails(w, NoFailure)
  /\ UNCHANGED <<clock, row, inbox, lost, faults>>

-----------------------------------------------------------------------------
(* The Telegram call, and how classify_delivery_error sees it end           *)

JobMessage(w) == [id |-> job[w].id, occ |-> job[w].occ, token |-> job[w].token]

TelegramAccepts(w) ==
  /\ step[w] = "send"
  /\ Continue(w, "record")
  /\ inbox' = inbox \union {JobMessage(w)}
  /\ UNCHANGED <<clock, row, lost, faults>>

\* A network error, a server error, a 429 answer (transient), or a blocked
\* chat or a bad request (terminal): the message did not go out.
TelegramRefuses(w) ==
  /\ step[w] = "send"
  /\ \E f \in Failure :
       /\ f.terminal => f.retryAfter = 0
       /\ Fails(w, f)
  /\ UNCHANGED <<clock, row, inbox, lost, faults>>

\* The answer is lost, or comes after the timeout cancelled the call.
AnswerLost(w) ==
  /\ step[w] = "send"
  /\ Fails(w, NoFailure)
  /\ inbox' = inbox \union {JobMessage(w)}
  /\ lost' = lost \union {JobMessage(w)}
  /\ UNCHANGED <<clock, row, faults>>

-----------------------------------------------------------------------------
(* Recording the outcome                                                    *)

\* set_last_message_id
SetLastMessageId(w) ==
  /\ step[w] = "record"
  /\ \/ /\ OwnsLease(w)
        /\ Write(w, [row[job[w].id] EXCEPT !.occ = "delivered",
                       !.lastMsg = job[w].token, !.lastOcc = job[w].occ])
        /\ Continue(w, "finalize")
     \/ /\ ~OwnsLease(w)
        /\ TakeNext(w, batch[w])
        /\ UNCHANGED row
  /\ UNCHANGED <<clock, inbox, lost, faults>>

\* advance_occurrence_until_future: the first occurrence later than t, none
\* when the series has ended.
NextOccurrence(occurrence, t) ==
  LET later == { u \in 1..SeriesEnd :
                   /\ u > occurrence /\ u > t
                   /\ (u - occurrence) % Interval = 0 }
  IN { u \in later : \A v \in later : u <= v }

\* The columns a success resets, whatever the recurrence.
Succeeded(q) ==
  ClearProcessingState(
    [q EXCEPT !.occ = "delivered", !.retries = 0, !.attempts = 0,
              !.lastOcc = IF @ = Null THEN q.remindAt ELSE @])

\* Mutant: the delivered row stays pending.
DeliveredRowPending(q) ==
  [Succeeded(q) EXCEPT !.status = "pending", !.state = "scheduled"]

\* Mutant: the values of the two columns are swapped.
DeliveredRowSwapped(q) ==
  [Succeeded(q) EXCEPT !.status = "delivered", !.state = "sent", !.deliverAt = Null]

\* One-off and completion-relative rows, and series that have ended, wait for
\* the user; other series move on to their next occurrence.
DeliveredRow(q) ==
  [Succeeded(q) EXCEPT !.status = "sent", !.state = "delivered", !.deliverAt = Null]

\* Mutant: the identity of the message is moved to the next occurrence.
AdvancedRowWithIdentity(q, next) ==
  [Succeeded(q) EXCEPT !.status = "pending", !.state = "scheduled", !.lastOcc = next,
                       !.remindAt = next, !.deliverAt = next, !.occ = "absent"]

AdvancedRow(q, next) ==
  [Succeeded(q) EXCEPT !.status = "pending", !.state = "scheduled",
                       !.remindAt = next, !.deliverAt = next, !.occ = "absent"]

FinalizeDeliverySuccess(w) ==
  /\ step[w] = "finalize"
  /\ LET r == job[w].id
         next == IF r \in Repeating
                   THEN NextOccurrence(row[r].remindAt, now[w]) ELSE {}
     IN \/ /\ OwnsLease(w)
           /\ next = {}
           /\ Write(w, DeliveredRow(row[r]))
        \/ /\ OwnsLease(w)
           /\ \E n \in next : Write(w, AdvancedRow(row[r], n))
        \/ /\ ~OwnsLease(w)
           /\ UNCHANGED row
  /\ TakeNext(w, batch[w])
  /\ UNCHANGED <<clock, inbox, lost, faults>>

\* retry_delay_seconds
RetryDelay(failed, retryAfter) ==
  LET exponent == IF failed <= 1 THEN 0 ELSE IF failed > 31 THEN 30 ELSE failed - 1
      doubled  == RetryBase * 2^exponent
      capped   == IF doubled < RetryMax THEN doubled ELSE RetryMax
      delay    == IF capped < retryAfter THEN retryAfter ELSE capped
  IN IF delay < 1 THEN 1 ELSE delay

\* The row of a failed attempt, before the decision to retry.
FailedRow(q) ==
  ClearProcessingState(
    [q EXCEPT !.retries = @ + 1, !.occ = "failed", !.lastMsg = Null, !.lastOcc = Null])

FinalizeDeliveryFailure(w) ==
  /\ step[w] = "fail"
  /\ LET q == row[job[w].id]
         f == failure[w]
         terminal == f.terminal \/ q.attempts >= MaxAttempts
     IN \/ /\ OwnsLease(w)
           /\ terminal
           /\ Write(w, [FailedRow(q) EXCEPT !.status = "failed", !.state = "failed"])
        \/ /\ OwnsLease(w)
           /\ ~terminal
           /\ Write(w, [FailedRow(q) EXCEPT
                          !.status = "pending", !.state = "scheduled",
                          !.nextRetry = now[w] + RetryDelay(q.retries + 1, f.retryAfter)])
        \/ /\ ~OwnsLease(w)
           /\ UNCHANGED row
  /\ TakeNext(w, batch[w])
  /\ UNCHANGED <<clock, inbox, lost, faults>>

-----------------------------------------------------------------------------
(* Stops, errors, crashes                                                   *)

\* The worker forgets its claims; their leases run out.
DropBatch(w) ==
  /\ Enter(w, "idle")
  /\ job' = [job EXCEPT ![w] = NoClaim]
  /\ batch' = [batch EXCEPT ![w] = {}]
  /\ failure' = [failure EXCEPT ![w] = NoFailure]

\* stop_event is looked at before a claim is renewed and before Telegram is called.
StopRequested(w) ==
  /\ step[w] \in {"renew", "compose"}
  /\ DropBatch(w)
  /\ UNCHANGED <<clock, row, inbox, lost, faults>>

\* A transaction raises.  Recording an outcome catches it and goes on with the
\* batch; before the send the exception reaches reminder_loop and the batch is lost.
DatabaseError(w) ==
  /\ faults < MaxFaults
  /\ faults' = faults + 1
  /\ \/ /\ step[w] \in {"claim", "renew", "prepare"}
        /\ DropBatch(w)
        /\ UNCHANGED lost
     \/ /\ step[w] \in {"record", "finalize", "fail"}
        /\ TakeNext(w, batch[w])
        /\ lost' = IF step[w] = "fail" THEN lost ELSE lost \union {JobMessage(w)}
  /\ UNCHANGED <<clock, row, inbox>>

\* The process dies and is restarted.  A message on the wire may still arrive.
Crash(w) ==
  /\ faults < MaxFaults
  /\ faults' = faults + 1
  /\ DropBatch(w)
  /\ \/ /\ step[w] = "send"
        /\ inbox' = inbox \union {JobMessage(w)}
        /\ lost' = lost \union {JobMessage(w)}
     \/ /\ step[w] \in {"record", "finalize"}
        /\ lost' = lost \union {JobMessage(w)}
        /\ UNCHANGED inbox
     \/ /\ step[w] \notin {"record", "finalize"}
        /\ UNCHANGED <<inbox, lost>>
  /\ UNCHANGED <<clock, row>>

-----------------------------------------------------------------------------
(* The user: cancel_reminder as /cancel calls it, without a revision        *)

\* The occurrence it cancels is the one delivered last, or being processed.
Cancelled(q, t) ==
  LET target == \/ q.occ = "delivered" /\ q.lastOcc = q.remindAt
                \/ q.occ = "processing" /\ q.status = "processing"
  IN [q EXCEPT !.state = "cancelled", !.status = "sent", !.cancelledAt = t,
               !.deliverAt = Null, !.lease = Null, !.token = Null, !.nextRetry = Null,
               !.attempts = 0, !.retries = 0,
               !.occ = IF target THEN "cancelled" ELSE q.occ]

CancelReminder(r) ==
  /\ row[r].state # "cancelled"
  /\ row' = [row EXCEPT ![r] = Cancelled(row[r], clock)]
  /\ UNCHANGED <<clock, worker, inbox, lost, faults>>

-----------------------------------------------------------------------------

WorkerStep(w) ==
  \/ Poll(w) \/ ClaimDueReminders(w)
  \/ RenewClaimBeforeSend(w) \/ PrepareDeliveryOccurrence(w)
  \/ StartSend(w) \/ ContextFails(w)
  \/ TelegramAccepts(w) \/ TelegramRefuses(w) \/ AnswerLost(w)
  \/ SetLastMessageId(w) \/ FinalizeDeliverySuccess(w) \/ FinalizeDeliveryFailure(w)

Next ==
  \/ Tick
  \/ \E w \in Workers : WorkerStep(w) \/ StopRequested(w) \/ DatabaseError(w) \/ Crash(w)
  \/ \E r \in Reminders : CancelReminder(r)

Spec == Init /\ [][Next]_vars

\* Time passes, and the event loop of a worker keeps running its current step.
\* A claim transaction that is started again and again is not hit by a fault
\* every time: that is the strong fairness.
Fairness ==
  /\ SF_vars(Tick)
  /\ \A w \in Workers : WF_vars(WorkerStep(w)) /\ SF_vars(ClaimDueReminders(w))

FairSpec == Spec /\ Fairness

-----------------------------------------------------------------------------
(* Properties                                                              *)

\* Two workers are never on the way to Telegram, from a successful renewal to
\* the end of the call, for the same reminder: a lease outlives the call it
\* was renewed for (renew_claim_before_send, the timing rule of the settings).
Sending == {"prepare", "compose", "send"}

SendExclusion ==
  \A v, w \in Workers :
    v # w /\ step[v] \in Sending /\ step[w] \in Sending => job[v].id # job[w].id

\* A user receives two messages for one occurrence only if the acknowledgement
\* of the first was lost to a crash, a timeout or a database error.  Leases
\* that run out in a waiting batch, races of workers and cancellations never
\* duplicate a message.
DuplicateNeedsLoss ==
  \A m1, m2 \in inbox :
    m1.id = m2.id /\ m1.occ = m2.occ /\ m1.token < m2.token => m1 \in lost

\* A message identity in a row is that of a message the user really has, for
\* the occurrence the row names: a stale worker never leaves its own behind.
IdentityIsReal ==
  \A r \in Reminders :
    row[r].lastMsg # Null =>
      [id |-> r, occ |-> row[r].lastOcc, token |-> row[r].lastMsg] \in inbox

\* Once /cancel has committed, no call to Telegram starts but the one a worker
\* had already prepared, and that one within a step's time.
CancelStopsSends ==
  \A w \in Workers :
    step[w] = "send" /\ row[job[w].id].state = "cancelled" =>
      now[w] <= row[job[w].id].cancelledAt + StepBound

\* The worker keeps the contract of DeliveryContract: at most MaxAttempts
\* copies of an occurrence however the workers crash, nothing confirmed that
\* was not received, no occurrence skipped or gone back to, and no settled
\* reminder sent or rescheduled by a stale worker.
Outcome(q) ==
  CASE q.state \in Live        -> "open"
    [] q.state = "delivered"   -> "delivered"
    [] q.state = "failed"      -> "failed"
    [] q.state = "cancelled"   -> "cancelled"

Contract == INSTANCE DeliveryContract WITH
  MaxCopies  <- MaxAttempts,
  outcome    <- [r \in Reminders |-> Outcome(row[r])],
  occurrence <- [r \in Reminders |-> row[r].remindAt],
  copies     <- [r \in Reminders |->
                   Cardinality({ m \in inbox : m.id = r /\ m.occ = row[r].remindAt })]

ImplementsContract == Contract!Spec

\* Every occurrence is dealt with: the row is delivered, failed or cancelled,
\* or the series moves on, even if the workers crash while they hold it.  The
\* clock is bounded, so this watches the occurrences due at the start.
Settled(r, o) == row[r].state \notin Live \/ row[r].remindAt # o

EveryOccurrenceSettles ==
  \A r \in Reminders : \A o \in DueTimes :
    row[r].remindAt = o ~> Settled(r, o)
=============================================================================
