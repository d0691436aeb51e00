# Verification of the reminder bot

TLA+ models of the Telegram reminder bot in `src/`, the TLC runs that check
them on small instances, and TLAPS proofs of what matters most.

## 1. The system

Two kinds of process share one PostgreSQL database: the bot (`app/main.py`,
aiogram handlers, one at a time per update but concurrent across updates) and
one or more workers (`app/worker_main.py`). They never call each other: rows,
row locks, revisions and lease tokens are the only interface.

| component | state it keeps | operations | what is hard |
|---|---|---|---|
| delivery worker (`workers/reminder_worker.py`) | `reminders.status/state`, lease, attempts, retries; `reminder_occurrences` | claim, renew, prepare, send, record, finalize, recover | crash or lost answer around the Telegram call, lease expiry, races of workers, batches longer than a lease |
| user actions (`services/reminder_service.py`) | `action_revision` of rows and occurrences, snooze children | Done, Snooze, Pause, Resume, Edit, Delete, /cancel | stale buttons, actions between claim and finalize, parent and child rows |
| recurrence (`services/recurrence.py`) | none | next occurrence, advance until future | DST, end dates, missed occurrences |
| persistent reminders (`services/persistent_policy.py`) | delivery count, per-user cooldown | claim-time policy, exhaustion | quiet hours, cooldown reserved at claim and not at send |
| deadline plans (`services/deadline_service.py`) | plan revision, step states | reconcile, deliver, edit, disable | edit against delivery, skipped steps |
| shared reminders (`services/shared_reminder_service.py`) | memberships, invites, one delivery row per recipient | invite, accept, revoke, fan out | one-time invites, revocation during fan-out, partial failure |
| drafts (`clarification_service.py`, `voice_service.py`, action drafts) | one draft per user with an expiry | create, replace, apply | double application, expiry against confirmation |
| adaptive suggestions, digests (`adaptive_service.py`) | snooze events, suggestions, digest rows | evaluate, accept, deliver | duplicate suggestions, digest leases, a time zone that sets the clock back |
| conditions (`condition_service.py`, `workers/condition_*`) | subscription state, observations, outbox | poll, transition, deliver | duplicate transitions, outbox retries |
| message context, parser, voice runtime, web, scripts | none of their own, or I/O | | |

`PROJECT.json` lists every component with its status, and under `hazards` each
place of the code where an error would escape the tests.

## 2. Modules

### ReminderWorker: the delivery protocol

One row of `row` per reminder, with the columns the worker reads and writes
(`status`, `state`, `remind_at_utc`, `delivery_at_utc`, `next_retry_at`, lease
and token, `attempt_count`, `retry_count`, message identity) and the status of
the occurrence at `remindAt`. Each worker `w` has a program counter `step[w]`;
`process_claimed_reminder` is cut where the code commits a transaction or calls
Telegram:

| step | action | code |
|---|---|---|
| claim | `ClaimDueReminders` | `claim_due_reminders`, whole batch |
| renew | `RenewClaimBeforeSend` | `renew_claim_before_send` |
| prepare | `PrepareDeliveryOccurrence` | `prepare_delivery_occurrence` |
| compose | `StartSend`, `ContextFails` | loading the context, `asyncio.wait_for` |
| send | `TelegramAccepts`, `TelegramRefuses`, `AnswerLost` | `_send_delivery`, `classify_delivery_error` |
| record | `SetLastMessageId` | `set_last_message_id` |
| finalize | `FinalizeDeliverySuccess` | `finalize_delivery_success` |
| fail | `FinalizeDeliveryFailure` | `finalize_delivery_failure` |

`DatabaseError`, `Crash` and `StopRequested` interrupt a worker; `CancelReminder`
is `/cancel`, the one user action admitted while a row is being processed.
`now[w]` is the clock reading taken when the step was reached: the code reads
the time before it waits for the row lock, so the comparison with the lease is
made with an old time, and the model keeps that. `Tick` advances the clock but
not past the time a step may take (`Patience`): the send timeout is enforced by
the code, the poll interval too, and `StepBound` is an assumption on the
database that `MarginAssumption` relates to the safety margin.

A claim is one step. `SKIP LOCKED` can only make two overlapping claims take
disjoint rows, which one after the other do as well; a row skipped because a
transaction that later rolls back held it is a claim of a moment later.

### DeliveryContract: what the worker promises

`Receive`, `Confirm`, `GiveUp`, `Withdraw` on an outcome, an occurrence and a
count of copies. `ReminderWorker` implements it (`ImplementsContract`): at most
`MaxAttempts` copies of an occurrence whatever crashes, nothing confirmed that
was not received, no occurrence gone back to, no settled reminder sent or
rescheduled by a stale worker.

### ReminderLifecycle: what the user does with a reminder

One reminder (`Root`) with one of three kinds of rule: one-off, a fixed
interval, or counted from Done ("completion-relative"). Snoozing an occurrence
of a series creates a child row, named by the time of the occurrence it
postpones, as the unique constraint on parent and source does. The variables
are the rows, the occurrence rows, one `flight` per row that a worker has
claimed, and the `cards`: every message sent with buttons, with the revision
printed on it.

| action | code |
|---|---|
| `Claim`, `PrepareOccurrence`, `Send`, `RecordMessage`, `FinalizeSuccess`, `FinalizeFailure` | the worker, as above, with a claim reduced to the snapshot it carries |
| `Abandon` | the flight ends at any step: crash, stop, lost lease |
| `Done` | `complete_reminder`: on a one-off, on both kinds of series, on a child |
| `Snooze` | `snooze_reminder`: of a waiting row, of a delivered one, of an occurrence of a series (new or reused child), of a child |
| `Pause`, `Resume` | `pause_reminder`, `resume_reminder` |
| `EditText`, `EditSchedule` | `edit_reminder` |
| `Delete`, `CancelById` | `cancel_reminder`, with the children and the snoozed sources |

`Press` is the check every button goes through: `CardCurrent` for a message the
worker delivered, `ListsOccurrence` or `PressRow` for a line of `/list`. A list
is a snapshot, but it is modelled as pressed at once: that nothing changes in a
row without raising its revision (`ListsGoStale`) makes a press on an older list
a refusal, and a refusal changes nothing.

The two modules overlap in the worker on purpose. `ReminderWorker` has time,
leases and several workers, and only `/cancel`; `ReminderLifecycle` has every
user action and takes from the first that a row has one flight at a time
(`SendExclusion`). An abandoned flight can be claimed again at once, which is
more than the lease allows.

Not in this module: an edit that chooses a completion-relative rule (the run
leaves it out; `EditRules` admits it). Calendar rules are a fixed interval with
an inclusive end. Deadlines, sharing, drafts and important reminders have
modules of their own, below.

### SharedReminders: links, members and the fan-out

One one-off reminder, its one-time links, its memberships with their
generations, and the delivery of its occurrence to the owner and every member.

| action | code |
|---|---|
| `CreateInvite`, `RevokeInvite`, `OpenLink`, `AcceptInvite`, `RevokeMembership`, `Cleanup` | `shared_reminder_service.py` and the handlers of `/share`, `/shared`, `/start` |
| `ClaimDue`, `PrepareOccurrence`, `ChoosePath`, `PrepareRecipients`, `NextRecipient`, `Validate`, `SendRecipient`, `RecordSuccess`, `RecordFailure`, `ReadStatus`, `RecordMessage`, `FinalizeSuccess`, `Fail`, `DeliverPersonally` | `_process_shared_delivery` and what the worker does around it |
| `OpenCard`, `SendCard` | the card of `/shared`, sent while the membership row is locked |
| `ParticipantDone`, `ParticipantSnooze`, `OwnerDone`, `OwnerSnooze`, `OwnerEdit`, `OwnerCancel` | the buttons of all the messages there are, `/delete` |
| `Abandon`, `ExpireLease`, `ExpireRow` | crash or stop; the end of a lease |

There is no clock: a lease, a link or a delay may end between any two steps,
which is more than time allows. One case is taken out, that a lease ends inside
the Telegram call of its owner, and `SendsExclude` (section 4) is the reason. A
lock that spans two steps, of a link being opened and of a card being sent, is a
variable.

### DeadlinePlans: from the draft of a plan to its last point

The draft (`CreateDraft`, `DropDraft`, `Confirm`), the claim with the skipping of
points (`ClaimDue`), the delivery, and the buttons (Done, Edit, Disable, Enable,
Delete, and `/list`, whose entries are cards too) on the reminder row, the plan,
its steps, the copy of the plan in the row and the occurrences. `Work(w)` is what
a worker does between its transactions. Here the clock is explicit, because the
code compares the points of a plan with it in every operation. A step is named by
the revision of its plan and its time.

### PersistentReminders: the cycle of important reminders

The one-off important reminders of one user: `Claim` is the claim with its quiet
hours, the slot that `_reserve_user_persistent_slot` reserves and the budget of
attempts; `FinalizeSuccess` computes the next repeat; `Done`, `Delete`, `Disable`
and `Snooze` end a cycle. All times are ticks still to go, so that the model has
no bound on time. The lease protocol is reduced to one flight for each row.

### Conditions: polls of a pull request and the outbox

`ClaimPoll`, `RenewPoll`, `Observe`, `RecordSuccess`, `RecordFailure` are
`condition_service.py` under the loop of `condition_worker.py`; `ClaimRow`,
`SendRow`, `FinalizeRow` are `condition_delivery_worker.py`. `Change` is what
people do at GitHub and `Classify` what `github_review_event.py` makes of it.
There is no clock: whether a lease is alive or a delay has passed is a bit, and
`PollComesDue`, `PollLeaseEnds`, `RowComesDue` flip it at any time. `arrived`
and `doubts` are history: messages that reached the chat, and attempts whose end
the outbox never learnt.

### Conversations: what a user is in the middle of

The action draft, the question about a vague request and the voice draft, each a
row of its own table, and the handlers of `handlers/reminders.py` as tasks that
run concurrently, cut where a transaction or a call ends. What a parser, a
download or a transcription returns is any outcome it has. An update may come
twice (`MaxRepeats`), a handler may die, and an expiry may pass between any two
steps. `used` counts how often each draft took effect; `mixed` says that a
reminder got the text of one message with the source of another.

### Digests: the morning and the evening digest of a user

The slots of `_ensure_digest_schedule` by period and local date (`Ensured`), the
worker (`Claim`, `LoadOwner`, `Renew`, `Send`, `FinalizeSuccess`,
`FinalizeFailure`, `Suppress`), switching on and off (`Switch`) and moving to
another chat or time zone (`Move`). A day has four phases, which begin at 22:00 (of
the evening before; nothing may be sent), 9:00 (the morning slot comes), 15:00 (it is
stale) and 20:00 (the evening slot comes, until 22:00). `phase` is the clock of the
westernmost zone, and the zone of the user is a number of phases ahead of it: a move
changes the time and perhaps the date where the user is (`Local`, `Today`), while the
rows stay on the dates they were made for and keep the time computed in the zone of
then (`zone`, `At`). A move east leaves slots behind; a move west brings back the
time of slots that are over. `west` is history: the clock was once set back. There
are two chats, so the chat of an old row may become the current one again (`here`).
A phase lasts hours, longer than a lease, a batch and the delays before a retry, and
`Tick` waits for them; a lease is longer than the call it was renewed for (`MayEnd`),
which `_digest_lease_seconds` enforces.

### MCServices: a disjoint union

`PersistentReminders`, `Conditions`, `Conversations` and `Digests` have no row in
common, so one run checks them side by side: a behaviour of `MCServices` is one
of a single instance (`part`), and the variables of the others rest. Nothing is
composed that the code composes; the runs of `worker_race`, `lifecycle`, `shared`
and `deadlines` are the ones where components meet. The constants of the important
reminders are constants of `MCServices`, with values in `Services.cfg`; the other
instances are small and fixed. The modules instantiated are `ConditionsProofs`,
`ConversationsProofs` and `DigestsProofs`, which add to the models only theorems and
the predicates of their invariants; in this way `ServicesProofs` can cite them for
the very instances that the run checks.

## 3. Runs

| run | what it asks | instance |
|---|---|---|
| `worker_race` | Do two workers, a user who cancels, and two faults (crash, lost answer, database error) keep the promises of the delivery? `TypeOK`, `SendExclusion`, `DuplicateNeedsLoss`, `IdentityIsReal`, `CancelStopsSends`, `ImplementsContract` | one repeating row, two attempts, 16 time units; workers are symmetric; 1.0 million states |
| `worker_progress` | Is every due occurrence settled in the end, though the worker may crash twice? `EveryOccurrenceSettles` | one worker, a one-off row, two attempts; 0.2 million states |
| `lifecycle` | Do buttons, children and deliveries fit together, in every order? `TypeOK`, `CancelEndsFamily`, `PressesRetireCards`, `ListsGoStale`, `SettledIsFinal`, `SnoozedPairsEndTogether` | each rule, five user actions or faults, two attempts, three time units; 3.4 million states |
| `lifecycle_done` (violation) | Does Done leave the successor of a fixed series alone? | fixed rule, two actions |
| `lifecycle_card` (violation) | Do the buttons of a message work once its delivery is recorded? | fixed rule, two actions |
| `lifecycle_series` (violation) | Does a series go on when its snooze child is deleted? | completion-relative rule, two actions |
| `shared` | Do links, memberships, the fan-out and everybody's buttons fit together through crashes, retries and revocations? `TypeOK`, `LinksAdmitOne`, `EndedIsUnshared`, `HeldDeliveriesAreAuthorised`, `ButtonsNameTheirMember`, `OneButtonPerGeneration`, `SentButtonsWork`, `CardsGoToMembers`, `RecordedIsNotRepeated` | two people, two interchangeable links (symmetry), one worker, two attempts, three operations; constraints `Focus`, `FewRounds`; 2.1 million states |
| `deadlines` | Do the plan, its steps and the row agree whatever the owner, two workers and the clock do, and does every plan end? `TypeOK`, `PlanAndRowAgree`, `FinalizeFindsItsStep`, `SentOnce`, `MessagesFollowThePlan`, `PlansRunOut` | plans of three points and of one, two workers, two attempts, six time units, four operations or crashes; 1.0 million states |
| `deadline_late` (violation) | Is a point skipped only when a later one is over too? | as `deadlines` |
| `services` | Do polls keep their order, alerts end, drafts work once, digests keep coming and important reminders end? `TypeOK`, `HeldWhileSending`, `DuplicateNeedsDoubt`, `ObservationsInOrder`, `AlertsSettle`, `KeepsPolling`, `OneFlow`, `UsedOnce`, `DigestOnce`, `ChainHolds`, `DigestsKeepComing`, `CyclesEnd` | six instances, see below; constraint `ClockGoesOn`; 0.89 million states |
| `digest_west` (violation) | Has every user that is marked as seeded a slot to come? `SeededIsScheduled` | one digest worker, both periods, zones three phases apart, two attempts |
| `conversation_mix` (violation) | Is the source attached to a reminder the one its text was made of? | three messages, no repeated update |

Why the bounds are enough. In `worker_race` the lease is 7 and one delivery at
most 6, so a lease expires in the middle of a delivery that was slow to start; two
workers are all that a race for one row involves, and a third would only repeat the
second. Batches are of one row: a row that waits in a longer batch is one whose
worker is slow to start it, and the theorems are for batches of any size. Two faults and two attempts reach the
end of the budget by each path: refused sends, crashes, and both. The interval
of 4 is shorter than a retry cycle, so occurrences are missed. In `lifecycle`
the reminder is due at 2 and may be snoozed to 1, so deliveries ahead of their
time happen, as do missed occurrences (3 is passed over to 4) and the end of
the series; four events already bring back a child whose source was settled
through the series, which is the one way to reach the cancelling branch of
`claim_due_reminders`. Every branch of every action is taken in the run.

In `shared` the two people compete for links and memberships as long as no worker
has taken the reminder; from then on `Focus` keeps the second person out, so that
the fan-out runs with the owner and one member, which is enough for every partial
failure: either of the two fails, and the other does not. `FewRounds` stops after
two attempts, one attempt, a snooze and two more, or two attempts, a snooze and
one more. Membership generations go to 3: a member, revoked, and back.

In `deadlines` the plan has a point before, one at and one after the deadline, and
a second request has a single point; two revisions of the plan let an edit meet a
delivery of the old one. The clock runs to 6, past the last point, a lease and a
retry. `sends` counts the messages of a step since its plan was last switched on:
an owner who switches the plan off and on again in the very instant of a step whose
answer was lost does get that step a second time.

The instances of `services`: `polls`, two pollers and two changes at GitHub, no
sender; `sends`, one poller that fills an outbox for two senders with two
attempts and one change (polls and senders share only the outbox rows, which
`RecordSuccess` appends); `talk`, two handlers, two messages, one button draft,
one repeated update, one voice slot; `days`, one digest worker, both periods, zones
three phases apart; `race`, two digest workers, the evening alone, the same zones;
`repeats`, two important reminders, a day of four hours one of which is quiet, a
cooldown of two and an interval of one, two deliveries, two attempts. The cooldown is longer than the interval, so
that one reminder is due again while the slot that its own claim took is not free
yet and competes with the other for the next. `KeepsPolling` speaks of claims: a
poller may crash before each record, and no fairness forbids it, so what the lease
gives is that somebody takes the poll up again, for ever, and not that a poll ends.

`ChainHolds` and `DigestsKeepComing` are asked of `days`, where one worker sends, as
deployed, and both periods are there: with two workers or one period `ChainHolds` is
false (see the last divergence below). The zones are three phases apart, so that one
move takes the user from the evening back to before the morning slot of the same
date, or on to the next date; with zones two phases apart the slots of a day cannot
both be over and both come again. Two attempts take a slot to its last failure. Both
properties are claimed for a user whose clock was never set back (`~west`), who may
move east once and between the chats without end; for the others they are false,
which `digest_west` shows. `ClockGoesOn` therefore leaves moves west out of `days`;
`race` and `digest_west` have them. The liveness of each part is asked of behaviours
that stay in the part, as all do, and in the form `[]<>`, for which TLC needs no
tableau.

`CHECK_DEADLOCK FALSE`: a completed or deleted reminder at the last tick of the
clock (`lifecycle`, `deadlines`), a shared reminder that has ended, and a part of
`services` whose drafts are used up or whose alerts are sent really have nothing
left to do.

Fairness (`FairSpec` of `ReminderWorker`, used by `worker_progress`). Weak
fairness of a worker's step: the process runs, and its transactions end. Strong
fairness of `Tick`: time passes, although `Tick` is disabled whenever a step has
used up its time. Strong fairness of a claim: `reminder_loop` polls for as long
as the process lives, and the poll is interrupted by the sleep between polls.
Crashes, refusals, lost answers and user actions have no fairness. Faults are
bounded, since a worker that crashes at every attempt settles nothing but the
budget.

The other specifications with fairness. `DeadlinePlans`: weak fairness of the
clock, of the poll of some worker and of the work of each. `Conditions`: weak
fairness of what time does to a lease or a delay, and of each poller's and
sender's step; a crash is never fair, and it may come for ever, which is why
`AlertsSettle` needs the budget of attempts and `KeepsPolling` the lease.
`Digests`: weak fairness of the phases, of the end of delays and leases, and of
the worker. `PersistentReminders`: weak fairness of the clock, of the claim of
each due row, and of the end of a flight, by an answer, the enforced timeout or a
crash; the clock waits for due rows, since a poll comes every few seconds. The
processes are restarted when they die (`docker-compose.yml`), and all of them poll
in a loop that survives its exceptions; the one exception that ends the loop
(`reminder_worker.py:1664`) ends the process, which is a crash of the models.
`SharedReminders` and `Conversations` state no liveness.

### Where the code and its documents disagree

* `lifecycle_done`: Done computes the next time of a fixed series from the
  acknowledged occurrence (`reminder_service.py:1847`), although the worker has
  moved the series on past the missed ones. The missed occurrence is sent after
  all. The comment in the code wants the successor not to be skipped; the
  documents want missed occurrences not to be replayed.
* `lifecycle_card`: Done on a snooze child raises the parent's revision
  (`reminder_service.py:1892`) while the parent is being delivered. The message
  on its way carries the old revision, and its buttons are refused.
* `lifecycle_series`: deleting the snooze child of a completion-relative series
  leaves the parent `delivered` with nothing to complete
  (`reminder_service.py:1401`); no further occurrence is ever scheduled.

* `deadline_late`: a claim skips the current point of a plan as soon as its time
  is less than the clock (`deadline_service.py:902`). A point is delivered only by
  a poll at that very instant; a point late by one poll, after a failure that was
  to be retried or after a crash, is skipped, even if it is the last one and no
  later point is over. `tests/test_deadline.py:326` asserts the skip of a single point
  that has elapsed, so code and test agree, and it is the bounded retry of
  `docs/deadline_protection.md` that they leave no room for. This is also why
  `SentOnce` holds: a step is never tried twice while its plan stays on.
* `conversation_mix`: the question about a forwarded message is rewritten in place
  and always has the same text, so an answer that was read against one such
  question consumes the next one (`clarification_service.py:216`): the reminder
  has the text made of the first source and the second source attached.
* `digest_west`: both digests of the day were sent by 20:30 in Vladivostok, and the
  user sends `/timezone America/New_York`, where it is 06:30 of the same date.
  `_invalidate_digest_schedule` withdraws the slots of the next day. The bootstrap
  finds the rows of the day over and their time still to come, so the next slot it
  computes is the same row (`adaptive_service.py:1249`): it opens nothing and marks
  the user as seeded (`:1274`). No slot is left whose end could open another, and no
  digest comes until the user, once those times have passed again, sends `/digest on`
  or moves once more. The code means to "Keep one current/next slot per period" (`:1181`), and that "changing the
  delivery profile should make the withdrawn slot available with the current
  chat/timezone" (`:1229`).

Smaller ones met on the way and not made into a run:

* A renewal is refused when the lease has just expired, even to the owner whose token
  is still in the row (`reminder_worker.py:700`), although "it may renew the timestamp
  even if that same owner's original lease has just expired"
  (`docs/worker_delivery.md:59`). The later rows of a slow batch are dropped unsent,
  and each time they cost one attempt.
* `/list` takes the occurrence created last for the latest one, so an occurrence
  that was delivered early and comes again after another hides behind that one,
  the list shows the row instead, and Pause from the list then leaves the buttons
  of the delivered message alive. `PressesRetireCards` therefore speaks of presses
  that name an occurrence.
* A review request that is withdrawn between the claim of its alert and the call
  of Telegram is sent all the same; the check for it
  (`condition_delivery_worker.py:82`) is made at the claim.
* After a retry that reached only some recipients of a shared occurrence, an edit
  of the text by the owner resets the row and the recipients that failed are not
  tried again; `SentButtonsWork` leaves the edit out.
* The cooldown of important reminders spaces claims, not messages
  (`reminder_worker.py:450`): a batch may send two of them closer together than
  the cooldown when the first was slow. A claim that fails for good spends the
  slot as well.
* While a repeat of an important reminder is being retried, the message of the
  delivery before it has dead buttons: the claim and the failure take its identity
  (`reminder_worker.py:612`, `:893`), and the row has Delete, Snooze and Disable
  but not Done until a repeat arrives.
* A worker that suppresses a digest because the user switched them off opens no
  next slot (`adaptive_service.py:1506`). When the user switches them on again in
  the meantime, that period has no slot, against "Keep one current/next slot per
  period" (`adaptive_service.py:1181`), until a slot of the other period ends and
  opens both. With one period there would be none to do so.

## 4. Proofs

Every safety property that a passing run checks, invariants and action properties
alike, is also proved, for every value of the constants that the assumptions admit
(the properties of `services` for the instances of that run, but of the components
for any values, see below). Liveness is not: it stays with TLC.

| module | theorems |
|---|---|
| `ReminderWorkerProofs` | `TypeCorrect`, `SendsExclude`, `DuplicatesNeedLoss`, `IdentitiesAreReal`, `CancelStopsTheSends`, `WorkerImplementsContract` (the refinement of `DeliveryContract`) |
| `ReminderLifecycleProofs` | `TypeCorrect`, `CancelledFamilies`, `SettledForGood`, `ListsExpire`, `OnePressPerCard`, `PairsEndTogether` |
| `SharedRemindersProofs` | `TypeCorrect`, `LinksAdmit`, `EndedUnshares`, `HeldIsAuthorised`, `CardsFindMembers`, `ButtonsNameMembers`, `OneButton`, `RecordedOnce`, `SentOnesWork` |
| `DeadlinePlansProofs` | `TypeCorrect`, `PlanAndRow`, `StepIsFound`, `StepsGoOutOnce`, `MessagesAreDue` |
| `ConditionsProofs` | `TypeCorrect`, `PollsRecordInOrder`, `AttemptIsHeld`, `DuplicatesAreDoubted` |
| `ConversationsProofs` | `TypeCorrect`, `OneFlowAtMost`, `FlowsAreUsedOnce` |
| `DigestsProofs` | `TypeCorrect`, `DigestsOnce`, `ChainNeverBreaks` |
| `ServicesProofs` | what these three modules prove, for the instances of `MCServices`, and the types of `PersistentReminders` |

### From which assumptions

TLC evaluates each named assumption in the runs of its module.

* `ReminderWorker`: `LeaseAssumption` (the rule of `Settings.validate_worker_timing`:
  the lease is longer than the send timeout plus the margin), `MarginAssumption` (the
  margin covers the five transactions around the call, which the code does not check:
  it is what the margin is for), `DataAssumption` (constants have their types) and
  `PowersAssumption` (powers of two are natural numbers, which the provers do not
  know).
* `ReminderLifecycle`: `SettingsAssumption`: intervals, delays and the budget of
  attempts are positive.
* `SharedReminders`: `SharingAssumption`: finitely many people, who are not the owner;
  no link is called `Null`; the limits are positive.
* `DeadlinePlans`: `DeadlineAssumption`: what the validation of a draft lets through
  (one to six points, the deadline among them, at most one after it).
* `MCServices`: `NullAssumption` and `PolicyAssumption` (the settings of important
  reminders that `persistent_policy.py` and `config.py` accept; some hour of the day
  is not quiet, since quiet hours that end where they start are none).
* `ConditionsProofs`, `ConversationsProofs` and `DigestsProofs` have their hypotheses
  in a predicate `Parameters` that each theorem assumes: bounds are natural numbers,
  `Null` is no poller and no state, there is a period, a zone is at most three
  phases ahead. `ServicesProofs` proves them of the instances of the run
  (`Constants`). `ChainNeverBreaks` also assumes `OneWorker` and `TwoPeriods`: without
  either it is false, as the last divergence of section 3 tells. That is what the deployment has: one worker process sends the digests, of a
  morning and an evening.

### Along which argument

No property here is inductive as it stands; each module says what has to be known
besides. An inductive invariant is a conjunction of named parts; a lemma for each
operation shows that it preserves them, and the theorem follows from the initial
states and the steps.

**The delivery** (`ReminderWorkerProofs`). Nothing in `SendExclusion` says why a
second worker cannot pass its renewal. `SendInv` adds `OnTime` (no worker is later in
its step than the step may take), `TokensIssued` and `TokensUnshared` (a claim holds a
token that was issued for its row and to nobody else) and `LeaseCovers` (a worker on
its way to Telegram holds the row, and its lease outlasts the time it can still need,
unless the user has cancelled). Then, in layers that each use those before:
`FenceInv` (from its renewal on a worker finds its row as it claimed it, to the end of
its finalization), `MessageInv` (what became of each message: confirmed, recorded by
a worker under way, or lost; and every earlier message for the occurrence about to be
sent is lost), `BudgetInv` (copies never exceed the attempts counted, and a claim that
still has to call has one more), `CancelInv` (a worker that composes for a cancelled
row had prepared it before). The refinement maps a row to its outcome and the inbox to
the number of copies: `DeliveryInv` makes every step one of the contract or a stutter.

**The life of a reminder** (`ReminderLifecycleProofs`). What any operation may do to a
row is one relation, `Moves`; what it leaves of occurrences, children, flights and
cards is `OccsSound`, `SnoozesStay`, `FlightsMove`, `CardsSound`. The invariant needs
`Budget` (a row that waits has an attempt left, so no claim passes the limit), `Over`
(a completed relative series has no next occurrence and never will have, which is why
Done on a child, although it reschedules the series whatever its state, cannot revive
it), `Stamps` (a flight, a message or a button is never ahead of its row) and `Bound`
(a flight that owns its row delivers the occurrence of the row). The action properties
follow from the same relations, step by step.

**The shared reminder** (`SharedRemindersProofs`). `MemberInv`: a link that somebody
reads is his until he answers (`OpenedLinks`), it was used once (`LinksUsedOnce`), the
members fit (`Seats`), and a card on its way has a member (`CardLocks`). `CardInv`:
every button that took effect is of a revision that the occurrence has left behind.
`FanOut`: tokens are revisions of the reminder, so that no two workers share one
(`ClaimInv`); while its claim stands a worker finds the occurrence and the rows of
the round as it left them (`Engaged`); it calls only for a recipient without a message
of this round (`Sending`); and what was recorded stays recorded until the reminder
ends (`SentInv`).

**Deadline plans** (`DeadlinePlansProofs`). `Agree` is `PlanAndRowAgree` with the birth
of the two and the steps of older revisions; `Claims` says who holds the row, for which
step and for how long (`Tokens`, `Held`, `Calls`); `Once` that a step which went out is
either done, or current and over before its row can be claimed again (`Spent`), so that
what a worker is about to send did not go out (`Unsent`). The first version of
`SentOnce` counted over the whole life of a plan; the proof failed at `Enable`, and
the behaviour it failed on is real (section 3, `deadlines`).

**Polls and alerts** (`ConditionsProofs`). `PollInv`: who holds the claim of a poll
observed no earlier than the last record. `SendInv`: attempts under way are distinct,
made, and either hold their row or are in doubt. `CountInv` counts the messages that
arrived by the doubts that can bring none any more, plus the one that is known.

**Conversations** (`ConversationsProofs`). `FlowInv`: a draft that took effect is of an
earlier revision of the reminder, also the one a handler has read and not applied yet
(`DraftsSpent`), and an open question or voice draft has taken no effect (`OpenUnused`).

**Digests** (`DigestsProofs`). `DeliveryInv`: a worker that calls holds its slot, and a
report that can still be made is of a slot nobody else has. `ChainInv`, which holds
of a user whose clock was not set back: slots ahead of the user's clock are neither
claimed nor closed, and were computed in no zone further east (`AheadUnclaimed`); the
slots that a worker has claimed have passed (`ClaimsPassed`); and a worker that is
about to withdraw a slot found the digests off: if they are on, they were switched on
since, and then every period has another slot (`WithdrawalCovered`). A move east
keeps all of it, since what was behind the user stays behind; a move west breaks
`AheadUnclaimed`, and with it the chain (`digest_west`). So what is inductive is
the conjunction of `DeliveryInv` and `~west => ChainInv` (`Chained`).

**Important reminders** (`ServicesProofs`). `TypeOK` of `PersistentReminders` is
inductive by itself: a flight has its row and a live lease, buttons belong to a delivery
that is not under way, and a reminder that repeats is below its limit, which is why the
exhausted branch of the claim is dead. It rests on `AllowedWithinADay`: the next hour
that is not quiet comes within a day, whatever hours are quiet.

### What is only model-checked

* Liveness, which the prover cannot do: `EveryOccurrenceSettles`, `PlansRunOut`,
  `AlertsSettle`, `KeepsPolling`, `DigestsKeepComing`, `CyclesEnd`.
* The runs that end in a violation, which are counterexamples.

No module has a RECURSIVE operator. Where an operator takes a minimum or counts a set,
the lemmas come from the library (`FiniteSetTheorems`, `WellFoundedInduction`) or are
proved from it (`Least`: the induction theorems themselves take an operator and cannot
be instantiated).

## 5. What is not modelled, and the plan

To be proved next: safety properties of what the runs do not ask yet, where the
invariants above already carry them. That an occurrence is never skipped but by the
rule of its series (`ImplementsContract` forbids going back, not skipping). For `PersistentReminders`, that two claims of one
user are a cooldown apart; for `Digests`, `ChainNeverBreaks` with several workers as
far as it goes (some period keeps its slot when each worker withdraws one);
for `ReminderLifecycle`, that a series that is neither paused nor over has a next
occurrence, outside the case of run `lifecycle_series`.

Parts of the modelled components that are left out:

* the adaptive suggestions of `adaptive_service.py`: counts of snoozes over weeks
  and a proposal that is accepted against the revision it was made for, which is
  the check that `Press` of `ReminderLifecycle` models;
* calendar rules, time zones and DST (`recurrence.py`, `schedule_policy`): a rule
  is a fixed interval, and the times of a plan are given. The zones of the digests
  are whole phases apart and have no summer time. The rules are
  pure functions of the calendar, of which a model could only repeat the library
  calls;
* Pause, Resume and Edit of one-off important reminders, which go through the
  functions that `ReminderLifecycle` models;
* recurring important reminders: their cycle starts again at the next occurrence,
  by Done, Resume or Edit;
* the advance of a recurring shared reminder, one occurrence of which is modelled;
* the log of observations, metrics, and retention of old rows;
* deadlocks in the database: a transaction is one step of the models, and an
  aborted one leaves nothing behind (`reminder_service.py:1878`).

Left out for good: the text parser (pure, no state, and its unit tests enumerate
more inputs than TLC would), message context snapshots (data that is copied
along), the speech and media runtime, the web and administration shell,
migrations, benchmarks and deployment scripts: input and output around the
services, or work done once and offline.
