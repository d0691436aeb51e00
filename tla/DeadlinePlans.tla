---------------------------- MODULE DeadlinePlans ----------------------------
(***************************************************************************)
(* A reminder with a deadline and its plan of control points, from the     *)
(* draft the owner confirms to the last point: deadline_service.py, the    *)
(* branches for deadlines of the worker and of reminder_service.py, and    *)
(* the buttons of the cards.                                               *)
(*                                                                         *)
(* Time is a counter, because the plan compares its points with the clock  *)
(* everywhere.  The points of a plan have different times, so a step is    *)
(* named by the revision of its plan and its time, and the order of the    *)
(* sequence numbers is the order of the times.  A step of the model is one *)
(* database transaction or one Telegram call.                              *)
(***************************************************************************)
EXTENDS Integers, FiniteSets, FiniteSetsExt

CONSTANTS
  Requests,     \* what the owner may ask for: records [deadline, points]
  Workers,      \* worker processes
  MaxAttempts,  \* worker_max_attempts
  Lease,        \* worker_lease_duration_seconds
  RetryDelay,   \* what retry_delay_seconds returns
  DraftTTL,     \* DEADLINE_DRAFT_TTL
  MaxTime,      \* bound on the clock
  MaxPlans,     \* bound on the revisions of the plan
  MaxDrafts,    \* bound on the drafts
  MaxEvents     \* bound on what the owner and crashes do

Null == 0
Times == UNION {r.points : r \in Requests}
Plans == 1..MaxPlans
Keys == Plans \X Times
NoStep == <<Null, Null>>

\* normalize_deadline_points and build_deadline_plan: one to six points, the
\* deadline among them and at most one after it.
ASSUME DeadlineAssumption ==
  /\ {MaxAttempts, Lease, RetryDelay, DraftTTL, MaxTime, MaxPlans} \subseteq Nat \ {0}
  /\ {MaxDrafts, MaxEvents} \subseteq Nat
  /\ \A r \in Requests :
       /\ r.points \subseteq Nat \ {0} /\ r.deadline \in r.points
       /\ Cardinality(r.points) \in 1..6
       /\ Cardinality({t \in r.points : t > r.deadline}) <= 1

Final == {"completed", "cancelled", "failed"}
Buttons == {"done", "edit", "disable", "enable", "delete"}

Reminder ==
  [status : {"absent", "pending", "processing", "sent", "failed"},
   state  : {"scheduled", "delivered", "paused"} \union Final,
   rev    : Nat,                 \* action_revision
   at     : Times \union {Null}, \* remind_at_utc; delivery_at_utc while pending
   attempts : Nat,
   retryAt : Nat,                \* next_retry_at
   token  : Nat,                 \* lease_token, named by the revision of its claim
   lease  : Nat,                 \* lease_until
   msg    : Nat,                 \* last_message_id, named by the claim that sent it
   named  : Times \union {Null}] \* last_delivery_occurrence_utc

Plan ==
  [state : {"none", "active", "disabled", "exhausted", "completed", "cancelled"},
   rev : Nat, current : Times \union {Null}]

Occurrence ==
  [status : {"absent", "processing", "delivered", "failed", "completed", "cancelled"},
   rev : Nat, msg : Nat,
   step : Keys \union {NoStep}]  \* deadline_step_id

StepStates == {"none", "pending", "delivered", "skipped", "failed"}

\* A message with buttons.  A delivery and an entry of /list that shows an
\* occurrence name its time; only a delivery names its message.
Card == [at : Times \union {Null}, rev : Nat, msg : Nat, offers : SUBSET Buttons]

PCs == {"idle", "renew", "prepare", "send", "record", "finalize", "transient", "terminal"}

VARIABLES
  now,      \* the clock
  rem,      \* the reminder row
  plan,     \* reminder_deadline_plans
  mirror,   \* the copy of the plan in the reminder row
  steps,    \* reminder_deadline_steps
  occ,      \* reminder_occurrences, by their time
  draft,    \* deadline_reminder_drafts of the owner
  drafts,   \* how many drafts there were; each had a preview with two buttons
  worker,   \* what each worker keeps between its transactions
  cards,    \* the messages with buttons in the chat
  sends,    \* how often each step went out since its plan was last switched on
  events    \* operations of the owner and crashes so far

row == <<rem, plan, mirror, steps>>
book == <<draft, drafts>>
vars == <<now, rem, plan, mirror, steps, occ, draft, drafts, worker, cards, sends, events>>

-----------------------------------------------------------------------------
NoReminder ==
  [status |-> "absent", state |-> "scheduled", rev |-> 0, at |-> Null, attempts |-> 0,
   retryAt |-> 0, token |-> Null, lease |-> 0, msg |-> Null, named |-> Null]
NoPlan == [state |-> "none", rev |-> 0, current |-> Null]
NoDraft == [id |-> Null, deadline |-> Null, pending |-> {}, skipped |-> {}, until |-> 0]
Idle == [pc |-> "idle", token |-> Null, step |-> NoStep]

Init ==
  /\ now = 0
  /\ rem = NoReminder /\ plan = NoPlan /\ mirror = NoPlan
  /\ steps = [k \in Keys |-> "none"]
  /\ occ = [t \in Times |-> [status |-> "absent", rev |-> 0, msg |-> Null, step |-> NoStep]]
  /\ draft = NoDraft /\ drafts = 0
  /\ worker = [w \in Workers |-> Idle]
  /\ cards = {} /\ events = 0
  /\ sends = [k \in Keys |-> 0]

-----------------------------------------------------------------------------
(* The steps of a plan.                                                    *)

\* The pending steps of the current revision.
Pending(st, r) == {t \in Times : r \in Plans /\ st[<<r, t>>] = "pending"}

\* The earliest of a set of times, none of an empty set.
First(ts) == IF ts = {} THEN Null ELSE Min(ts)

Mark(st, r, ts, state) ==
  [k \in Keys |-> IF k[1] = r /\ k[2] \in ts THEN state ELSE st[k]]

\* _set_deadline_mirror.
Mirror(p, step) == [p EXCEPT !.current = step]

\* A row without the message of its last delivery.
Anonymous(r) == [r EXCEPT !.msg = Null, !.named = Null]

\* _clear_delivery_identity: neither message nor attempts nor lease.
Fresh(r) ==
  [Anonymous(r) EXCEPT !.attempts = 0, !.retryAt = 0, !.token = Null, !.lease = 0]

\* A row that waits for the step at t.
Scheduled(r, t) == [r EXCEPT !.at = t, !.status = "pending", !.state = "scheduled"]

\* The plan ends by itself; reason says whether the last step failed.
Exhausted(p) == [p EXCEPT !.state = "exhausted", !.current = Null]

-----------------------------------------------------------------------------
(* Drafts.                                                                 *)

\* create_deadline_draft: the points already over are skipped in the draft.
CreateDraft(q) ==
  /\ rem.status = "absent" /\ drafts < MaxDrafts
  /\ q.deadline > now
  /\ drafts' = drafts + 1
  /\ draft' = [id |-> drafts + 1, deadline |-> q.deadline,
               pending |-> {t \in q.points : t >= now},
               skipped |-> {t \in q.points : t < now},
               until |-> now + DraftTTL]
  /\ UNCHANGED <<row, occ, worker, cards, sends, events>>

\* cancel_deadline_reminder_draft, discard_deadline_draft by the button of the
\* draft, cleanup_expired_deadline_drafts.
DropDraft ==
  /\ draft # NoDraft
  /\ draft' = NoDraft
  /\ UNCHANGED <<row, occ, drafts, worker, cards, sends, events>>

\* The points still ahead when the owner confirms.
Ahead(d) == {t \in d.pending : t > now}

\* confirm_deadline_draft by the button of the preview of draft i.
Confirm(i) ==
  /\ rem.status = "absent" /\ draft.id = i
  /\ draft' = NoDraft
  /\ LET ahead == Ahead(draft)
         fresh == [state |-> "active", rev |-> 1, current |-> First(ahead)]
     IN IF draft.until <= now \/ ahead = {} \/ draft.deadline <= now
        THEN UNCHANGED row
        ELSE /\ rem' = Scheduled(NoReminder, First(ahead))
             /\ plan' = fresh /\ mirror' = fresh
             /\ steps' = Mark(Mark(steps, 1, ahead, "pending"), 1,
                              (draft.pending \union draft.skipped) \ ahead, "skipped")
  /\ UNCHANGED <<occ, drafts, worker, cards, sends, events>>

-----------------------------------------------------------------------------
(* The worker: claim.                                                      *)

\* Mutant: a claim is not told from the claim of another worker.
OwnsAny(w) == rem.status = "processing" /\ rem.lease > now

Owns(w) ==
  rem.status = "processing" /\ rem.token = worker[w].token /\ rem.lease > now

\* _clear_processing_state.
Released(r) == [r EXCEPT !.token = Null, !.lease = 0, !.retryAt = 0]
GoTo(w, pc) == worker' = [worker EXCEPT ![w].pc = pc]
Stop(w) == worker' = [worker EXCEPT ![w] = Idle]

\* Mutant: a claim that was never finished is not taken over.
DuePending ==
  rem.state = "scheduled" /\ rem.status = "pending" /\ rem.at <= now /\ rem.retryAt <= now

Due ==
  /\ rem.state = "scheduled"
  /\ \/ rem.status = "pending" /\ rem.at <= now /\ rem.retryAt <= now
     \/ rem.status = "processing" /\ rem.lease <= now

\* Mutant: a step is skipped only when a later one is over as well.
ElapsedBurst ==
  {t \in Pending(steps, plan.rev) :
     \E u \in Pending(steps, plan.rev) \ {t} : t < u /\ u <= now}

\* The steps reconcile_deadline_for_claim skips: those before the clock.
Elapsed == {t \in Pending(steps, plan.rev) : t < now}

\* The row of a plan that ended by itself.
ExhaustedRow(r) == [r EXCEPT !.status = "sent", !.state = "delivered"]

\* reconcile_deadline_for_claim when it refuses the claim.
Reconcile ==
  LET rest == Pending(steps, plan.rev) \ Elapsed
      p == IF rest = {} THEN Exhausted(plan) ELSE [plan EXCEPT !.current = First(rest)]
  IN /\ plan.state # "active" \/ Elapsed # {}
     /\ IF plan.state # "active"
        THEN /\ rem' = [rem EXCEPT !.status = "sent", !.state = "paused"]
             /\ mirror' = Mirror(plan, Null)
             /\ UNCHANGED <<plan, steps>>
        ELSE /\ steps' = Mark(steps, plan.rev, Elapsed, "skipped")
             /\ plan' = p /\ mirror' = p
             /\ rem' = IF rest = {} THEN ExhaustedRow(rem)
                       ELSE Released(Scheduled(rem, First(rest)))
     /\ UNCHANGED <<occ, worker, cards, sends>>

Claimable == plan.state = "active" /\ Elapsed = {}

\* finalize_deadline_delivery_failure of a terminal failure.
FailPlan ==
  /\ steps' = [steps EXCEPT ![<<plan.rev, plan.current>>] = "failed"]
  /\ plan' = Exhausted(plan) /\ mirror' = Exhausted(plan)

\* Mutant: the status of the row gets the value of its state.
FailedSwapped(r) == [Released(Anonymous(r)) EXCEPT !.status = "sent", !.state = "failure"]

FailedRow(r) == [Released(Anonymous(r)) EXCEPT !.status = "failed", !.state = "failed"]

\* Claimed too often: the row and its plan fail.
Exhaust ==
  /\ Claimable /\ rem.attempts >= MaxAttempts
  /\ FailPlan
  /\ rem' = FailedRow(rem)
  /\ UNCHANGED <<occ, worker, cards, sends>>

ClaimRow(w) ==
  /\ Claimable /\ rem.attempts < MaxAttempts
  /\ rem' = [Anonymous(rem) EXCEPT
       !.status = "processing", !.token = rem.rev + 1, !.lease = now + Lease,
       !.retryAt = 0, !.rev = @ + 1, !.attempts = @ + 1]
  /\ worker' = [worker EXCEPT ![w] = 
       [pc |-> "renew", token |-> rem.rev + 1, step |-> <<mirror.rev, rem.at>>]]
  /\ UNCHANGED <<plan, mirror, steps, occ, cards, sends>>

ClaimDue(w) ==
  /\ worker[w].pc = "idle" /\ Due
  /\ Reconcile \/ Exhaust \/ ClaimRow(w)
  /\ UNCHANGED <<now, book, events>>

-----------------------------------------------------------------------------
(* The worker: delivery.                                                   *)

OwnsLive(w) == Owns(w) /\ rem.state = "scheduled"

\* renew_claim_before_send.
Renew(w) ==
  /\ worker[w].pc = "renew"
  /\ IF Owns(w)
     THEN rem' = [rem EXCEPT !.lease = now + Lease] /\ GoTo(w, "prepare")
     ELSE Stop(w) /\ UNCHANGED rem
  /\ UNCHANGED <<now, plan, mirror, steps, occ, book, cards, sends, events>>

\* get_current_deadline_step, Null without one.
CurrentStep ==
  IF plan.state = "active" /\ plan.current \in Pending(steps, plan.rev)
  THEN plan.current ELSE Null

Highest(a, b) == IF a > b THEN a ELSE b

\* Mutant: an occurrence that is opened again keeps the step it was made for.
OpenedBefore(o) ==
  [status |-> "processing", rev |-> Highest(o.rev, rem.rev), msg |-> Null,
   step |-> IF o.status = "absent" THEN <<plan.rev, plan.current>> ELSE o.step]

\* prepare_delivery_occurrence: the occurrence of an earlier revision of the
\* plan at the same time is opened again.
Opened(o) ==
  [status |-> "processing", rev |-> Highest(o.rev, rem.rev), msg |-> Null,
   step |-> <<plan.rev, plan.current>>]
Prepare(w) ==
  /\ worker[w].pc = "prepare"
  /\ IF OwnsLive(w) /\ CurrentStep # Null
     THEN occ' = [occ EXCEPT ![CurrentStep] = Opened(@)] /\ GoTo(w, "send")
     ELSE Stop(w) /\ UNCHANGED occ
  /\ UNCHANGED <<now, row, book, cards, sends, events>>

\* The keyboard of a delivery, written from the row as it was claimed.
DeliveryCard(w) ==
  [at |-> worker[w].step[2], rev |-> worker[w].token, msg |-> worker[w].token,
   offers |-> {"done", "edit", "disable", "delete"}]

\* The Telegram call: it succeeds, or fails, or fails although the message
\* arrived.
Send(w) ==
  /\ worker[w].pc = "send"
  /\ \E end \in {"record", "transient", "terminal"}, arrived \in BOOLEAN :
       /\ end = "record" => arrived
       /\ end = "terminal" => ~arrived
       /\ GoTo(w, end)
       /\ IF arrived
          THEN /\ cards' = cards \union {DeliveryCard(w)}
               /\ sends' = [sends EXCEPT ![worker[w].step] = @ + 1]
          ELSE UNCHANGED <<cards, sends>>
  /\ UNCHANGED <<now, row, occ, book, events>>

\* set_last_message_id.
Record(w) ==
  /\ worker[w].pc = "record"
  /\ IF OwnsLive(w)
     THEN /\ rem' = [rem EXCEPT !.msg = worker[w].token, !.named = worker[w].step[2]]
          /\ occ' = [occ EXCEPT ![worker[w].step[2]].status = "delivered",
                                ![worker[w].step[2]].rev = Highest(@, rem.rev),
                                ![worker[w].step[2]].msg = worker[w].token]
          /\ GoTo(w, "finalize")
     ELSE Stop(w) /\ UNCHANGED <<rem, occ>>
  /\ UNCHANGED <<now, plan, mirror, steps, book, cards, sends, events>>

\* The step finalize_deadline_delivery_success looks for.
StepIsThere ==
  /\ plan.state = "active"
  /\ occ[rem.at].step[1] = plan.rev
  /\ steps[occ[rem.at].step] = "pending"

\* The later steps: those that went by meanwhile, and the others.
After(t) ==
  LET later == {u \in Pending(steps, plan.rev) : u > t}
  IN [missed |-> {u \in later : u < now}, rest |-> {u \in later : u >= now}]

\* The plan after its step at t: on to the next one, or at its end.
PlanAfter(t) ==
  IF After(t).rest = {} THEN Exhausted(plan) ELSE [plan EXCEPT !.current = First(After(t).rest)]

\* finalize_delivery_success.  Without the step it commits its first half and
\* leaves the row to its lease.
FinalizeSuccess(w) ==
  /\ worker[w].pc = "finalize"
  /\ Stop(w)
  /\ IF ~OwnsLive(w)
     THEN UNCHANGED <<row, occ>>
     ELSE LET half == [rem EXCEPT !.attempts = 0]
              t == occ[rem.at].step[2]
              after == After(t)
          IN /\ occ' = [occ EXCEPT ![rem.at].status = "delivered",
                                   ![rem.at].rev = Highest(@, rem.rev)]
             /\ IF ~StepIsThere
                THEN rem' = half /\ UNCHANGED <<plan, mirror, steps>>
                ELSE /\ steps' = Mark([steps EXCEPT ![occ[rem.at].step] = "delivered"],
                                      plan.rev, after.missed, "skipped")
                     /\ plan' = PlanAfter(t) /\ mirror' = PlanAfter(t)
                     /\ rem' = Released(IF after.rest = {} THEN ExhaustedRow(half)
                                        ELSE Scheduled(half, First(after.rest)))
  /\ UNCHANGED <<now, book, cards, sends, events>>

\* finalize_delivery_failure.
FinalizeFailure(w) ==
  /\ worker[w].pc \in {"transient", "terminal"}
  /\ Stop(w)
  /\ IF ~OwnsLive(w)
     THEN UNCHANGED <<row, occ>>
     ELSE /\ occ' = [occ EXCEPT ![rem.at].status = "failed", ![rem.at].msg = Null]
          /\ IF worker[w].pc = "terminal" \/ rem.attempts >= MaxAttempts
             THEN FailPlan /\ rem' = FailedRow(rem)
             ELSE /\ rem' = [Released(Anonymous(rem)) EXCEPT
                       !.status = "pending", !.retryAt = now + RetryDelay]
                  /\ UNCHANGED <<plan, mirror, steps>>
  /\ UNCHANGED <<now, book, cards, sends, events>>

\* A worker process dies, or its database fails between two steps.
Crash(w) ==
  /\ worker[w].pc # "idle"
  /\ Stop(w)
  /\ UNCHANGED <<row, occ, book, cards, sends>>

-----------------------------------------------------------------------------
(* The owner.                                                              *)

Running == rem.state \notin Final /\ rem.status \notin {"processing", "absent"}

\* _occurrence_is_current and _occurrence_matches.
OccurrenceFence(c) ==
  /\ occ[c.at].rev = c.rev /\ occ[c.at].status = "delivered"
  /\ c.msg # Null => occ[c.at].msg = c.msg /\ rem.msg = c.msg
  /\ rem.named = c.at
  /\ Running

\* _load_owned_deadline_action.
Fence(c) == IF c.at # Null THEN OccurrenceFence(c) ELSE rem.rev = c.rev /\ Running

\* The revision of the plan loses its pending steps.
Skipped == Mark(steps, plan.rev, Pending(steps, plan.rev), "skipped")
Ended(state) == [plan EXCEPT !.state = state, !.current = Null]

\* complete_reminder and complete_deadline_in_session.
Done(c) ==
  /\ "done" \in c.offers /\ c.at # Null /\ OccurrenceFence(c)
  /\ plan.state \notin {"completed", "cancelled"}
  /\ steps' = Skipped
  /\ plan' = Ended("completed") /\ mirror' = Ended("completed")
  /\ occ' = [occ EXCEPT ![c.at].status = "completed", ![c.at].rev = @ + 1]
  /\ rem' = [Fresh(rem) EXCEPT !.status = "sent", !.state = "completed", !.rev = @ + 1]

\* Mutant: a plan switched off leaves its row waiting for the step.
DisabledRowWaits(c) == [rem EXCEPT !.rev = @ + 1]

\* The row of a plan switched off by an occurrence card, or by another.
DisabledRow(c) ==
  IF c.at # Null THEN [rem EXCEPT !.status = "sent", !.state = "delivered", !.rev = @ + 1]
  ELSE [Fresh(rem) EXCEPT !.status = "sent", !.state = "paused", !.rev = @ + 1]

\* disable_deadline_plan: the current step is kept for the way back.
Disable(c) ==
  /\ "disable" \in c.offers /\ Fence(c)
  /\ plan.state = "active"
  /\ plan' = [plan EXCEPT !.state = "disabled"]
  /\ mirror' = Mirror([plan EXCEPT !.state = "disabled"], Null)
  /\ rem' = DisabledRow(c)
  /\ occ' = IF c.at # Null THEN [occ EXCEPT ![c.at].rev = rem.rev + 1] ELSE occ
  /\ UNCHANGED steps

\* enable_deadline_plan.
Enable(c) ==
  /\ "enable" \in c.offers /\ Fence(c)
  /\ plan.state = "disabled" /\ plan.current \in Pending(steps, plan.rev)
  /\ plan' = [plan EXCEPT !.state = "active"] /\ mirror' = [plan EXCEPT !.state = "active"]
  /\ rem' = [Fresh(Scheduled(rem, plan.current)) EXCEPT !.rev = @ + 1]
  /\ sends' = [sends EXCEPT ![<<plan.rev, plan.current>>] = 0]
  /\ UNCHANGED <<steps, occ>>

\* edit_deadline_plan, by the card the edit was begun with.
Edit(c, q) ==
  LET ahead == {t \in q.points : t >= now}
      r == plan.rev + 1
      fresh == [state |-> "active", rev |-> r, current |-> First(ahead)]
  IN /\ "edit" \in c.offers /\ Fence(c)
     /\ r \in Plans /\ q.deadline > now /\ ahead # {}
     /\ steps' = Mark(Mark(Skipped, r, ahead, "pending"), r, q.points \ ahead, "skipped")
     /\ plan' = fresh /\ mirror' = fresh
     /\ rem' = [Fresh(Scheduled(rem, First(ahead))) EXCEPT !.rev = @ + 1]
     /\ UNCHANGED occ

\* The occurrence cancel_reminder ends with the row: the one of the card, or
\* the last delivered one, or the one being delivered.
EndedWith(at) ==
  IF at # Null THEN {at}
  ELSE IF rem.named # Null /\ occ[rem.named].status = "delivered" THEN {rem.named}
  ELSE IF rem.status = "processing" /\ rem.named = Null
       THEN {t \in {rem.at} : occ[t].status = "processing"}
  ELSE {}

\* cancel_reminder, by a button or by /cancel with the number of the row.
Cancel(at) ==
  /\ rem.status # "absent" /\ rem.state \notin {"completed", "cancelled"}
  /\ steps' = Skipped
  /\ plan' = Ended("cancelled") /\ mirror' = Ended("cancelled")
  /\ occ' = [t \in Times |->
       IF t \in EndedWith(at) THEN [occ[t] EXCEPT !.status = "cancelled", !.rev = @ + 1]
       ELSE occ[t]]
  /\ rem' = [Released(rem) EXCEPT !.status = "sent", !.state = "cancelled",
               !.rev = @ + 1, !.attempts = 0]
Delete(c) ==
  /\ "delete" \in c.offers
  /\ IF c.at # Null THEN OccurrenceFence(c) ELSE rem.rev = c.rev
  /\ Cancel(c.at)

\* get_latest_occurrence: they are made in the order of their times.
Made == {t \in Times : occ[t].status # "absent"}
Latest == IF Made = {} THEN Null ELSE Max(Made)

\* _send_actionable_reminders: the entry of /list.
Listed ==
  LET shown == IF Latest # Null /\ occ[Latest].status = "delivered" /\ occ[Latest].msg # Null
                  /\ occ[Latest].msg = rem.msg /\ rem.named # Null
               THEN Latest ELSE Null
      switch == CASE mirror.state = "active" -> {"disable"}
                  [] mirror.state = "disabled" -> {"enable"}
                  [] OTHER -> {}
  IN IF shown # Null \/ rem.state = "delivered"
     THEN [at |-> shown, rev |-> IF shown # Null THEN occ[shown].rev ELSE rem.rev,
           msg |-> Null, offers |-> {"done", "edit", "delete"} \union switch]
     ELSE [at |-> Null, rev |-> rem.rev, msg |-> Null,
           offers |-> {"edit", "delete"} \union
                      IF rem.state = "paused" THEN {"enable"} ELSE switch]
List ==
  /\ Running
  /\ cards' = cards \union {Listed}
  /\ UNCHANGED <<row, occ>>

\* A button, a command, or the text that ends an edit.
Act ==
  \/ \E c \in cards : Enable(c)
  \/ /\ \/ \E c \in cards : Done(c) \/ Disable(c) \/ Delete(c)
                              \/ \E q \in Requests : Edit(c, q)
        \/ Cancel(Null)
     /\ UNCHANGED sends

-----------------------------------------------------------------------------
(* A lease does not end inside the Telegram call of its owner: the call is *)
(* bounded by worker_send_timeout_seconds and the lease was renewed just   *)
(* before it (ReminderWorkerProofs!SendsExclude).                          *)
Tick ==
  /\ now < MaxTime
  /\ \A w \in Workers : worker[w].pc = "send" /\ Owns(w) => rem.lease > now + 1
  /\ now' = now + 1
  /\ UNCHANGED <<row, occ, book, worker, cards, sends, events>>

Work(w) ==
  \/ Renew(w) \/ Prepare(w) \/ Send(w) \/ Record(w)
  \/ FinalizeSuccess(w) \/ FinalizeFailure(w)

Event ==
  /\ events < MaxEvents /\ events' = events + 1
  /\ \/ Act /\ UNCHANGED <<cards, worker, book>>
     \/ List /\ UNCHANGED <<worker, sends, book>>
     \/ \E w \in Workers : Crash(w)
  /\ UNCHANGED now

Drafting ==
  /\ \/ \E q \in Requests : CreateDraft(q)
     \/ DropDraft
     \/ \E i \in 1..MaxDrafts : Confirm(i)
  /\ UNCHANGED now

Next ==
  \/ Drafting \/ Event \/ Tick
  \/ \E w \in Workers : ClaimDue(w) \/ Work(w)

\* The poll of the worker returns for ever, a worker goes on with what it
\* claimed, and the clock goes on.
Fairness ==
  /\ WF_vars(Tick)
  /\ WF_vars(\E w \in Workers : ClaimDue(w))
  /\ \A w \in Workers : WF_vars(Work(w))

Spec == Init /\ [][Next]_vars /\ Fairness

-----------------------------------------------------------------------------
(* Properties.                                                             *)

\* Every variable keeps its type.
TypeOK ==
  /\ now \in 0..MaxTime
  /\ rem \in Reminder /\ plan \in Plan /\ mirror \in Plan
  /\ steps \in [Keys -> StepStates]
  /\ occ \in [Times -> Occurrence]
  /\ draft.pending \union draft.skipped \subseteq Times /\ drafts \in 0..MaxDrafts
  /\ \A w \in Workers : worker[w].pc \in PCs
  /\ cards \subseteq Card
  /\ sends \in [Keys -> Nat]

\* The plan, its copy in the row and the row itself are written by seven
\* operations in two services and never disagree: a row that waits or is being
\* delivered has an active plan whose current step is its first pending one
\* and is the time of the row, a plan switched off keeps that step, and a plan
\* that ended has none left, unless its delivery failed for good, and a row that
\* ended with it.
PlanAndRowAgree ==
  LET left == Pending(steps, plan.rev)
  IN /\ rem.status \in {"pending", "processing"} <=> plan.state = "active"
     /\ plan.state = "active" => rem.state = "scheduled" /\ rem.at = plan.current
     /\ plan.state \in {"active", "disabled"} => left # {} /\ plan.current = Min(left)
     /\ plan.state = "disabled" => rem.state \in {"delivered", "paused"}
     /\ plan.state = "exhausted" => rem.state \in {"delivered", "failed"}
     /\ plan.state \in {"completed", "cancelled"} => rem.state = plan.state
     /\ plan.state \notin {"active", "disabled"} => left = {} \/ rem.state = "failed"
     /\ mirror = Mirror(plan, IF plan.state = "active" THEN plan.current ELSE Null)
     /\ \A r \in Plans : r # plan.rev => Pending(steps, r) = {}

\* finalize_delivery_success returns False inside its transaction when the
\* step is not there, and what it wrote before is committed: the row would stay
\* claimed with a delivered occurrence.  No interleaving of the owner, another
\* worker and the clock takes the step away from a worker that still owns the
\* row.
FinalizeFindsItsStep ==
  \A w \in Workers : worker[w].pc = "finalize" /\ OwnsLive(w) => StepIsThere

\* While its plan stays on, a step is one message at the most, whatever fails
\* and whoever recovers: a retry or a takeover finds the step over.  An owner
\* who switches the plan off and on in the very instant of a step whose answer
\* was lost forgets the delay of the retry, and gets the message again.
SentOnce == \A k \in Keys : sends[k] <= 1

\* A message goes out only for a pending step of the plan as it is at that
\* moment, never for a revision the owner replaced or a plan he ended or
\* switched off; /cancel with the number alone may come during the call.
MessagesFollowThePlan ==
  [][\A k \in Keys : sends'[k] > sends[k] =>
       \/ rem.state = "cancelled"
       \/ plan.state = "active" /\ k[1] = plan.rev /\ steps[k] = "pending"]_vars

\* A plan that is active reaches its end, or the owner ends or stops it: no
\* step waits for ever, through crashes, failures and a clock that runs on.
PlansRunOut == plan.state = "active" ~> plan.state # "active"

\* docs/deadline_protection.md: "Если worker опоздал настолько, что несколько
\* следующих точек уже прошли, он сохраняет их как skipped", and a failure
\* before the limit "повторяется через обычный bounded retry".  So a worker
\* would skip a step only when a later one is over as well.
OnlyABurstIsSkipped ==
  [][(\E w \in Workers : ClaimDue(w)) =>
       \A t \in Elapsed : \E u \in Pending(steps, plan.rev) : t < u /\ u <= now]_vars
=============================================================================
