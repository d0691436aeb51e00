----------------------------- MODULE Conditions -----------------------------
(***************************************************************************)
(* A condition on a GitHub pull request, from the poll that observes it to *)
(* the message in the chat: condition_service.py, the provider of          *)
(* github_review_event.py, condition_worker.py and the outbox of           *)
(* condition_delivery_worker.py.                                           *)
(*                                                                         *)
(* The model has no clock.  A lease may end and a delay may pass between   *)
(* any two steps, so each is a bit; a step is one database transaction or  *)
(* one call over the network.  Observations are written to a log nothing   *)
(* reads, and failure_count only lengthens the delay: both are left out.   *)
(***************************************************************************)
EXTENDS Naturals, Sequences, FiniteSets

CONSTANTS
  Pollers,       \* processes that run condition_loop
  Senders,       \* processes that run github_action_delivery_loop
  PullRequests,  \* what the pull request can be: [state, draft, wanted]
  MaxAttempts,   \* MAX_ATTEMPTS of the outbox
  MaxChanges,    \* bound on the changes of the pull request
  Null           \* no state, no poller; a model value

States == {"inactive", "action_required", "resolved"}
Error == "error"    \* every ConditionProviderError, timeout or other exception

Subscription ==
  [active   : BOOLEAN,               \* state; nothing in src/ changes it
   provider : {"github_review", "http_json"},
   initial  : BOOLEAN,               \* trigger_on_initial
   last     : States \union {Null},  \* last_state
   token    : Pollers \union {Null}, \* lease_token: a poller has one claim at a time
   live     : BOOLEAN,               \* lease_until_utc is ahead
   due      : BOOLEAN]               \* next_poll_at_utc has come

\* A row of condition_deliveries; "due" says that next_attempt_at_utc is null
\* or has come, which for a row being processed is the end of its lease.
Row == [state : {"pending", "processing", "sent", "failed"},
        shows : States,              \* current_state
        entry : Nat,                 \* transition_sequence
        attempt : 0..MaxAttempts, due : BOOLEAN]

VARIABLES
  pr,       \* the pull request, at GitHub
  changes,  \* how often it changed
  sub,      \* the subscription
  sequence, \* its transition_sequence
  seen,     \* the number of changes behind last_state (history)
  poller,   \* what each poller holds
  outbox,   \* the deliveries, by id
  sender,   \* what each sender holds
  arrived,  \* messages that reached the chat, by delivery (history)
  doubts    \* its attempts whose end the outbox never learnt (history)
vars == <<pr, changes, sub, sequence, seen, poller, outbox, sender, arrived, doubts>>

PollerIdle == [pc |-> "idle", got |-> Null, at |-> 0]
SenderIdle == [pc |-> "idle", row |-> 0, attempt |-> 0, answer |-> "none"]
Answers == {"none", "ok", "transient", "terminal"}

TypeOK ==
  /\ pr \in PullRequests /\ changes \in 0..MaxChanges
  /\ sub \in Subscription /\ sequence \in Nat /\ seen \in 0..MaxChanges
  /\ \A w \in Pollers :
       /\ poller[w].pc \in {"idle", "claimed", "calling", "answered"}
       /\ poller[w].got \in States \union {Null, Error} /\ poller[w].at \in 0..MaxChanges
  /\ outbox \in Seq(Row)
  /\ \A s \in Senders : /\ sender[s].pc \in {"idle", "sending", "answered"}
                        /\ sender[s].row \in 0..Len(outbox)
                        /\ sender[s].attempt \in 0..MaxAttempts
                        /\ sender[s].answer \in Answers
  /\ Len(arrived) = Len(outbox) /\ Len(doubts) = Len(outbox)

\* create_subscription, for any owner and settings it accepts.
Init ==
  /\ pr \in PullRequests /\ changes = 0
  /\ sub \in [active : BOOLEAN, provider : {"github_review", "http_json"},
              initial : BOOLEAN, last : {Null}, token : {Null}, live : {FALSE}, due : {TRUE}]
  /\ sequence = 0 /\ seen = 0
  /\ poller = [w \in Pollers |-> PollerIdle] /\ sender = [s \in Senders |-> SenderIdle]
  /\ outbox = <<>> /\ arrived = <<>> /\ doubts = <<>>

-----------------------------------------------------------------------------
(* The pull request and the clock *)

\* Somebody asks for a review, withdraws it, labels, closes or reopens.
Change ==
  /\ changes < MaxChanges
  /\ \E p \in PullRequests \ {pr} : pr' = p
  /\ changes' = changes + 1
  /\ UNCHANGED <<sub, sequence, seen, poller, outbox, sender, arrived, doubts>>

\* classify_review_request, and for http_json the state the endpoint names.
Classify(p) ==
  IF p.state = "closed" THEN "resolved"
  ELSE IF p.draft \/ p.wanted = {} THEN "inactive"
  ELSE "action_required"

PollComesDue ==
  /\ ~sub.due /\ sub' = [sub EXCEPT !.due = TRUE]
  /\ UNCHANGED <<pr, changes, sequence, seen, poller, outbox, sender, arrived, doubts>>

PollLeaseEnds ==
  /\ sub.live /\ sub' = [sub EXCEPT !.live = FALSE]
  /\ UNCHANGED <<pr, changes, sequence, seen, poller, outbox, sender, arrived, doubts>>

\* The delay of a row passes, or the lease of its sender; if the sender is
\* still at work, its attempt is one whose end the outbox does not know.
RowComesDue(r) ==
  /\ outbox[r].state \in {"pending", "processing"} /\ ~outbox[r].due
  /\ outbox' = [outbox EXCEPT ![r].due = TRUE]
  /\ doubts' = IF outbox[r].state = "processing"
               THEN [doubts EXCEPT ![r] = @ \union {outbox[r].attempt}] ELSE doubts
  /\ UNCHANGED <<pr, changes, sub, sequence, seen, poller, sender, arrived>>

-----------------------------------------------------------------------------
(* Polling: condition_service.py *)

\* Mutant: a claim that ended without a record keeps the subscription.
FreeToClaimUnleased == sub.active /\ sub.due /\ sub.token = Null
FreeToClaim == sub.active /\ sub.due /\ ~sub.live

\* claim_due_subscriptions: a fresh token and a lease.
ClaimPoll(w) ==
  /\ poller[w].pc = "idle" /\ FreeToClaim
  /\ sub' = [sub EXCEPT !.token = w, !.live = TRUE]
  /\ poller' = [poller EXCEPT ![w] = [PollerIdle EXCEPT !.pc = "claimed"]]
  /\ UNCHANGED <<pr, changes, sequence, seen, outbox, sender, arrived, doubts>>

\* renew_claim_lease: without a live lease of its own the poller gives up.
RenewPoll(w) ==
  /\ poller[w].pc = "claimed"
  /\ IF sub.active /\ sub.token = w /\ sub.live
     THEN poller' = [poller EXCEPT ![w].pc = "calling"]
     ELSE poller' = [poller EXCEPT ![w] = PollerIdle]
  /\ UNCHANGED <<pr, changes, sub, sequence, seen, outbox, sender, arrived, doubts>>

\* The call of the provider: the state of the pull request, or an error.
Observe(w) ==
  /\ poller[w].pc = "calling"
  /\ \E got \in {Classify(pr), Error} :
       poller' = [poller EXCEPT ![w].pc = "answered", ![w].got = got, ![w].at = changes]
  /\ UNCHANGED <<pr, changes, sub, sequence, seen, outbox, sender, arrived, doubts>>

\* Mutant: a poller whose claim was taken over still records.
HoldsUnfenced(w) == sub.token # Null \/ sub.last # Null
Holds(w) == sub.token = w

\* The subscription once its poll is recorded, either way.
Released(s) == [s EXCEPT !.token = Null, !.live = FALSE, !.due = FALSE]

\* A transition: the first state when the subscription asks for it, or a change.
Entered(state) == IF sub.last = Null THEN sub.initial ELSE sub.last # state

\* A GitHub subscription alerts only when it enters action_required.
Alerts(state) == sub.provider # "github_review" \/ state = "action_required"

\* _record_success.
RecordSuccess(w) ==
  LET state == poller[w].got IN
  /\ poller[w].pc = "answered" /\ state # Error
  /\ poller' = [poller EXCEPT ![w] = PollerIdle]
  /\ IF Holds(w)
     THEN /\ sub' = [Released(sub) EXCEPT !.last = state]
          /\ seen' = poller[w].at
          /\ sequence' = IF Entered(state) THEN sequence + 1 ELSE sequence
          /\ IF Entered(state) /\ Alerts(state)
             THEN /\ outbox' = Append(outbox, [state |-> "pending", shows |-> state,
                                               entry |-> sequence + 1, attempt |-> 0,
                                               due |-> TRUE])
                  /\ arrived' = Append(arrived, 0) /\ doubts' = Append(doubts, {})
             ELSE UNCHANGED <<outbox, arrived, doubts>>
     ELSE UNCHANGED <<sub, seen, sequence, outbox, arrived, doubts>>
  /\ UNCHANGED <<pr, changes, sender>>

\* _record_failure, after an error of the provider or of _record_success.
RecordFailure(w) ==
  /\ poller[w].pc = "answered"
  /\ poller' = [poller EXCEPT ![w] = PollerIdle]
  /\ sub' = IF Holds(w) THEN Released(sub) ELSE sub
  /\ UNCHANGED <<pr, changes, sequence, seen, outbox, sender, arrived, doubts>>

\* The process ends, or even the failure cannot be recorded: the claim stays.
PollerCrash(w) ==
  /\ poller[w].pc # "idle" /\ poller' = [poller EXCEPT ![w] = PollerIdle]
  /\ UNCHANGED <<pr, changes, sub, sequence, seen, outbox, sender, arrived, doubts>>

-----------------------------------------------------------------------------
(* The outbox: condition_delivery_worker.py *)

\* Mutant: a row that is being sent is taken whatever its lease.
CandidateUnleased(r) == \/ outbox[r].state = "pending" /\ outbox[r].due
                        \/ outbox[r].state = "processing"
\* Mutant: a row whose sender ended is never taken again.
CandidatePending(r) == outbox[r].state = "pending" /\ outbox[r].due
Candidate(r) == outbox[r].state \in {"pending", "processing"} /\ outbox[r].due

\* The first row the statement of claim_action_delivery selects.
FirstCandidate(r) ==
  /\ sub.provider = "github_review" /\ r \in DOMAIN outbox /\ Candidate(r)
  /\ \A q \in 1..(r - 1) : ~Candidate(q)

\* "inactive_suppressed".
Withdrawn(r) == \/ ~sub.active
                \/ sub.last # "action_required" \/ outbox[r].shows # "action_required"

\* Mutant: one attempt too many.
ExhaustedLate(r) == outbox[r].attempt > MaxAttempts
Exhausted(r) == outbox[r].attempt >= MaxAttempts

\* claim_action_delivery: suppress the row, give it up, or take it.
ClaimRow(s, r) ==
  /\ sender[s].pc = "idle" /\ FirstCandidate(r)
  /\ IF Withdrawn(r) \/ Exhausted(r)
     THEN /\ outbox' = [outbox EXCEPT ![r].state = "failed", ![r].due = TRUE]
          /\ UNCHANGED sender
     ELSE /\ outbox' = [outbox EXCEPT ![r].state = "processing", ![r].due = FALSE,
                                      ![r].attempt = @ + 1]
          /\ sender' = [sender EXCEPT ![s] = [pc |-> "sending", row |-> r, answer |-> "none",
                                              attempt |-> outbox[r].attempt + 1]]
  /\ UNCHANGED <<pr, changes, sub, sequence, seen, poller, arrived, doubts>>

\* bot.send_message.  A network error, a server error or a timeout says nothing
\* of whether the message arrived; a refusal or RetryAfter says that it did not.
SendRow(s) ==
  LET r == sender[s].row IN
  /\ sender[s].pc = "sending"
  /\ \E reached \in BOOLEAN, answer \in Answers \ {"none"} :
       /\ answer = "ok" => reached
       /\ answer = "terminal" => ~reached
       /\ sender' = [sender EXCEPT ![s].pc = "answered", ![s].answer = answer]
       /\ arrived' = IF reached THEN [arrived EXCEPT ![r] = @ + 1] ELSE arrived
       /\ doubts' = IF reached /\ answer # "ok" THEN [doubts EXCEPT ![r] = @ \union {sender[s].attempt}] ELSE doubts
  /\ UNCHANGED <<pr, changes, sub, sequence, seen, poller, outbox>>

\* Mutant: the answer to an earlier attempt is taken for the current one.
OwnsAttemptAny(s) == outbox[sender[s].row].state = "processing"
OwnsAttempt(s) == /\ outbox[sender[s].row].state = "processing"
                  /\ outbox[sender[s].row].attempt = sender[s].attempt

\* What finalize_action_delivery makes of a row.
Answered(row, answer) ==
  IF answer = "ok" THEN [row EXCEPT !.state = "sent", !.due = TRUE]
  ELSE IF answer = "transient" /\ row.attempt < MaxAttempts
  THEN [row EXCEPT !.state = "pending", !.due = FALSE]
  ELSE [row EXCEPT !.state = "failed", !.due = TRUE]

\* finalize_action_delivery.
FinalizeRow(s) ==
  LET r == sender[s].row IN
  /\ sender[s].pc = "answered"
  /\ sender' = [sender EXCEPT ![s] = SenderIdle]
  /\ outbox' = IF OwnsAttempt(s)
               THEN [outbox EXCEPT ![r] = Answered(outbox[r], sender[s].answer)] ELSE outbox
  /\ UNCHANGED <<pr, changes, sub, sequence, seen, poller, arrived, doubts>>

\* The process ends around the send; the lease recovers the row.
SenderCrash(s) ==
  LET r == sender[s].row IN
  /\ sender[s].pc # "idle" /\ sender' = [sender EXCEPT ![s] = SenderIdle]
  /\ doubts' = IF sender[s].answer = "ok" THEN [doubts EXCEPT ![r] = @ \union {sender[s].attempt}] ELSE doubts
  /\ UNCHANGED <<pr, changes, sub, sequence, seen, poller, outbox, arrived>>

-----------------------------------------------------------------------------
PollStep(w) == ClaimPoll(w) \/ RenewPoll(w) \/ Observe(w) \/ RecordSuccess(w) \/ RecordFailure(w)
SendStep(s) == (\E r \in DOMAIN outbox : ClaimRow(s, r)) \/ SendRow(s) \/ FinalizeRow(s)

Next ==
  \/ Change \/ PollComesDue \/ PollLeaseEnds
  \/ \E r \in DOMAIN outbox : RowComesDue(r)
  \/ \E w \in Pollers : PollStep(w) \/ PollerCrash(w)
  \/ \E s \in Senders : SendStep(s) \/ SenderCrash(s)

Spec ==
  /\ Init /\ [][Next]_vars
  /\ WF_vars(PollComesDue) /\ WF_vars(PollLeaseEnds)
  /\ \A w \in Pollers : WF_vars(PollStep(w))
  /\ \A r \in 1..(MaxChanges + 1) : WF_vars(r \in DOMAIN outbox /\ RowComesDue(r))
  /\ \A s \in Senders : WF_vars(SendStep(s))

-----------------------------------------------------------------------------
(* Properties *)

\* What _record_success writes is never older than what was written before,
\* whatever leases end while a poller waits for GitHub.
ObservationsInOrder == [][seen' >= seen]_vars

\* While the current attempt of a row is under way, no answer to an earlier one
\* puts the row back into the queue or marks it sent (finalize_action_delivery).
HeldWhileSending ==
  \A s \in Senders : \A r \in DOMAIN outbox :
    sender[s].pc # "idle" /\ sender[s].row = r /\ sender[s].attempt = outbox[r].attempt
      => outbox[r].state \in {"processing", "failed"}

\* An alert reaches the chat twice only for an attempt whose end was lost: no
\* answer, a crash after the send, or a lease that ended before the answer.
DuplicateNeedsDoubt ==
  \A r \in DOMAIN outbox : arrived[r] <= 1 + Cardinality(doubts[r])

RowIs(r, states) == r \in DOMAIN outbox /\ outbox[r].state \in states

\* Every alert of a GitHub subscription is sent, suppressed or given up (the
\* leases and attempts of the outbox); no sender takes the rows of http_json.
AlertsSettle ==
  \A r \in 1..(MaxChanges + 1) :
    []<>(sub.provider = "github_review" => ~RowIs(r, {"pending", "processing"}))

\* Whatever crashes, an active subscription is polled again and again.
KeepsPolling == []<>(sub.active => \E w \in DOMAIN poller : poller[w].pc = "claimed")
=============================================================================
