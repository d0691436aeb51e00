-------------------------- MODULE SharedReminders --------------------------
(***************************************************************************)
(* One reminder that its owner shares by one-time links, and the fan-out   *)
(* of its occurrence to the owner and every participant:                   *)
(* shared_reminder_service.py, _process_shared_delivery of the worker, the *)
(* handlers of /share, /shared and /start, and the buttons of the cards.   *)
(*                                                                         *)
(* Time is left out: a lease, a link or a retry delay may end between any  *)
(* two steps.  One case is excluded, and ReminderWorkerProofs!SendsExclude *)
(* is the reason: a lease does not end inside the Telegram call of its     *)
(* owner.  A step is one database transaction or one Telegram call; the    *)
(* row locks that span two steps (a link being opened, a card being sent)  *)
(* are variables.                                                          *)
(***************************************************************************)
EXTENDS Integers, FiniteSets, FiniteSetsExt

CONSTANTS
  Participants,   \* people who may open a link, positive numbers
  Invites,        \* links the owner may create
  Workers,        \* worker processes
  Limit,          \* MAX_SHARED_PARTICIPANTS
  PendingLimit,   \* MAX_PENDING_SHARED_INVITES
  MaxAttempts,    \* worker_max_attempts
  MaxRevision,    \* bound on the revision of a membership
  MaxEvents,      \* bound on what people and the cleanup do
  MaxCards        \* bound on the messages with buttons

Owner == 0
Null == 0
OwnerKey == <<Owner, 0>>

ASSUME SharingAssumption ==
  /\ Participants \subseteq Nat \ {Owner} /\ IsFiniteSet(Participants)
  /\ Null \notin Invites
  /\ {Limit, PendingLimit, MaxAttempts, MaxRevision} \subseteq Nat \ {0}
  /\ {MaxEvents, MaxCards} \subseteq Nat

\* A recipient of the occurrence: a person and the generation of his membership.
Keys == {OwnerKey} \union (Participants \X (1..MaxRevision))

Live == {"scheduled", "snoozed"}
Terminal == {"completed", "cancelled", "failed"}

Reminder ==
  [status : {"pending", "processing", "sent", "failed"},
   state  : Live \union {"delivered"} \union Terminal,
   rev    : Nat,                      \* action_revision
   attempts : Nat,
   token  : Nat,                      \* lease_token, named by the revision of its claim
   lease  : {"none", "live", "over"}, \* lease_until against the clock
   msg    : Nat,                      \* last_message_id
   named  : BOOLEAN]                  \* last_delivery_occurrence_utc is set

Occurrence ==
  [status : {"absent", "processing", "delivered", "failed", "snoozed",
             "completed", "cancelled"},
   rev : Nat, msg : Nat]

Delivery ==
  [state : {"absent", "pending", "processing", "sent", "failed", "cancelled"},
   terminal : BOOLEAN,   \* error_kind of a failed row
   rev : Nat, msg : Nat, token : Nat, live : BOOLEAN]

Membership == [state : {"none", "active", "revoked"}, rev : Nat, id : Nat]

Invite ==
  [state : {"unused", "pending", "accepted", "revoked", "expired"},
   by : Nat]

\* A message with buttons: a delivery has a message id, a card of /shared none.
Card == [to : Nat, mrev : Nat, mid : Nat, rev : Nat, msg : Nat]

Steps == {"idle", "prepare", "path", "personal", "recipients", "next", "validate", "send",
          "sent", "transient", "terminal", "status", "record", "finalize", "fail"}

VARIABLES
  rem,      \* the reminder row
  occ,      \* its occurrence row
  deliv,    \* reminder_deliveries of the occurrence
  member,   \* shared_reminder_memberships
  invite,   \* shared_reminder_invites
  worker,   \* what each worker keeps between its transactions
  opening,  \* per person: the link whose row is locked, and the state read from it
  reading,  \* per person: the /shared card being sent under a membership lock
  cards,    \* the messages with buttons in the chats
  acts,     \* cards whose button took effect, with the membership they acted under
  admitted, \* who became a member through each link
  confirmed,\* recipients whose message of this round is recorded as sent
  events    \* operations of people and the cleanup so far

vars == <<rem, occ, deliv, member, invite, worker, opening, reading, cards,
          acts, admitted, confirmed, events>>

-----------------------------------------------------------------------------
(* Initial state: an ordinary one-off reminder with its links; members     *)
(* joined by links that are not kept any more.                             *)

NoDelivery ==
  [state |-> "absent", terminal |-> FALSE, rev |-> 0, msg |-> Null,
   token |-> Null, live |-> FALSE]
NoInvite == [state |-> "unused", by |-> Null]
NoCard == [to |-> 0, mrev |-> 0, mid |-> 0, rev |-> 0, msg |-> 0]
Closed == [link |-> Null, seen |-> "unused"]
Idle == [pc |-> "idle", token |-> Null, todo |-> {}, key |-> OwnerKey,
         keyRev |-> 0, transient |-> FALSE, terminal |-> FALSE, msg |-> Null]

Init ==
  /\ rem = [status |-> "pending", state |-> "scheduled", rev |-> 0,
            attempts |-> 0, token |-> Null, lease |-> "none", msg |-> Null,
            named |-> FALSE]
  /\ occ = [status |-> "absent", rev |-> 0, msg |-> Null]
  /\ deliv = [k \in Keys |-> NoDelivery]
  /\ \E joined \in SUBSET Participants :
       /\ Cardinality(joined) <= Limit
       /\ member = [p \in Participants |->
            IF p \in joined THEN [state |-> "active", rev |-> 1, id |-> 0]
            ELSE [state |-> "none", rev |-> 0, id |-> 0]]
  /\ \E made \in SUBSET Invites :
       /\ Cardinality(made) <= PendingLimit
       /\ invite = [i \in Invites |->
            IF i \in made THEN [NoInvite EXCEPT !.state = "pending"] ELSE NoInvite]
  /\ worker = [w \in Workers |-> Idle]
  /\ opening = [p \in Participants |-> Closed]
  /\ reading = [p \in Participants |-> NoCard]
  /\ cards = {} /\ acts = {} /\ confirmed = {} /\ events = 0
  /\ admitted = [i \in Invites |-> {}]

-----------------------------------------------------------------------------
(* Memberships and links.                                                  *)

\* Mutant: nobody looks at the state of the reminder.
SupportedAlways == TRUE

\* _sharing_contract_supported and _shareable.
Supported == rem.state \in Live \union {"delivered"}
Shareable == Supported /\ rem.status # "processing"

Members == {p \in Participants : member[p].state = "active"}
Authorised(k) ==
  k = OwnerKey \/ (k[1] \in Members /\ member[k[1]].rev = k[2])
Unfinished == {"pending", "processing"}

\* The row lock a person holds while his card of /shared is being sent.
Locked(p) == reading[p] # NoCard
Held(i) == \E p \in Participants : opening[p].link = i

\* Mutant: a membership ends, its deliveries go on.
Unfenced(ps, rows) == rows

\* _revoke_membership_in_session: the membership rows, and its fence on the
\* deliveries of the generation that ends.
Revoked(ps) ==
  [p \in Participants |->
     IF p \in ps THEN [member[p] EXCEPT !.state = "revoked", !.rev = @ + 1]
     ELSE member[p]]
Cancelled(d) == [d EXCEPT !.state = "cancelled", !.token = Null, !.live = FALSE]
Fenced(ps, rows) ==
  [k \in Keys |->
     IF k[1] \in ps /\ k[2] = member[k[1]].rev /\ rows[k].state \in Unfinished
     THEN Cancelled(rows[k]) ELSE rows[k]]

\* expire_terminal_memberships_in_session, with the rest of the deliveries.
ExpireMemberships(rows) ==
  /\ \A p \in Members : ~Locked(p)
  /\ member' = Revoked(Members)
  /\ deliv' = Fenced(Members, rows)

CreateInvite(i) ==
  /\ Shareable
  /\ invite[i].state = "unused"
  /\ Cardinality(Members) < Limit
  /\ Cardinality({j \in Invites : invite[j].state = "pending"}) < PendingLimit
  /\ invite' = [invite EXCEPT ![i].state = "pending"]
  /\ UNCHANGED <<rem, occ, deliv, member, worker, opening, reading, cards, acts,
                 admitted, confirmed>>

RevokeInvite(i) ==
  /\ invite[i].state = "pending" /\ ~Held(i)
  /\ \E end \in {"expired", "revoked"} : invite' = [invite EXCEPT ![i].state = end]
  /\ UNCHANGED <<rem, occ, deliv, member, worker, opening, reading, cards, acts,
                 admitted, confirmed>>

\* Mutant: the link is read without its row lock.
LinkUnlocked(i) == TRUE

\* accept_invite reads the link FOR UPDATE: the next reader waits.
LinkFree(i) == ~Held(i)
OpenLink(p, i) ==
  /\ opening[p] = Closed
  /\ invite[i].state # "unused"
  /\ LinkFree(i)
  /\ opening' = [opening EXCEPT ![p] = [link |-> i, seen |-> invite[i].state]]
  /\ UNCHANGED <<rem, occ, deliv, member, invite, worker, reading, cards, acts,
                 admitted, confirmed>>

Joined(m) == [m EXCEPT !.state = "active", !.rev = @ + 1]

\* What the rest of accept_invite makes of the link and the memberships, with
\* the reminder row locked.
Accepted(p, i, seen) ==
  LET Expire == invite' = [invite EXCEPT ![i].state = "expired"] /\ UNCHANGED <<member, admitted>>
      Take == invite' = [invite EXCEPT ![i].state = "accepted", ![i].by = p]
      Refuse == UNCHANGED <<invite, member, admitted>>
  IN IF ~Supported
     THEN invite' = [invite EXCEPT ![i].state = "revoked"] /\ UNCHANGED <<member, admitted>>
     ELSE IF seen # "pending" THEN Refuse
     ELSE \/ Expire
          \/ /\ rem.status = "processing" \/ (p \notin Members /\ Cardinality(Members) >= Limit)
             /\ Refuse
          \/ /\ rem.status # "processing" /\ p \in Members
             /\ Take /\ UNCHANGED <<member, admitted>>
          \/ /\ rem.status # "processing" /\ p \notin Members
             /\ Cardinality(Members) < Limit
             /\ Take
             /\ member' = [member EXCEPT ![p] = Joined(@)]
             /\ admitted' = [admitted EXCEPT ![i] = @ \union {p}]

AcceptInvite(p) ==
  /\ opening[p] # Closed
  /\ member[p].rev < MaxRevision
  /\ Accepted(p, opening[p].link, opening[p].seen)
  /\ opening' = [opening EXCEPT ![p] = Closed]
  /\ UNCHANGED <<rem, occ, deliv, worker, reading, cards, acts, confirmed>>

\* Mutant: the revocation does not wait for the row lock of the card.
RevokeUnlocked(p) ==
  /\ p \in Members
  /\ member' = Revoked({p})
  /\ deliv' = Fenced({p}, deliv)
  /\ UNCHANGED <<rem, occ, invite, worker, opening, reading, cards, acts,
                 admitted, confirmed>>

RevokeMembership(p) ==
  /\ p \in Members /\ ~Locked(p)
  /\ member' = Revoked({p})
  /\ deliv' = Fenced({p}, deliv)
  /\ UNCHANGED <<rem, occ, invite, worker, opening, reading, cards, acts,
                 admitted, confirmed>>

\* cleanup_expired_shared_data: the sweep over ended reminders, then the links
\* that lapsed and the rows of people past their retention, both open.
Swept == IF rem.state \in Terminal THEN Members ELSE {}
Cleanup(old, lapsed) ==
  /\ \A i \in lapsed : invite[i].state = "pending" /\ ~Held(i)
  /\ \A p \in Swept : ~Locked(p)
  /\ invite' = [i \in Invites |->
       IF i \in lapsed THEN [invite[i] EXCEPT !.state = "expired"] ELSE invite[i]]
  /\ LET rows == Fenced(Swept, deliv)
         aged == IF rem.state \in Terminal \/ occ.status \in Terminal
                 THEN {k \in Keys : k[1] \in old} ELSE {}
         kept(p) == \E k \in Keys : k[1] = p /\ k[2] <= member[p].rev
                                    /\ rows[k].state # "absent"
     IN /\ deliv' = [k \in Keys |-> IF k \in aged THEN NoDelivery ELSE rows[k]]
        /\ member' = [p \in Participants |->
             IF p \in old /\ member[p].state = "revoked" /\ ~kept(p)
             THEN [state |-> "none", rev |-> 0, id |-> member[p].id + 1]
             ELSE Revoked(Swept)[p]]
  /\ <<invite, deliv, member>>' # <<invite, deliv, member>>
  /\ UNCHANGED <<rem, occ, worker, opening, reading, cards, acts, admitted,
                 confirmed>>

-----------------------------------------------------------------------------
(* The cards of /shared.                                                   *)

\* authorize_shared_card_send: the membership row stays locked until the
\* Telegram call returns; buttons are there for a delivered occurrence.
OpenCard(p) ==
  /\ reading[p] = NoCard
  /\ Shareable /\ p \in Members
  /\ Cardinality(cards) < MaxCards
  /\ reading' = [reading EXCEPT ![p] =
       [to |-> p, mrev |-> member[p].rev, mid |-> member[p].id,
        rev |-> IF occ.status = "delivered" /\ rem.named THEN occ.rev ELSE 0,
        msg |-> Null]]
  /\ UNCHANGED <<rem, occ, deliv, member, invite, worker, opening, cards, acts,
                 admitted, confirmed>>

SendCard(p) ==
  /\ Locked(p)
  /\ cards' = cards \union {reading[p]}
  /\ reading' = [reading EXCEPT ![p] = NoCard]
  /\ UNCHANGED <<rem, occ, deliv, member, invite, worker, opening, acts,
                 admitted, confirmed>>

-----------------------------------------------------------------------------
(* The worker: claim, then the fan-out.                                    *)

Sent(rows) == {k \in Keys : rows[k].state = "sent"}
OwnerMessage == IF deliv[OwnerKey].state = "sent" THEN deliv[OwnerKey].msg ELSE Null

Owns(w) ==
  rem.status = "processing" /\ rem.token = worker[w].token /\ rem.lease = "live"
OwnsLive(w) == Owns(w) /\ rem.state \in Live

Released(r) == [r EXCEPT !.token = Null, !.lease = "none"]
GoTo(w, pc) == worker' = [worker EXCEPT ![w].pc = pc]
Stop(w) == worker' = [worker EXCEPT ![w] = Idle]

Claimable ==
  /\ rem.state \in Live
  /\ \/ rem.status = "pending"
     \/ rem.status = "processing" /\ rem.lease = "over"

ClaimRow(w) ==
  /\ rem.attempts < MaxAttempts
  /\ rem' = [rem EXCEPT !.status = "processing", !.token = rem.rev + 1,
               !.lease = "live", !.msg = Null, !.named = FALSE,
               !.rev = @ + 1, !.attempts = @ + 1]
  /\ worker' = [worker EXCEPT ![w] = [Idle EXCEPT
       !.pc = "prepare", !.token = rem.rev + 1]]
  /\ UNCHANGED <<occ, deliv, member>>

\* reconcile_shared_delivery_after_recovery: the recipients recorded as sent
\* make the occurrence delivered, the others get no further attempt.
Reconciled(rows) ==
  [k \in Keys |-> IF rows[k].state \in Unfinished \union {"failed"}
                  THEN [rows[k] EXCEPT !.state = "failed", !.terminal = TRUE,
                                       !.token = Null, !.live = FALSE]
                  ELSE rows[k]]
Reconcile ==
  /\ rem.attempts >= MaxAttempts
  /\ rem.status = "processing" /\ Sent(deliv) # {}
  /\ occ' = [occ EXCEPT !.status = "delivered", !.msg = OwnerMessage]
  /\ rem' = [Released(rem) EXCEPT !.status = "sent", !.state = "delivered",
               !.msg = OwnerMessage, !.named = TRUE]
  /\ deliv' = Reconciled(deliv)
  /\ UNCHANGED <<member, worker>>

Exhaust ==
  /\ rem.attempts >= MaxAttempts
  /\ ~(rem.status = "processing" /\ Sent(deliv) # {})
  /\ rem' = [Released(rem) EXCEPT !.status = "failed", !.state = "failed",
               !.msg = Null, !.named = FALSE]
  /\ ExpireMemberships(deliv)
  /\ UNCHANGED <<occ, worker>>

ClaimDue(w) ==
  /\ worker[w] = Idle
  /\ Claimable
  /\ ClaimRow(w) \/ Reconcile \/ Exhaust
  /\ UNCHANGED <<invite, opening, reading, cards, acts, admitted, confirmed>>

\* Mutant: a retry raises the revision although some recipients have theirs.
PrepareAhead(w) ==
  /\ worker[w].pc = "prepare"
  /\ IF OwnsLive(w)
     THEN /\ occ' = [status |-> "processing", msg |-> Null, rev |-> Max({occ.rev, rem.rev})]
          /\ GoTo(w, "path")
     ELSE Stop(w) /\ UNCHANGED occ
  /\ UNCHANGED <<rem, deliv, member, invite, opening, reading, cards, acts,
                 admitted, confirmed>>

\* renew_claim_before_send and prepare_delivery_occurrence.
PrepareOccurrence(w) ==
  /\ worker[w].pc = "prepare"
  /\ IF OwnsLive(w)
     THEN /\ occ' = [status |-> "processing", msg |-> Null,
                     rev |-> IF Sent(deliv) = {} THEN Max({occ.rev, rem.rev}) ELSE occ.rev]
          /\ GoTo(w, "path")
     ELSE Stop(w) /\ UNCHANGED occ
  /\ UNCHANGED <<rem, deliv, member, invite, opening, reading, cards, acts,
                 admitted, confirmed>>

\* should_process_as_shared_delivery.
IsShared ==
  Members # {} \/ (occ.status = "processing" /\ \E k \in Keys : deliv[k].state # "absent")
ChoosePath(w) ==
  /\ worker[w].pc = "path"
  /\ GoTo(w, IF IsShared THEN "recipients" ELSE "personal")
  /\ UNCHANGED <<rem, occ, deliv, member, invite, opening, reading, cards, acts,
                 admitted, confirmed>>

\* _delivery_specs: the owner and every active member.
Specs == {OwnerKey} \union {<<p, member[p].rev>> : p \in Members}

\* The generation of the occurrence that every unfinished row is reset to.
SharedRevision == Max({occ.rev} \union {deliv[k].rev : k \in Sent(deliv)})
Fresh(d, rev) ==
  [d EXCEPT !.state = "pending", !.terminal = FALSE, !.rev = rev, !.msg = Null,
            !.token = Null, !.live = FALSE]
Settled(d) == d.state = "sent" \/ (d.state = "failed" /\ d.terminal)
Stale(d, rev) ==
  \/ d.state = "absent"
  \/ d.rev # rev
  \/ d.state = "processing" /\ ~d.live
  \/ d.state = "failed" /\ ~d.terminal
\* Mutant: every attempt starts all recipients afresh.
PreparedAfresh(d, rev) == Fresh(d, rev)
Prepared(d, rev) == IF ~Settled(d) /\ Stale(d, rev) THEN Fresh(d, rev) ELSE d

\* prepare_shared_delivery_recipients; two generations among the sent rows
\* raise SharedReminderError, which the worker takes for a terminal failure.
Inconsistent == Cardinality({deliv[k].rev : k \in Sent(deliv)}) > 1
PrepareRecipients(w) ==
  /\ worker[w].pc = "recipients"
  /\ IF ~Owns(w) \/ occ.status # "processing"
     THEN /\ worker' = [worker EXCEPT ![w].pc = "status"]
          /\ UNCHANGED <<occ, deliv>>
     ELSE IF Inconsistent
     THEN /\ worker' = [worker EXCEPT ![w].pc = "fail", ![w].terminal = TRUE]
          /\ UNCHANGED <<occ, deliv>>
     ELSE LET rows == [k \in Keys |->
                         IF k \in Specs THEN Prepared(deliv[k], SharedRevision) ELSE deliv[k]]
          IN /\ occ' = [occ EXCEPT !.rev = SharedRevision]
             /\ deliv' = rows
             /\ worker' = [worker EXCEPT ![w].pc = "next",
                  ![w].todo = {k \in Specs : rows[k].state \notin {"sent", "failed"}}]
  /\ UNCHANGED <<rem, member, invite, opening, reading, cards, acts, admitted,
                 confirmed>>

Target(w) == worker[w].key
\* The row is still in the hands of this worker's claim.
RowOwned(w) ==
  deliv[Target(w)].state = "processing" /\ deliv[Target(w)].token = worker[w].token
RowHeld(w) == RowOwned(w) /\ deliv[Target(w)].live

\* Back to the list of recipients; what was kept of the last one is dropped.
ToNext(w, transient) ==
  worker' = [worker EXCEPT ![w].pc = "next", ![w].key = OwnerKey, ![w].keyRev = 0,
               ![w].msg = Null, ![w].transient = @ \/ transient]

\* claim_shared_delivery for the first recipient of the list: taken, or passed
\* over, or cancelled when the membership of its generation is gone.
ClaimRecipient(w) ==
  LET k == CHOOSE x \in worker[w].todo : \A y \in worker[w].todo : x[1] <= y[1]
      d == IF deliv[k].rev # occ.rev THEN Fresh(deliv[k], occ.rev) ELSE deliv[k]
      Pass == worker' = [worker EXCEPT ![w].todo = @ \ {k}]
  IN IF occ.status # "processing" \/ Settled(deliv[k]) THEN Pass /\ UNCHANGED deliv
     ELSE IF d.state = "processing" /\ d.live
     THEN Pass /\ deliv' = [deliv EXCEPT ![k] = d]
     ELSE IF ~Authorised(k)
     THEN Pass /\ deliv' = [deliv EXCEPT ![k] = Cancelled(d)]
     ELSE /\ deliv' = [deliv EXCEPT ![k] =
               [d EXCEPT !.state = "processing", !.token = worker[w].token, !.live = TRUE]]
          /\ worker' = [worker EXCEPT ![w].pc = "validate", ![w].todo = @ \ {k},
                          ![w].key = k, ![w].keyRev = d.rev]

\* renew_claim_before_send guards every recipient.
NextRecipient(w) ==
  /\ worker[w].pc = "next"
  /\ IF worker[w].todo = {}
     THEN GoTo(w, IF worker[w].transient THEN "fail" ELSE "status") /\ UNCHANGED deliv
     ELSE IF OwnsLive(w) THEN ClaimRecipient(w)
     ELSE Stop(w) /\ UNCHANGED deliv
  /\ UNCHANGED <<rem, occ, member, invite, opening, reading, cards, acts,
                 admitted, confirmed>>

\* validate_shared_delivery_before_send, which fences the row it refuses.
Valid(w) ==
  /\ OwnsLive(w)
  /\ occ.status = "processing" /\ occ.rev = worker[w].keyRev
  /\ RowHeld(w) /\ deliv[Target(w)].rev = worker[w].keyRev
  /\ Authorised(Target(w))
Validate(w) ==
  /\ worker[w].pc = "validate"
  /\ IF Valid(w) THEN GoTo(w, "send") /\ UNCHANGED deliv
     ELSE /\ ToNext(w, FALSE)
          /\ deliv' = IF RowOwned(w) THEN [deliv EXCEPT ![Target(w)] = Cancelled(@)] ELSE deliv
  /\ UNCHANGED <<rem, occ, member, invite, opening, reading, cards, acts,
                 admitted, confirmed>>

NewMessage == 1 + Cardinality({c \in cards : c.msg # Null})
MembershipId(k) == IF k = OwnerKey THEN 0 ELSE member[k[1]].id

\* _send_delivery: Telegram took the message and answered, or took it and the
\* call timed out, or did not take it, for a while or for good.  That the
\* context of the owner could not be loaded counts as not taken.
SendRecipient(w) ==
  /\ worker[w].pc = "send"
  /\ \/ /\ Cardinality(cards) < MaxCards
        /\ cards' = cards \union {[to |-> Target(w)[1], mrev |-> Target(w)[2],
                                   mid |-> MembershipId(Target(w)),
                                   rev |-> worker[w].keyRev, msg |-> NewMessage]}
        /\ \/ worker' = [worker EXCEPT ![w].pc = "sent", ![w].msg = NewMessage]
           \/ GoTo(w, "transient")
     \/ /\ GoTo(w, "transient") \/ GoTo(w, "terminal")
        /\ UNCHANGED cards
  /\ UNCHANGED <<rem, occ, deliv, member, invite, opening, reading, acts,
                 admitted, confirmed>>

\* record_shared_delivery_success.
RecordSuccess(w) ==
  /\ worker[w].pc = "sent"
  /\ IF Owns(w) /\ RowHeld(w)
     THEN /\ deliv' = [deliv EXCEPT ![Target(w)] =
               [@ EXCEPT !.state = "sent", !.msg = worker[w].msg, !.token = Null,
                         !.live = FALSE, !.terminal = FALSE]]
          /\ confirmed' = confirmed \union {Target(w)}
     ELSE UNCHANGED <<deliv, confirmed>>
  /\ ToNext(w, FALSE)
  /\ UNCHANGED <<rem, occ, member, invite, opening, reading, cards, acts,
                 admitted>>

\* record_shared_delivery_failure.
RecordFailure(w) ==
  /\ worker[w].pc \in {"transient", "terminal"}
  /\ LET terminal == worker[w].pc = "terminal"
         recorded == Owns(w) /\ RowHeld(w)
     IN /\ deliv' = IF recorded
                    THEN [deliv EXCEPT ![Target(w)] =
                           [@ EXCEPT !.state = "failed", !.terminal = terminal,
                                     !.token = Null, !.live = FALSE]]
                    ELSE deliv
        /\ ToNext(w, recorded /\ ~terminal)
  /\ UNCHANGED <<rem, occ, member, invite, opening, reading, cards, acts,
                 admitted, confirmed>>

\* get_shared_delivery_status, and the branches of _process_shared_delivery on it.
Complete ==
  \A k \in Specs :
    \/ deliv[k].state = "sent" /\ deliv[k].rev <= occ.rev
    \/ deliv[k].state = "failed" /\ deliv[k].terminal
Delivered == {k \in Specs : deliv[k].state = "sent" /\ deliv[k].rev <= occ.rev}
ReadStatus(w) ==
  /\ worker[w].pc = "status"
  /\ IF ~Complete THEN Stop(w)
     ELSE IF Delivered = {}
     THEN worker' = [worker EXCEPT ![w].pc = "fail", ![w].terminal = TRUE]
     ELSE worker' = [worker EXCEPT ![w].keyRev = occ.rev, ![w].msg = OwnerMessage,
                       ![w].pc = IF OwnerMessage = Null THEN "finalize" ELSE "record"]
  /\ UNCHANGED <<rem, occ, deliv, member, invite, opening, reading, cards, acts,
                 admitted, confirmed>>

\* set_last_message_id.
RecordMessage(w) ==
  /\ worker[w].pc = "record"
  /\ IF OwnsLive(w)
     THEN /\ occ' = [status |-> "delivered", rev |-> Max({occ.rev, worker[w].keyRev}),
                     msg |-> worker[w].msg]
          /\ rem' = [rem EXCEPT !.msg = worker[w].msg, !.named = TRUE]
          /\ GoTo(w, "finalize")
     ELSE Stop(w) /\ UNCHANGED <<occ, rem>>
  /\ UNCHANGED <<deliv, member, invite, opening, reading, cards, acts, admitted,
                 confirmed>>

DeliveredRow(r) ==
  [Released(r) EXCEPT !.status = "sent", !.state = "delivered", !.named = TRUE]

\* finalize_delivery_success of a one-off reminder.
FinalizeSuccess(w) ==
  /\ worker[w].pc = "finalize"
  /\ IF OwnsLive(w)
     THEN /\ rem' = [DeliveredRow(rem) EXCEPT !.attempts = 0]
          /\ occ' = [occ EXCEPT !.status = "delivered", !.rev = Max({@, worker[w].keyRev})]
     ELSE UNCHANGED <<rem, occ>>
  /\ Stop(w)
  /\ UNCHANGED <<deliv, member, invite, opening, reading, cards, acts, admitted,
                 confirmed>>

\* finalize_delivery_failure.  Recipients recorded as sent keep the occurrence
\* delivered while the others wait for the next attempt.
FinalizeFailure(w) ==
  LET final == worker[w].terminal \/ rem.attempts >= MaxAttempts
      partial == Sent(deliv) # {}
      rows == IF final
              THEN [k \in Keys |-> IF deliv[k].state = "failed"
                                   THEN [deliv[k] EXCEPT !.terminal = TRUE] ELSE deliv[k]]
              ELSE deliv
      released == [Released(rem) EXCEPT
                     !.msg = IF partial THEN OwnerMessage ELSE Null, !.named = partial]
  IN /\ occ' = IF partial THEN [occ EXCEPT !.status = "delivered", !.msg = OwnerMessage]
               ELSE [occ EXCEPT !.status = "failed", !.msg = Null]
     /\ IF ~final
        THEN /\ rem' = [released EXCEPT !.status = "pending", !.state = "scheduled"]
             /\ deliv' = rows /\ UNCHANGED member
        ELSE IF partial
        THEN /\ rem' = DeliveredRow(released) /\ deliv' = rows /\ UNCHANGED member
        ELSE /\ rem' = [released EXCEPT !.status = "failed", !.state = "failed"]
             /\ ExpireMemberships(rows)
Fail(w) ==
  /\ worker[w].pc = "fail"
  /\ IF OwnsLive(w) THEN FinalizeFailure(w) ELSE UNCHANGED <<rem, occ, deliv, member>>
  /\ Stop(w)
  /\ UNCHANGED <<invite, opening, reading, cards, acts, admitted, confirmed>>

\* The path of a reminder nobody shares; ReminderWorker models its steps.
DeliverPersonally(w) ==
  /\ worker[w].pc = "personal"
  /\ IF OwnsLive(w)
     THEN \/ /\ Cardinality(cards) < MaxCards
             /\ cards' = cards \union {[to |-> Owner, mrev |-> 0, mid |-> 0,
                                        rev |-> worker[w].token, msg |-> NewMessage]}
             /\ occ' = [status |-> "delivered", rev |-> Max({occ.rev, rem.rev}),
                        msg |-> NewMessage]
             /\ rem' = [DeliveredRow(rem) EXCEPT !.attempts = 0, !.msg = NewMessage]
             /\ UNCHANGED <<deliv, member>>
          \/ FinalizeFailure(w) /\ UNCHANGED cards
     ELSE UNCHANGED <<rem, occ, deliv, member, cards>>
  /\ Stop(w)
  /\ UNCHANGED <<invite, opening, reading, acts, admitted, confirmed>>

\* A crash, a stop request or a database error leaves the claim to its lease.
Abandon(w) ==
  /\ worker[w] # Idle
  /\ Stop(w)
  /\ UNCHANGED <<rem, occ, deliv, member, invite, opening, reading, cards, acts,
                 admitted, confirmed>>

\* lease_until passes, never during the call of the owner of the lease.
ExpireLease ==
  /\ rem.status = "processing" /\ rem.lease = "live"
  /\ \A w \in Workers : worker[w].token = rem.token => worker[w].pc # "send"
  /\ rem' = [rem EXCEPT !.lease = "over"]
  /\ UNCHANGED <<occ, deliv, member, invite, worker, opening, reading, cards, acts,
                 admitted, confirmed>>
\* The lease of a delivery is set later than the lease of its reminder.
ExpireRow(k) ==
  /\ deliv[k].state = "processing" /\ deliv[k].live
  /\ rem.token # deliv[k].token \/ rem.lease # "live"
  /\ deliv' = [deliv EXCEPT ![k].live = FALSE]
  /\ UNCHANGED <<rem, occ, member, invite, worker, opening, reading, cards, acts,
                 admitted, confirmed>>

-----------------------------------------------------------------------------
(* Buttons.                                                                *)

CancelRows(rows) ==
  [k \in Keys |-> IF rows[k].state \in Unfinished THEN Cancelled(rows[k]) ELSE rows[k]]
Act(c, kind) ==
  acts' = acts \union
    {[card |-> c, kind |-> kind, active |-> c.to = Owner \/ c.to \in Members,
      mrev |-> IF c.to = Owner THEN 0 ELSE member[c.to].rev,
      mid |-> IF c.to = Owner THEN 0 ELSE member[c.to].id]}

\* Mutant: the two status columns swapped.
CompletedSwapped(r) ==
  [r EXCEPT !.state = "sent", !.status = "completed", !.msg = Null, !.rev = @ + 1]

CompletedRow(r) ==
  [r EXCEPT !.state = "completed", !.status = "sent", !.msg = Null, !.rev = @ + 1,
            !.attempts = 0, !.named = TRUE]
SnoozedRow(r) ==
  [r EXCEPT !.state = "snoozed", !.status = "pending", !.msg = Null, !.named = FALSE,
            !.rev = @ + 1, !.attempts = 0]

\* A fresh round for every recipient: _reset_shared_delivery_rows.
ResetRows ==
  /\ deliv' = [k \in Keys |-> IF deliv[k].state = "absent" THEN NoDelivery
                              ELSE Fresh(deliv[k], 0)]
  /\ confirmed' = {}

CurrentOccurrence == occ.status = "delivered" /\ rem.named

\* Mutant: a button is good for every generation of the membership.
ParticipantMayAgain(p, c) ==
  /\ Shareable /\ p \in Members
  /\ CurrentOccurrence /\ occ.rev = c.rev

\* Mutant: a card is good for every generation of the occurrence.
ParticipantMayAnyTime(p, c) ==
  /\ Shareable /\ p \in Members
  /\ c.mid = member[p].id /\ c.mrev = member[p].rev
  /\ CurrentOccurrence

\* _load_shared_action_target, for a card of a delivery or of /shared.
ParticipantMay(p, c) ==
  /\ Shareable /\ p \in Members
  /\ c.mid = member[p].id /\ c.mrev = member[p].rev
  /\ CurrentOccurrence /\ occ.rev = c.rev
  /\ c.msg # Null => LET d == deliv[<<p, member[p].rev>>]
                     IN d.state = "sent" /\ d.rev = c.rev /\ d.msg = c.msg

\* complete_shared_reminder and snooze_shared_reminder.
ParticipantDone(c) ==
  /\ c.to # Owner /\ ParticipantMay(c.to, c)
  /\ Act(c, "done")
  /\ occ' = [occ EXCEPT !.status = "completed", !.rev = @ + 1]
  /\ rem' = CompletedRow(rem)
  /\ ExpireMemberships(CancelRows(deliv))
  /\ UNCHANGED <<invite, worker, opening, reading, cards, admitted, confirmed>>

ParticipantSnooze(c) ==
  /\ c.to # Owner /\ ParticipantMay(c.to, c)
  /\ Act(c, "snooze")
  /\ occ' = [occ EXCEPT !.status = "snoozed", !.rev = @ + 1]
  /\ rem' = SnoozedRow(rem)
  /\ ResetRows
  /\ UNCHANGED <<member, invite, worker, opening, reading, cards, admitted>>

\* _occurrence_is_current for a card of the owner.
OwnerMay(c) ==
  /\ c.to = Owner
  /\ CurrentOccurrence /\ occ.rev = c.rev
  /\ occ.msg = c.msg /\ rem.msg = c.msg
  /\ rem.state \notin Terminal /\ rem.status # "processing"

\* complete_reminder and snooze_reminder of a one-off reminder.
OwnerDone(c) ==
  /\ OwnerMay(c)
  /\ Act(c, "done")
  /\ occ' = [occ EXCEPT !.status = "completed", !.rev = @ + 1]
  /\ rem' = [rem EXCEPT !.state = "completed", !.rev = @ + 1]
  /\ ExpireMemberships(CancelRows(deliv))
  /\ UNCHANGED <<invite, worker, opening, reading, cards, admitted, confirmed>>

OwnerSnooze(c) ==
  /\ OwnerMay(c)
  /\ Act(c, "snooze")
  /\ occ' = [occ EXCEPT !.status = "snoozed", !.rev = @ + 1]
  /\ rem' = SnoozedRow(rem)
  /\ ResetRows
  /\ UNCHANGED <<member, invite, worker, opening, reading, cards, admitted>>

\* edit_reminder with a new text, from the card of a delivery.
OwnerEdit(c) ==
  /\ OwnerMay(c) /\ rem.rev = c.rev
  /\ Act(c, "edit")
  /\ rem' = [rem EXCEPT !.rev = @ + 1, !.attempts = 0,
               !.status = IF rem.state = "delivered" THEN "sent" ELSE "pending"]
  /\ occ' = [occ EXCEPT !.rev = rem.rev + 1]
  /\ UNCHANGED <<deliv, member, invite, worker, opening, reading, cards, admitted,
                 confirmed>>

\* cancel_reminder by /delete: also while the worker is sending.
OwnerCancel ==
  /\ rem.state \notin {"completed", "cancelled"}
  /\ LET found == CurrentOccurrence \/ occ.status = "processing"
     IN /\ rem' = [Released(rem) EXCEPT !.state = "cancelled", !.status = "sent",
                     !.rev = @ + 1, !.attempts = 0]
        /\ occ' = IF found THEN [occ EXCEPT !.status = "cancelled", !.rev = @ + 1] ELSE occ
        /\ ExpireMemberships(IF found THEN CancelRows(deliv) ELSE deliv)
  /\ UNCHANGED <<invite, worker, opening, reading, cards, acts, admitted,
                 confirmed>>

-----------------------------------------------------------------------------
WorkerStep(w) ==
  \/ ClaimDue(w) \/ PrepareOccurrence(w) \/ ChoosePath(w) \/ PrepareRecipients(w)
  \/ NextRecipient(w) \/ Validate(w) \/ SendRecipient(w) \/ RecordSuccess(w)
  \/ RecordFailure(w) \/ ReadStatus(w) \/ RecordMessage(w) \/ FinalizeSuccess(w)
  \/ Fail(w) \/ DeliverPersonally(w)

Sharing ==
  \/ \E i \in Invites : CreateInvite(i) \/ RevokeInvite(i)
  \/ \E p \in Participants, i \in Invites : OpenLink(p, i)
  \/ \E p \in Participants : RevokeMembership(p)
  \/ \E old \in SUBSET (Participants \union {Owner}), lapsed \in SUBSET Invites :
       Cleanup(old, lapsed)

Buttons ==
  \/ \E p \in Participants : OpenCard(p)
  \/ \E c \in cards : ParticipantDone(c) \/ ParticipantSnooze(c)
  \/ \E c \in cards : OwnerDone(c) \/ OwnerSnooze(c) \/ OwnerEdit(c)
  \/ OwnerCancel

Next ==
  \/ /\ events < MaxEvents /\ events' = events + 1
     /\ Sharing \/ Buttons
  \/ /\ UNCHANGED events
     /\ \/ \E p \in Participants : AcceptInvite(p) \/ SendCard(p)
        \/ \E w \in Workers : WorkerStep(w) \/ Abandon(w)
        \/ ExpireLease
        \/ \E k \in Keys : ExpireRow(k)

Spec == Init /\ [][Next]_vars

-----------------------------------------------------------------------------
(* Properties.                                                             *)

\* Every variable has its type.
TypeOK ==
  /\ rem \in Reminder /\ occ \in Occurrence
  /\ deliv \in [Keys -> Delivery]
  /\ member \in [Participants -> Membership]
  /\ invite \in [Invites -> Invite]
  /\ \A w \in Workers : worker[w].pc \in Steps /\ worker[w].todo \subseteq Keys
  /\ cards \subseteq Card /\ confirmed \subseteq Keys

\* A link makes at most one person a member, however many people open it at
\* once and whatever the owner revokes meanwhile; the limit of members holds.
LinksAdmitOne ==
  /\ \A i \in Invites : Cardinality(admitted[i]) <= 1
  /\ \A i \in Invites : invite[i].state \in {"unused", "pending"} => admitted[i] = {}
  /\ Cardinality(Members) <= Limit

\* A reminder that ended has no member left, and no delivery of a member's
\* current generation is in flight: whatever ended it, a button, a worker or
\* /delete, at whatever step of the fan-out.
EndedIsUnshared == rem.state \in Terminal => Members = {}

\* A delivery that a worker holds is for the owner or for a membership of that
\* very generation: a revocation between two steps of the worker takes it away.
HeldDeliveriesAreAuthorised ==
  \A k \in Keys : deliv[k].state = "processing" => Authorised(k)

\* The card of /shared goes out to a person who is a member at that moment, in
\* the generation its buttons name (authorize_shared_card_send).
CardsGoToMembers ==
  [][\A p \in Participants : SendCard(p) =>
       p \in Members /\ member[p].rev = reading[p].mrev]_vars

\* A recipient whose message of this round is recorded as sent gets no second
\* one, whatever crashes, retries and revocations follow.
RecordedIsNotRepeated ==
  [][\A c \in cards' \ cards : c.msg # Null => <<c.to, c.mrev>> \notin confirmed]_vars

\* A button takes effect only for the membership generation it was sent to: a
\* person who was revoked and came back cannot use his old cards.
ButtonsNameTheirMember ==
  \A a \in acts : a.active /\ a.mrev = a.card.mrev /\ a.mid = a.card.mid

\* Of all the buttons that several people hold for one generation of the
\* occurrence, one takes effect.
OneButtonPerGeneration ==
  \A a, b \in acts : a.card.rev = b.card.rev => a = b

\* Once the fan-out is over, the last message of every recipient that is
\* recorded as sent carries the generation that its buttons are checked
\* against, unless the owner changed the text since.
SentButtonsWork ==
  (rem.status = "sent" /\ rem.state = "delivered" /\ \A a \in acts : a.kind # "edit") =>
     \A k \in Keys : deliv[k].state = "sent" => deliv[k].rev = occ.rev
=============================================================================
