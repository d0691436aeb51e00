------------------------------ MODULE Digests ------------------------------
(***************************************************************************)
(* The morning and the evening digest of one user: the slots that          *)
(* adaptive_service.py keeps one step ahead of the clock, the workers that *)
(* send them, and what switching them off or moving does meanwhile         *)
(* (timezone_service.py).                                                  *)
(*                                                                         *)
(* A day has four phases: from 22:00 nothing may be sent; the morning slot *)
(* comes at 9:00 and is stale at 15:00 (digest_max_delay_minutes); the     *)
(* evening slot comes at 20:00 and the quiet hours end it at 22:00.  The   *)
(* clock is that of the westernmost zone; the others are a number of       *)
(* phases ahead of it.                                                     *)
(***************************************************************************)
EXTENDS Integers

CONSTANTS
  Workers,      \* processes that run reminder_loop, each with a batch of one
  Periods,      \* of {"morning", "evening"}
  Zones,        \* time zones, by the phases that they are ahead: within 0..3
  MaxAttempts,  \* worker_max_attempts
  Null          \* no slot, no worker; a model value

\* Dates, from the day before that of the westernmost zone to the day after
\* that of the easternmost.
Dates == (-1)..2
Keys == Periods \X Dates
Comes(p) == IF p = "morning" THEN 1 ELSE 3     \* the phase of a slot

VARIABLES
  phase,  \* the phase of the day in the westernmost zone
  owner,  \* the user: digests_enabled, digest_schedule_seeded, timezone; "west" is
          \* history: the user has once set the clock back
  slots,  \* reminder_digest_deliveries, by period and local date
  agent   \* what each worker is doing
vars == <<phase, owner, slots, agent>>

\* "open": there is no row, or one suppressed for a reason that may pass; "closed":
\* sent, failed or suppressed for good, which nothing tells apart; "here": its chat
\* is the user's; "zone": the one that scheduled_at_utc was computed for; "due": no
\* next_retry_at ahead; "live": lease_until is ahead.  A worker
\* has one claim at a time, so its name is as good as the token.  "message" is
\* history: none arrived, one whose sender can still report it, one the table
\* may never learn of, or another one after a message of the second kind.
Slot == [state : {"open", "pending", "processing", "closed"},
         here : BOOLEAN, zone : Zones \union {0}, attempt : 0..MaxAttempts, due : BOOLEAN, live : BOOLEAN,
         token : Workers \union {Null}, message : {"none", "known", "unknown", "twice"}]

Nothing == [state |-> "open", here |-> TRUE, zone |-> 0, attempt |-> 0, due |-> TRUE, live |-> FALSE,
            token |-> Null, message |-> "none"]
Idle == [pc |-> "idle", key |-> CHOOSE k \in Keys : TRUE, answer |-> "none"]

TypeOK ==
  /\ phase \in 0..3
  /\ owner \in [enabled : BOOLEAN, seeded : BOOLEAN, zone : Zones, west : BOOLEAN]
  /\ slots \in [Keys -> Slot]
  /\ \A w \in Workers :
       /\ agent[w].pc \in {"idle", "claimed", "built", "ready", "sending", "answered", "withdrawn"}
       /\ agent[w].key \in Keys
       /\ agent[w].answer \in {"none", "ok", "transient", "terminal"}

Init ==
  /\ phase \in 0..3
  /\ owner \in [enabled : BOOLEAN, seeded : {FALSE}, zone : Zones, west : {FALSE}]
  /\ slots = [k \in Keys |-> Nothing]
  /\ agent = [w \in Workers |-> Idle]

-----------------------------------------------------------------------------
(* The schedule *)

Waits(row) == row.state \in {"pending", "processing"}
\* _ensure_digest_schedule makes the row, or makes it wait again.
Open(row) == row.state = "open"

\* The phases since the first of date 0, where the user is, and the date there.
Local == phase + owner.zone
Today == IF Local >= 4 THEN 1 ELSE 0
\* The time of slot k on the user's clock is yet to come.
Later(k) == 4 * k[2] + Comes(k[1]) > Local

Pending(row) == [row EXCEPT !.state = "pending", !.here = TRUE, !.zone = owner.zone]
\* A row that waits no more; what it held is never read again.
Ended(row, state) == [Nothing EXCEPT !.state = state, !.message = row.message]

\* The date _ensure_digest_schedule wants a slot on.
Wanted(rows, p, nextIfDue) ==
  LET k == <<p, Today>> IN
  IF ~Later(k) /\ (nextIfDue \/ ~(Open(rows[k]) \/ Waits(rows[k]))) THEN Today + 1 ELSE Today

\* _ensure_digest_schedule.
Ensured(rows, nextIfDue) ==
  [k \in Keys |-> IF k[2] = Wanted(rows, k[1], nextIfDue) /\ Open(rows[k])
                  THEN Pending(rows[k]) ELSE rows[k]]

\* Mutant: a slot that is over does not open the next one.
ChainBroken(rows) == rows
\* What every end of a slot does while digests are on.
Chain(rows) == IF owner.enabled THEN Ensured(rows, TRUE) ELSE rows

\* The pending slots are withdrawn, those of the user's chat (TRUE) or of others.
Withdrawn(rows, chats) ==
  [k \in Keys |-> IF rows[k].state = "pending" /\ rows[k].here \in chats
                  THEN Ended(rows[k], "open") ELSE rows[k]]

-----------------------------------------------------------------------------
(* The user and the clock *)

\* set_adaptive_preferences: /digest on and /digest off.
Switch ==
  /\ \/ owner' = [owner EXCEPT !.enabled = TRUE, !.seeded = TRUE]
        /\ slots' = Ensured(slots, FALSE)
     \/ owner' = [owner EXCEPT !.enabled = FALSE, !.seeded = FALSE]
        /\ slots' = Withdrawn(slots, {TRUE})
  /\ UNCHANGED <<phase, agent>>

\* get_or_create_user and set_user_timezone: _invalidate_digest_schedule.  The
\* dates of the slots stay; what time it is on them does not.  (Two chats.)
Move ==
  /\ \E zone \in Zones, elsewhere \in BOOLEAN :
       /\ zone # owner.zone \/ elsewhere
       /\ owner' = [owner EXCEPT !.seeded = FALSE, !.zone = zone,
                                !.west = @ \/ zone < owner.zone]
       /\ LET kept == IF owner.enabled THEN Withdrawn(slots, BOOLEAN) ELSE slots
          IN slots' = [k \in Keys |-> IF elsewhere /\ Waits(kept[k])
                                      THEN [kept[k] EXCEPT !.here = ~@] ELSE kept[k]]
  /\ UNCHANGED <<phase, agent>>

\* The history of a row that nothing can send any more.
Forgotten(row) == IF row.state = "closed" THEN [Nothing EXCEPT !.state = "closed"] ELSE row

\* The next phase, and after the last the next day.  A phase lasts hours: longer
\* than a lease, a batch and the delays before a retry.
Tick ==
  /\ \A k \in Keys : slots[k].due /\ ~slots[k].live
  /\ \A w \in Workers : agent[w].pc = "idle"
  /\ phase' = (phase + 1) % 4
  /\ IF phase = 3
     THEN /\ \A p \in Periods : ~Waits(slots[<<p, -1>>])
          /\ slots' = [k \in Keys |->
               IF k[2] = 2 THEN Nothing
               ELSE LET row == slots[<<k[1], k[2] + 1>>]
                    IN IF k[2] = -1 /\ ~Waits(row) THEN Nothing ELSE Forgotten(row)]
     ELSE slots' = [k \in Keys |-> Forgotten(slots[k])]
  /\ UNCHANGED <<owner, agent>>

\* The table will not learn of a message from its sender.
Lost(message) == IF message = "known" THEN "unknown" ELSE message

\* A lease is longer than the call of Telegram it was renewed for.
MayEnd(k) == \A w \in Workers :
  ~(slots[k].token = w /\ agent[w].key = k /\ agent[w].pc = "sending")

\* A retry delay passes, or a lease ends and its holder can report no more.
SlotComesDue(k) ==
  /\ \/ /\ slots[k].state = "pending" /\ ~slots[k].due
        /\ slots' = [slots EXCEPT ![k].due = TRUE]
     \/ /\ slots[k].live /\ MayEnd(k)
        /\ slots' = [slots EXCEPT ![k].live = FALSE, ![k].message = Lost(@)]
  /\ UNCHANGED <<phase, owner, agent>>

-----------------------------------------------------------------------------
(* The worker: claim_due_digests and process_due_digests *)

\* The bootstrap of claim_due_digests.
Seeded == IF owner.enabled /\ ~owner.seeded THEN Ensured(slots, FALSE) ELSE slots

\* scheduled_at_utc, and what becomes of a slot by it and by the quiet hours.
At(row, k) == 4 * k[2] + Comes(k[1]) - row.zone
Ahead(row, k) == At(row, k) > phase
Fresh(row, k) == At(row, k) = phase /\ Local \notin {0, 4}

\* Mutant: a row whose worker died is left alone.
CandidatePending(row) == row.state = "pending" /\ row.due
Candidate(row) == \/ row.state = "pending" /\ row.due
                  \/ row.state = "processing" /\ ~row.live

Exhausted(row) == row.attempt >= MaxAttempts

\* What a poll makes of the slot it comes upon.
Claimed(w, rows, k) ==
  IF ~Fresh(rows[k], k)
  THEN Chain([rows EXCEPT ![k] = Ended(@, "closed")])            \* "stale", "quiet_hours"
  ELSE IF Exhausted(rows[k])
  THEN Chain([rows EXCEPT ![k] = Ended(@, "closed")])
  ELSE [rows EXCEPT ![k].state = "processing", ![k].live = TRUE, ![k].token = w,
                    ![k].attempt = @ + 1]

\* claim_due_digests: the seeds, then the slot that has been due the longest.
Claim(w) ==
  /\ agent[w].pc = "idle"
  /\ owner' = [owner EXCEPT !.seeded = @ \/ owner.enabled]
  /\ LET due == {k \in Keys : Candidate(Seeded[k]) /\ ~Ahead(Seeded[k], k)}
         longest == {k \in due : \A j \in due : At(Seeded[k], k) <= At(Seeded[j], j)}
     IN \/ /\ due = {} /\ ~(owner.enabled => owner.seeded)
           /\ slots' = Seeded /\ UNCHANGED agent
        \/ \E k \in longest :
             /\ slots' = Claimed(w, Seeded, k)
             /\ agent' = IF slots'[k].state = "processing"
                         THEN [agent EXCEPT ![w] = [Idle EXCEPT !.pc = "claimed", !.key = k]]
                         ELSE agent
  /\ UNCHANGED phase

Go(w, pc) == agent' = [agent EXCEPT ![w].pc = pc]

\* _load_digest_owner, before the text is built and again after it.
LoadOwner(w) ==
  /\ agent[w].pc \in {"claimed", "built"}
  /\ IF ~slots[agent[w].key].here        \* "owner_missing"
     THEN agent' = [agent EXCEPT ![w].pc = "answered", ![w].answer = "transient"]
     ELSE IF ~owner.enabled THEN Go(w, "withdrawn")
     ELSE Go(w, IF agent[w].pc = "claimed" THEN "built" ELSE "ready")
  /\ UNCHANGED <<phase, owner, slots>>

\* Mutant: a worker whose row was taken over keeps it.
OwnsAny(w) == slots[agent[w].key].state = "processing"
Owns(w) == /\ slots[agent[w].key].state = "processing"
           /\ slots[agent[w].key].token = w

\* renew_digest_delivery_lease asks for the token alone.
Renew(w) ==
  /\ agent[w].pc = "ready"
  /\ IF Owns(w) THEN /\ slots' = [slots EXCEPT ![agent[w].key].live = TRUE]
                     /\ Go(w, "sending")
                ELSE Go(w, "idle") /\ UNCHANGED slots
  /\ UNCHANGED <<phase, owner>>

\* What the two finalize functions and suppress_digest_delivery ask for.
Holds(w) == Owns(w) /\ slots[agent[w].key].live

Arrives(message, reported) ==
  CASE message = "none" -> IF reported THEN "known" ELSE "unknown"
    [] message = "known" -> "twice"
    [] OTHER -> message

\* bot.send_message: a timeout or a lost answer does not say what arrived.
Send(w) ==
  LET k == agent[w].key IN
  /\ agent[w].pc = "sending"
  /\ \E answer \in {"ok", "transient", "terminal"}, reached \in BOOLEAN :
       /\ answer = "ok" => reached
       /\ answer = "terminal" => ~reached
       /\ agent' = [agent EXCEPT ![w].pc = "answered", ![w].answer = answer]
       /\ slots' = IF reached THEN [slots EXCEPT ![k].message = Arrives(@, answer = "ok" /\ Holds(w))]
                   ELSE slots
  /\ UNCHANGED <<phase, owner>>

Closed(w, state) == [slots EXCEPT ![agent[w].key] = Ended(@, state)]

\* finalize_digest_success.
FinalizeSuccess(w) ==
  /\ agent[w].pc = "answered" /\ agent[w].answer = "ok"
  /\ agent' = [agent EXCEPT ![w] = Idle]
  /\ IF Holds(w)
     THEN /\ slots' = Chain(Closed(w, "closed"))
          /\ owner' = [owner EXCEPT !.seeded = owner.enabled]
     ELSE UNCHANGED <<slots, owner>>
  /\ UNCHANGED phase

\* finalize_digest_failure: a refusal switches the digests off.
FinalizeFailure(w) ==
  LET k == agent[w].key IN
  /\ agent[w].pc = "answered" /\ agent[w].answer # "ok"
  /\ agent' = [agent EXCEPT ![w] = Idle]
  /\ IF ~Holds(w) THEN UNCHANGED <<slots, owner>>
     ELSE IF agent[w].answer = "terminal"
     THEN /\ slots' = Withdrawn(Closed(w, "closed"), BOOLEAN)
          /\ owner' = [owner EXCEPT !.enabled = FALSE, !.seeded = FALSE]
     ELSE IF Exhausted(slots[k])
     THEN /\ slots' = Chain(Closed(w, "closed"))
          /\ owner' = [owner EXCEPT !.seeded = @ \/ owner.enabled]
     ELSE /\ slots' = [slots EXCEPT ![k] = [@ EXCEPT !.state = "pending", !.due = FALSE,
                                                    !.live = FALSE, !.token = Null]]
          /\ UNCHANGED owner
  /\ UNCHANGED phase

\* suppress_digest_delivery: the slot alone, no next one.
Suppress(w) ==
  /\ agent[w].pc = "withdrawn"
  /\ agent' = [agent EXCEPT ![w] = Idle]
  /\ slots' = IF Holds(w) THEN Closed(w, "open") ELSE slots
  /\ UNCHANGED <<phase, owner>>

\* The process dies, or not even the failure can be recorded.
Crash(w) ==
  /\ agent[w].pc # "idle"
  /\ agent' = [agent EXCEPT ![w] = Idle]
  /\ slots' = IF agent[w].answer = "ok" /\ Holds(w)
              THEN [slots EXCEPT ![agent[w].key].message = Lost(@)] ELSE slots
  /\ UNCHANGED <<phase, owner>>

-----------------------------------------------------------------------------
WorkerStep(w) ==
  \/ Claim(w) \/ LoadOwner(w) \/ Renew(w) \/ Send(w)
  \/ FinalizeSuccess(w) \/ FinalizeFailure(w) \/ Suppress(w)

Next ==
  \/ Switch \/ Move \/ Tick
  \/ \E k \in Keys : SlotComesDue(k)
  \/ \E w \in Workers : WorkerStep(w) \/ Crash(w)

Spec ==
  /\ Init /\ [][Next]_vars
  /\ WF_vars(Tick) /\ WF_vars(\E k \in Keys : SlotComesDue(k))
  /\ \A w \in Workers : WF_vars(WorkerStep(w))

-----------------------------------------------------------------------------
(* Properties *)

\* Once the sender of a digest can report that it arrived, it is not sent again,
\* whatever is switched off and on, moved or taken over in between.
DigestOnce == \A k \in Keys : slots[k].message # "twice"

\* While digests are on, some slot is ahead or under way: nothing else would ever
\* open another one (_ensure_digest_schedule runs when a slot ends).  Unless the
\* user has moved west, that is; see SeededIsScheduled.
ChainHolds == owner.enabled /\ owner.seeded /\ ~owner.west => \E k \in Keys : Waits(slots[k])

\* Whoever is marked as seeded has a schedule: "Keep one current/next slot per
\* period so the worker only scans due rows" (_ensure_digest_schedule).
SeededIsScheduled ==
  [][owner'.enabled /\ owner'.seeded /\ ~owner.seeded => \E k \in Keys : Waits(slots'[k])]_vars

\* If the user leaves the digests on, stays and has not moved west, then for each
\* period the day comes again and again on which its slot is ahead when its phase
\* is next, whatever was lost to crashes, failures and races before.
DigestsKeepComing ==
  <>[](owner.enabled /\ owner.seeded /\ ~owner.west) =>
    \A p \in Periods :
      []<>(/\ Local % 4 = Comes(p) - 1
           /\ \E k \in DOMAIN slots : k[1] = p /\ Later(k) /\ slots[k].state = "pending")
=============================================================================
