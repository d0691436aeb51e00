--------------------------- MODULE ReminderLifecycle ---------------------------
(***************************************************************************)
(* What a user does to one reminder through the buttons of the bot         *)
(* (app/services/reminder_service.py), while the worker delivers it.  The  *)
(* reminder is the root row; snoozing an occurrence of a series makes a    *)
(* child row, named here by the occurrence it postpones.  Buttons carry    *)
(* the revision they were printed with, so a press is accepted only while  *)
(* that revision is still in the database.                                 *)
(*                                                                         *)
(* The delivery protocol is ReminderWorker; here a claimed row has one     *)
(* flight, whose steps interleave with the user's transactions, and which  *)
(* may be abandoned at any step: a crash, a stop or a lost lease.          *)
(*                                                                         *)
(* Due times are whole numbers and the present lies strictly between two   *)
(* of them: t has passed iff t <= clock.  A NULL is 0.                     *)
(***************************************************************************)
EXTENDS Naturals, FiniteSets

CONSTANTS
  Rules,        \* rules of a new reminder: "none", "fixed", "relative"
  FirstTimes,   \* due times of a new reminder
  EditRules,    \* rules an edit of the schedule may choose
  Interval,     \* time between two occurrences of a fixed series
  AfterDays,    \* time from Done to the next occurrence of a relative one
  Delays,       \* how far ahead a snooze or a new schedule is
  SeriesEnd,    \* the inclusive end of every series
  MaxAttempts,  \* worker_max_attempts
  MaxTime,      \* bound on the clock
  MaxEvents     \* bound on user actions, refused sends and abandoned flights

Null == 0
Root == 0

ASSUME SettingsAssumption ==
  /\ Rules \cup EditRules \subseteq {"none", "fixed", "relative"}
  /\ {Interval, AfterDays, MaxAttempts} \subseteq Nat \ {0}
  /\ FirstTimes \cup Delays \subseteq Nat \ {0}
  /\ {SeriesEnd, MaxTime, MaxEvents} \subseteq Nat

-----------------------------------------------------------------------------

Live == {"scheduled", "snoozed"}
Terminal == {"completed", "cancelled"}
Active == Live \cup {"delivered", "paused"}

Row ==
  [state    : Active \cup Terminal \cup {"failed"},
   status   : {"pending", "processing", "sent", "failed"},
   rule     : {"none", "fixed", "relative"},
   remindAt : Nat,     \* canonical occurrence
   deliverAt: Nat,     \* delivery_at_utc
   rev      : Nat,     \* action_revision
   attempts : Nat,
   lastMsg  : Nat,     \* last_message_id: a message is named by the revision printed on it
   lastOcc  : Nat]     \* last_delivery_occurrence_utc

Occurrence ==
  [id     : Nat,      \* in the order of creation
   status : {"processing", "delivered", "snoozed", "completed", "cancelled", "failed"},
   rev    : Nat,
   msg    : Nat]

\* A delivered message with its buttons: callback data r1:<action>:o:<id>:<rev>:d
Card == [row : Nat, occ : Nat, rev : Nat]

\* The worker between a claim and its outcome, with the claim's snapshot.
Flight == [step : {"claimed", "prepared", "sent", "refused", "recorded"},
           rev : Nat, occ : Nat]

VARIABLES
  clock,
  row,      \* reminders: the root, and children by the occurrence they postpone
  occ,      \* reminder_occurrences, by row and canonical time
  flight,   \* deliveries in progress, by row
  cards,    \* delivered messages whose buttons can be pressed
  events    \* user actions, refused sends and abandoned flights so far

vars == <<clock, row, occ, flight, cards, events>>

Ids == DOMAIN row

TypeOK ==
  /\ clock \in Nat
  /\ Ids \subseteq Nat /\ Root \in Ids
  /\ \A r \in Ids : row[r] \in Row
  /\ DOMAIN occ \subseteq Ids \X Nat
  /\ \A k \in DOMAIN occ : occ[k] \in Occurrence
  /\ DOMAIN flight \subseteq Ids
  /\ \A r \in DOMAIN flight : flight[r] \in Flight
  /\ cards \subseteq Card
  /\ events \in Nat

\* f with the value v at k.
Put(f, k, v) == [x \in DOMAIN f \cup {k} |-> IF x = k THEN v ELSE f[x]]
Drop(f, k) == [x \in DOMAIN f \ {k} |-> f[x]]

CountEvent == events < MaxEvents /\ events' = events + 1

HasOcc(r, t) == <<r, t>> \in DOMAIN occ

SetRow(r, q) == row' = [row EXCEPT ![r] = q]

Larger(m, n) == IF m > n THEN m ELSE n

-----------------------------------------------------------------------------
(* Recurrence                                                              *)

Within(t) == IF t <= SeriesEnd THEN t ELSE Null

\* next_occurrence of a rule with a fixed interval
NextFixed(t) == Within(t + Interval)

\* advance_until_future
AdvanceFixed(t) ==
  LET later == { u \in (t + 1)..SeriesEnd : u > clock /\ (u - t) % Interval = 0 }
  IN IF later = {} THEN Null ELSE CHOOSE u \in later : \A v \in later : u <= v

\* next_occurrence of a completion-relative rule: counted from now
NextRelative == Within(clock + AfterDays)

-----------------------------------------------------------------------------
(* Init: create_reminder                                                   *)

NewRow(rule, state, t) ==
  [state |-> state, status |-> "pending", rule |-> rule, remindAt |-> t,
   deliverAt |-> t, rev |-> 0, attempts |-> 0, lastMsg |-> Null, lastOcc |-> Null]

Init ==
  /\ clock = 0
  /\ \E rule \in Rules, t \in FirstTimes :
       row = [r \in {Root} |-> NewRow(rule, "scheduled", t)]
  /\ occ = [k \in {} |-> Null]
  /\ flight = [r \in {} |-> Null]
  /\ cards = {}
  /\ events = 0

Tick ==
  /\ clock < MaxTime
  /\ clock' = clock + 1
  /\ UNCHANGED <<row, occ, flight, cards, events>>

-----------------------------------------------------------------------------
(* The worker                                                              *)

ClearIdentity(q) == [q EXCEPT !.lastMsg = Null, !.lastOcc = Null]

DeliverAt(q) == IF q.deliverAt = Null THEN q.remindAt ELSE q.deliverAt

Claimable(q) ==
  /\ q.state \in Live
  /\ \/ q.status = "pending" /\ DeliverAt(q) <= clock
     \/ q.status = "processing"

SourceSettled(r) ==
  r # Root /\ HasOcc(Root, r) /\ occ[<<Root, r>>].status \in Terminal

\* A recovered row was left by a flight that was abandoned.
Claim(r) ==
  /\ r \in Ids \ DOMAIN flight
  /\ Claimable(row[r])
  /\ LET q == row[r]
         taken == ~SourceSettled(r) /\ q.attempts < MaxAttempts
     IN /\ SetRow(r,
             IF SourceSettled(r)
               THEN [q EXCEPT !.status = "sent", !.state = "cancelled",
                              !.rev = @ + 1, !.deliverAt = Null]
             ELSE IF q.attempts >= MaxAttempts
               THEN ClearIdentity([q EXCEPT !.status = "failed", !.state = "failed"])
             ELSE ClearIdentity([q EXCEPT !.status = "processing", !.rev = @ + 1,
                                          !.attempts = @ + 1]))
        /\ flight' = IF taken
                       THEN Put(flight, r, [step |-> "claimed", rev |-> q.rev + 1,
                                            occ |-> q.remindAt])
                       ELSE flight
  /\ UNCHANGED <<clock, occ, cards, events>>

\* Mutant: a fence that forgets the user-facing state.
OwnsStatusOnly(r) == row[r].status = "processing"

\* The predicate of the fenced transactions: the claim is still in the row.
Owns(r) == row[r].status = "processing" /\ row[r].state \in Live

Advance(r, s) == flight' = [flight EXCEPT ![r].step = s]
EndFlight(r) == flight' = Drop(flight, r)

\* prepare_delivery_occurrence: create or reopen
PrepareOccurrence(r) ==
  /\ r \in DOMAIN flight /\ flight[r].step = "claimed"
  /\ \/ /\ Owns(r)
        /\ LET k == <<r, row[r].remindAt>>
               old == IF k \in DOMAIN occ THEN occ[k]
                      ELSE [id |-> Cardinality(DOMAIN occ) + 1, rev |-> 0]
           IN occ' = Put(occ, k, [id |-> old.id, status |-> "processing", msg |-> Null,
                                  rev |-> Larger(old.rev, row[r].rev)])
        /\ Advance(r, "prepared")
     \/ /\ ~Owns(r)
        /\ EndFlight(r)
        /\ UNCHANGED occ
  /\ UNCHANGED <<clock, row, cards, events>>

Send(r) ==
  /\ r \in DOMAIN flight /\ flight[r].step = "prepared"
  /\ \/ /\ cards' = cards \cup {[row |-> r, occ |-> flight[r].occ, rev |-> flight[r].rev]}
        /\ Advance(r, "sent")
        /\ UNCHANGED events
     \/ /\ CountEvent
        /\ Advance(r, "refused")
        /\ UNCHANGED cards
  /\ UNCHANGED <<clock, row, occ>>

\* set_last_message_id
RecordMessage(r) ==
  /\ r \in DOMAIN flight /\ flight[r].step = "sent"
  /\ \/ /\ Owns(r)
        /\ LET f == flight[r]
           IN /\ occ' = [occ EXCEPT ![<<r, f.occ>>] =
                           [id |-> @.id, status |-> "delivered", msg |-> f.rev,
                            rev |-> Larger(@.rev, row[r].rev)]]
              /\ SetRow(r, [row[r] EXCEPT !.lastMsg = f.rev, !.lastOcc = f.occ])
        /\ Advance(r, "recorded")
     \/ /\ ~Owns(r)
        /\ EndFlight(r)
        /\ UNCHANGED <<row, occ>>
  /\ UNCHANGED <<clock, cards, events>>

\* finalize_delivery_success: only a fixed series moves on by itself.
FinalizeSuccess(r) ==
  /\ r \in DOMAIN flight /\ flight[r].step = "recorded"
  /\ \/ /\ Owns(r)
        /\ occ' = [occ EXCEPT ![<<r, row[r].remindAt>>].status = "delivered",
                              ![<<r, row[r].remindAt>>].rev = Larger(@, row[r].rev)]
        /\ LET q == [row[r] EXCEPT !.attempts = 0]
               next == IF q.rule = "fixed" THEN AdvanceFixed(q.remindAt) ELSE Null
           IN SetRow(r,
                IF next = Null
                  THEN [q EXCEPT !.status = "sent", !.state = "delivered",
                                 !.deliverAt = Null]
                  ELSE [q EXCEPT !.status = "pending", !.state = "scheduled",
                                 !.remindAt = next, !.deliverAt = next])
     \/ /\ ~Owns(r)
        /\ UNCHANGED <<row, occ>>
  /\ EndFlight(r)
  /\ UNCHANGED <<clock, cards, events>>

\* finalize_delivery_failure: a transient failure is retried within the budget.
FinalizeFailure(r) ==
  /\ r \in DOMAIN flight /\ flight[r].step = "refused"
  /\ \/ /\ Owns(r)
        /\ occ' = [occ EXCEPT ![<<r, row[r].remindAt>>].status = "failed",
                              ![<<r, row[r].remindAt>>].msg = Null]
        /\ LET q == ClearIdentity(row[r])
           IN \/ SetRow(r, [q EXCEPT !.status = "failed", !.state = "failed"])
              \/ /\ q.attempts < MaxAttempts
                 /\ SetRow(r, [q EXCEPT !.status = "pending", !.state = "scheduled"])
     \/ /\ ~Owns(r)
        /\ UNCHANGED <<row, occ>>
  /\ EndFlight(r)
  /\ UNCHANGED <<clock, cards, events>>

Abandon(r) ==
  /\ r \in DOMAIN flight
  /\ CountEvent
  /\ EndFlight(r)
  /\ UNCHANGED <<clock, row, occ, cards>>

-----------------------------------------------------------------------------
(* Presses.  A button of a delivered message names an occurrence and is    *)
(* checked against the message too; /list prints new buttons, for the      *)
(* occurrence that was delivered last or else for the row.  A press on a   *)
(* list is modelled as a press on a fresh one: by ListsGoStale an older    *)
(* one is refused, because the row's revision has risen since.             *)

\* _occurrence_is_current with the revision the occurrence has now
IsCurrent(r, t) ==
  /\ HasOcc(r, t)
  /\ occ[<<r, t>>].status = "delivered"
  /\ row[r].lastOcc = t
  /\ row[r].state \notin Terminal \cup {"failed"}
  /\ row[r].status # "processing"

CardCurrent(c) ==
  /\ IsCurrent(c.row, c.occ)
  /\ occ[<<c.row, c.occ>>].rev = c.rev
  /\ occ[<<c.row, c.occ>>].msg = c.rev
  /\ row[c.row].lastMsg = c.rev

\* list_active_reminders
Listed(r) == row[r].state \in Active /\ row[r].status # "processing"

\* _send_actionable_reminders: the occurrence a list shows for the row
ListsOccurrence(r, t) ==
  /\ HasOcc(r, t)
  /\ \A k \in DOMAIN occ : k[1] = r => occ[k].id <= occ[<<r, t>>].id
  /\ occ[<<r, t>>].status = "delivered"
  /\ occ[<<r, t>>].msg # Null /\ occ[<<r, t>>].msg = row[r].lastMsg
  /\ row[r].lastOcc # Null
  /\ \/ row[r].state = "delivered"
     \/ row[r].rule # "none" /\ row[r].state \in Live

PressOccurrence(r, t) ==
  /\ IsCurrent(r, t)
  /\ \/ \E c \in cards : c.row = r /\ c.occ = t /\ CardCurrent(c)
     \/ Listed(r) /\ ListsOccurrence(r, t)

PressRow(r) ==
  /\ Listed(r)
  /\ \A k \in DOMAIN occ : k[1] = r => ~ListsOccurrence(r, k[2])

\* A user action: t is the occurrence of the button, or Null.
Press(r, t) ==
  /\ CountEvent
  /\ IF t = Null THEN PressRow(r) ELSE PressOccurrence(r, t)
  /\ UNCHANGED <<clock, flight, cards>>

Targets(r) == { k[2] : k \in { j \in DOMAIN occ : j[1] = r } } \cup {Null}

Revise(q) == [q EXCEPT !.rev = @ + 1]

Settle(o, status) == [o EXCEPT !.status = status, !.rev = @ + 1]

-----------------------------------------------------------------------------
(* complete_reminder                                                       *)

Rescheduled(q, t) ==
  ClearIdentity([q EXCEPT !.state = "scheduled", !.status = "pending",
                          !.remindAt = t, !.deliverAt = t, !.attempts = 0])

\* Mutant: the two status columns swapped.
EndedSwapped(q) == [q EXCEPT !.state = "sent", !.status = "completed", !.deliverAt = Null]

Ended(q) == [q EXCEPT !.state = "completed", !.status = "sent", !.deliverAt = Null]

\* A relative series moves on from the moment of Done, or ends.
MovedOn(q) == IF NextRelative = Null THEN Ended(q) ELSE Rescheduled(q, NextRelative)

\* The root after Done on its occurrence t.
DoneRoot(q, t) ==
  CASE q.rule = "none"     -> [q EXCEPT !.state = "completed"]
    [] q.rule = "relative" -> MovedOn(q)
    [] q.rule = "fixed"    -> IF NextFixed(t) = Null THEN ClearIdentity(Ended(q))
                                                     ELSE Rescheduled(q, NextFixed(t))

\* The root after Done on one of its children.
DoneParent(q) == IF q.rule = "relative" THEN MovedOn(q) ELSE q

Done(r, t) ==
  /\ t # Null
  /\ Press(r, t)
  /\ LET source == <<Root, r>>
         settled == {<<r, t>>} \cup
           (IF r # Root /\ source \in DOMAIN occ /\ occ[source].status # "completed"
              THEN {source} ELSE {})
     IN occ' = [k \in DOMAIN occ |->
                  IF k \in settled THEN Settle(occ[k], "completed") ELSE occ[k]]
  /\ row' = [i \in Ids |->
       CASE i = r /\ r = Root -> DoneRoot(Revise(row[r]), t)
         [] i = r /\ r # Root -> Ended(Revise(row[r]))
         [] i = Root /\ r # Root -> DoneParent(Revise(row[Root]))
         [] OTHER -> row[i]]

-----------------------------------------------------------------------------
(* snooze_reminder                                                         *)

\* Mutant: a snooze that keeps the revision.
SnoozedSilently(q, target) ==
  ClearIdentity([q EXCEPT !.state = "snoozed", !.status = "pending",
                          !.deliverAt = target, !.attempts = 0])

Snoozed(q, target) ==
  ClearIdentity([Revise(q) EXCEPT !.state = "snoozed", !.status = "pending",
                                  !.deliverAt = target, !.attempts = 0])

\* The child that delivers occurrence t again: a new row, or the one it has.
SnoozeChild(t, target) ==
  IF t \in Ids THEN [Snoozed(row[t], target) EXCEPT !.remindAt = target]
               ELSE NewRow("none", "snoozed", target)

Snooze(r, t, target) ==
  /\ Press(r, t)
  /\ t = Null => row[r].state \in Live
  /\ occ' = IF t = Null THEN occ
                        ELSE [occ EXCEPT ![<<r, t>>] = Settle(@, "snoozed")]
  /\ row' = IF r = Root /\ t # Null /\ row[r].rule # "none"
              THEN [Put(row, t, SnoozeChild(t, target))
                      EXCEPT ![Root] = ClearIdentity(Revise(@))]
              ELSE [row EXCEPT ![r] = Snoozed(@, target)]

-----------------------------------------------------------------------------
(* pause_reminder, resume_reminder                                         *)

\* Mutant: only the row's revision rises.
PauseRowOnly(r, t) ==
  /\ Press(r, t)
  /\ t = Null => row[r].state \in Live \cup {"delivered"}
  /\ row[r].rule # "none"
  /\ SetRow(r, [Revise(row[r]) EXCEPT !.state = "paused", !.deliverAt = row[r].remindAt])
  /\ UNCHANGED occ

\* The revision of the occurrence rises before the state is looked at.
Pause(r, t) ==
  /\ Press(r, t)
  /\ t = Null => row[r].state \in Live \cup {"delivered"}
  /\ row[r].rule # "none"
  /\ occ' = IF t = Null THEN occ ELSE [occ EXCEPT ![<<r, t>>].rev = @ + 1]
  /\ SetRow(r, [Revise(row[r]) EXCEPT !.state = "paused", !.deliverAt = row[r].remindAt])

\* The last delivered occurrence, when the row still names it.
WaitingOccurrence(r) ==
  { t \in { k[2] : k \in { j \in DOMAIN occ : j[1] = r } } :
      /\ occ[<<r, t>>].status = "delivered"
      /\ \A k \in DOMAIN occ : k[1] = r /\ occ[k].status = "delivered" => k[2] <= t
      /\ row[r].lastOcc = t /\ row[r].lastMsg = occ[<<r, t>>].msg }

Resume(r) ==
  /\ Press(r, Null)
  /\ row[r].state = "paused" /\ row[r].rule # "none"
  /\ LET q == Revise(row[r])
         waiting == IF q.rule = "relative" THEN WaitingOccurrence(r) ELSE {}
         next == IF q.rule = "relative" THEN Larger(q.remindAt, clock)
                                        ELSE AdvanceFixed(q.remindAt)
     IN \/ \E t \in waiting :
             /\ SetRow(r, [q EXCEPT !.state = "delivered", !.status = "sent",
                                    !.deliverAt = Null])
             /\ occ' = [occ EXCEPT ![<<r, t>>].rev = q.rev]
        \/ /\ waiting = {} /\ next # Null
           /\ next > clock \/ ~HasOcc(r, next)  \* no two instants are the same "now"
           /\ SetRow(r, Rescheduled(q, next))
           /\ UNCHANGED occ

-----------------------------------------------------------------------------
(* edit_reminder: of the text, or of the schedule                          *)

Editable(r, t) ==
  /\ t # Null => occ[<<r, t>>].rev = row[r].rev
  /\ row[r].state \notin Terminal \cup {"failed"}

EditText(r, t) ==
  /\ Press(r, t)
  /\ Editable(r, t)
  /\ LET q == Revise(row[r])
     IN /\ SetRow(r, [q EXCEPT !.status = IF q.state = "delivered" THEN "sent" ELSE "pending",
                               !.attempts = 0])
        /\ occ' = IF t = Null THEN occ ELSE [occ EXCEPT ![<<r, t>>].rev = q.rev]

EditSchedule(r, t, rule, target) ==
  /\ Press(r, t)
  /\ Editable(r, t)
  /\ rule # "none" => target <= SeriesEnd
  /\ SetRow(r, [Rescheduled(Revise(row[r]), target) EXCEPT !.rule = rule])
  /\ UNCHANGED occ

-----------------------------------------------------------------------------
(* cancel_reminder: the Delete button, or /cancel without a revision       *)

\* The occurrence that goes with the row when no button names it.
CancelTarget(r) ==
  LET last == row[r].lastOcc
      open == { k \in DOMAIN occ : k[1] = r /\ occ[k].status = "processing" }
  IN IF last # Null /\ occ[<<r, last>>].status = "delivered" THEN {<<r, last>>}
     ELSE IF row[r].status = "processing"
       THEN { k \in open : \A j \in open : occ[j].id <= occ[k].id }
     ELSE {}

CancelledRow(q) ==
  [Revise(q) EXCEPT !.state = "cancelled", !.status = "sent", !.deliverAt = Null,
                    !.attempts = 0]

\* Mutant: a child that is being delivered is left to the worker.
CancelledIdleChild(q) ==
  IF q.state \in Terminal \/ q.status = "processing" THEN q
  ELSE [Revise(q) EXCEPT !.state = "cancelled", !.status = "sent", !.deliverAt = Null]

\* _cancel_children leaves the status of a child that is being delivered.
CancelledChild(q) ==
  IF q.state \in Terminal THEN q
  ELSE IF q.status = "processing" THEN [Revise(q) EXCEPT !.state = "cancelled"]
  ELSE [Revise(q) EXCEPT !.state = "cancelled", !.status = "sent", !.deliverAt = Null]

\* Mutant: deleting a child leaves its source snoozed.
SnoozedSourcesOfRoot(r) ==
  { k \in DOMAIN occ : k[1] = Root /\ r = Root /\ occ[k].status = "snoozed" }

\* The occurrences that the root, or a child, takes with it.
SnoozedSources(r) ==
  { k \in DOMAIN occ : /\ k[1] = Root /\ occ[k].status = "snoozed"
                       /\ r = Root \/ k[2] = r }

CancelTransaction(r, named) ==
  /\ row[r].state \notin Terminal
  /\ LET gone == named \cup SnoozedSources(r)
     IN occ' = [k \in DOMAIN occ |->
                  IF k \in gone THEN Settle(occ[k], "cancelled") ELSE occ[k]]
  /\ row' = [i \in Ids |->
       CASE i = r -> CancelledRow(row[i])
         [] i # r /\ r = Root -> CancelledChild(row[i])
         [] OTHER -> row[i]]

Delete(r, t) ==
  /\ Press(r, t)
  /\ CancelTransaction(r, IF t = Null THEN CancelTarget(r) ELSE {<<r, t>>})

CancelById(r) ==
  /\ CountEvent
  /\ CancelTransaction(r, CancelTarget(r))
  /\ UNCHANGED <<clock, flight, cards>>

-----------------------------------------------------------------------------

WorkerStep(r) ==
  \/ Claim(r) \/ PrepareOccurrence(r) \/ Send(r)
  \/ RecordMessage(r) \/ FinalizeSuccess(r) \/ FinalizeFailure(r)
  \/ Abandon(r)

\* reminder_callback: the buttons that may name an occurrence
Button(r, t) ==
  \/ Done(r, t)
  \/ \E d \in Delays : Snooze(r, t, clock + d)
  \/ Pause(r, t)
  \/ EditText(r, t)
  \/ \E d \in Delays, rule \in EditRules : EditSchedule(r, t, rule, clock + d)
  \/ Delete(r, t)

UserAction(r) ==
  \/ \E t \in Targets(r) : Button(r, t)
  \/ Resume(r)
  \/ CancelById(r)

Next == Tick \/ \E r \in Ids : WorkerStep(r) \/ UserAction(r)

Spec == Init /\ [][Next]_vars

-----------------------------------------------------------------------------
(* Properties                                                              *)

\* A press that is accepted for an occurrence retires every button printed for
\* its row before: no message can be used twice, whatever the action did.
PressesRetireCards ==
  [][\A c \in cards : events' # events /\ CardCurrent(c)' =>
       ~ \E t \in Targets(c.row) \ {Null} : Button(c.row, t)]_vars

\* Whatever a list shows of a row, any change of it raises the row's revision,
\* so that the buttons of older lists are refused: claims of the worker, Done
\* and Delete on the other rows of the family included.
ListsGoStale ==
  [][\A r \in Ids :
       /\ Listed(r)
       /\ \/ row'[r].state # row[r].state \/ row'[r].status # row[r].status
          \/ row'[r].remindAt # row[r].remindAt \/ row'[r].deliverAt # row[r].deliverAt
       => row'[r].rev > row[r].rev]_vars

\* A child that can still be delivered, or retried, for its snoozed source.
Paired(r) ==
  /\ row[r].state \notin Terminal
  /\ HasOcc(Root, r) /\ occ[<<Root, r>>].status = "snoozed"

\* A row that the user has completed or cancelled keeps that state, whatever a
\* worker that claimed it before still does; only a child comes back, when its
\* source is snoozed once more.
SettledIsFinal ==
  [][\A r \in Ids : row[r].state \in Terminal =>
       \/ row'[r].state = row[r].state
       \/ r # Root /\ events' # events /\ Paired(r)']_vars

\* A snoozed occurrence and the child that stands for it end in one step,
\* whichever of them the user acted on: none is forgotten, and none is delivered
\* for a source that was settled.  Only a series that is scheduled again at the
\* same time takes its occurrence back.
SnoozedPairsEndTogether ==
  [][\A r \in Ids \ {Root} : Paired(r) =>
       \/ Paired(r)'
       \/ row'[r].state \in Terminal /\ occ'[<<Root, r>>].status \in Terminal
       \/ Root \in DOMAIN flight /\ flight[Root].occ = r]_vars

\* Deleting the series ends its children too, the ones in flight included.
CancelEndsFamily ==
  row[Root].state = "cancelled" => \A r \in Ids : row[r].state \in Terminal

\* docs/action_states.md:33: acknowledging the delivered occurrence does not
\* touch the next canonical delivery; docs/scheduling.md:71: missed occurrences
\* are not replayed.  A fixed series that has moved on is never set back.
DoneKeepsSuccessor ==
  [][\A t \in Targets(Root) :
       Done(Root, t) /\ row[Root].rule = "fixed" /\ row'[Root].state = "scheduled"
         => row'[Root].remindAt >= row[Root].remindAt]_vars

\* docs/action_states.md:12: a delivered message shows Done, Snooze, Edit and
\* Delete.  Its buttons work when the worker has recorded the delivery.
SentCardIsLive ==
  [][\A r \in Ids : FinalizeSuccess(r) /\ Owns(r) =>
       \E c \in cards : c.row = r /\ c.rev = flight[r].rev /\ CardCurrent(c)']_vars

\* docs/action_states.md:27: deleting a snooze child cancels that child and its
\* source occurrence while the parent series continues.  A delivered series
\* waits for its occurrence or for a child that postpones it.
SeriesContinues ==
  row[Root].rule # "none" /\ row[Root].state = "delivered" =>
    \/ IsCurrent(Root, row[Root].lastOcc)
    \/ \E r \in Ids \ {Root} : row[r].state \in Active
=============================================================================
