---------------------------- MODULE MCServices ----------------------------
(***************************************************************************)
(* Conditions, Conversations, Digests and PersistentReminders share no     *)
(* state: a behaviour of this module is one of a single instance of them,  *)
(* "part".  (The modules of their proofs, which extend them by theorems,   *)
(* are instantiated in their place, for ServicesProofs to cite.)           *)
(***************************************************************************)
EXTENDS Naturals, Sequences
CONSTANTS
  Null,
  Reminders, Day, Quiet, Interval, Cooldown, MaxDeliveries, MaxAttempts, Lease

VARIABLES
  part,
  pr, changes, sub, sequence, seen, poller, outbox, sender, arrived, doubts,
  revision, draft, question, voice, previews, task, received, repeated, used, mixed,
  phase, owner, slots, agent,
  hour, reserved, row, flight

conditions == <<pr, changes, sub, sequence, seen, poller, outbox, sender, arrived, doubts>>
talk == <<revision, draft, question, voice, previews, task, received, repeated, used, mixed>>
digests == <<phase, owner, slots, agent>>
repeats == <<hour, reserved, row, flight>>
vars == <<part, conditions, talk, digests, repeats>>

Pulls == {[state |-> "open", draft |-> FALSE, wanted |-> {"reviewer"}],
          [state |-> "open", draft |-> FALSE, wanted |-> {}],
          [state |-> "closed", draft |-> FALSE, wanted |-> {"reviewer"}]}

Polls == INSTANCE ConditionsProofs
  WITH Pollers <- {1, 2}, Senders <- {}, PullRequests <- Pulls, MaxAttempts <- 2, MaxChanges <- 2
Sends == INSTANCE ConditionsProofs
  WITH Pollers <- {1}, Senders <- {1, 2}, PullRequests <- Pulls, MaxAttempts <- 2, MaxChanges <- 1
Talk == INSTANCE ConversationsProofs
  WITH Tasks <- {1, 2}, Slots <- 1, MaxMessages <- 2, MaxDrafts <- 1, MaxRepeats <- 1, MaxRevision <- 2
Days == INSTANCE DigestsProofs
  WITH Workers <- {1}, Periods <- {"morning", "evening"}, Zones <- {0, 3}, MaxAttempts <- 2
Race == INSTANCE DigestsProofs
  WITH Workers <- {1, 2}, Periods <- {"evening"}, Zones <- {0, 3}, MaxAttempts <- 2
Repeats == INSTANCE PersistentReminders

\* Null is no state of a condition and the name of no poller.
ASSUME NullAssumption ==
  Null \notin {1, 2} /\ Null \notin {"inactive", "action_required", "resolved", "error"}

\* What the settings of important reminders are checked for (persistent_policy.py,
\* config.py); quiet hours that end when they start are none.
ASSUME PolicyAssumption ==
  /\ Day \in Nat \ {0} /\ \E h \in 0..(Day - 1) : h \notin Quiet
  /\ Interval \in Nat /\ Cooldown \in Nat /\ Lease \in Nat \ {0}
  /\ MaxDeliveries \in Nat \ {0} /\ MaxAttempts \in Nat

\* What is not part of a behaviour rests.
NoConditions ==
  /\ pr = Null /\ changes = 0 /\ sub = [active |-> FALSE, provider |-> Null] /\ sequence = 0
  /\ seen = 0 /\ poller = [w \in {1, 2} |-> Polls!PollerIdle] /\ outbox = <<>>
  /\ sender = <<>> /\ arrived = <<>> /\ doubts = <<>>
NoTalk ==
  /\ revision = 0 /\ draft = Null /\ question = Null /\ voice = Null /\ previews = {}
  /\ task = <<>> /\ received = 0 /\ repeated = 0 /\ used = <<>> /\ mixed = FALSE
NoDigests ==
  /\ phase = 0 /\ owner = [enabled |-> FALSE, seeded |-> FALSE, zone |-> 0, west |-> FALSE]
  /\ slots = <<>> /\ agent = <<>>
NoRepeats == hour = 0 /\ reserved = 0 /\ row = <<>> /\ flight = <<>>

Init ==
  \/ part = "polls" /\ Polls!Init /\ NoTalk /\ NoDigests /\ NoRepeats
  \/ part = "sends" /\ Sends!Init /\ NoTalk /\ NoDigests /\ NoRepeats
  \/ part = "talk" /\ Talk!Init /\ NoConditions /\ NoDigests /\ NoRepeats
  \/ part = "days" /\ Days!Init /\ NoConditions /\ NoTalk /\ NoRepeats
  \/ part = "race" /\ Race!Init /\ NoConditions /\ NoTalk /\ NoRepeats
  \/ part = "repeats" /\ Repeats!Init /\ NoConditions /\ NoTalk /\ NoDigests

\* Step A of part p leaves the variables of the others alone.
OfConditions(p, A) == part = p /\ A /\ UNCHANGED <<part, talk, digests, repeats>>
OfTalk(A) == part = "talk" /\ A /\ UNCHANGED <<part, conditions, digests, repeats>>
OfDigests(p, A) == part = p /\ A /\ UNCHANGED <<part, conditions, talk, repeats>>
OfRepeats(A) == part = "repeats" /\ A /\ UNCHANGED <<part, conditions, talk, digests>>

Next ==
  \/ OfConditions("polls", Polls!Next)
  \/ OfConditions("sends", Sends!Next)
  \/ OfTalk(Talk!Next)
  \/ OfDigests("days", Days!Next)
  \/ OfDigests("race", Race!Next)
  \/ OfRepeats(Repeats!Next)

\* The fairness of each instance's Spec; none of it is needed of the safety of Talk
\* and Race.  A behaviour has one part, so weak fairness of a choice of steps, each
\* of another part, is weak fairness of every one of them.
Fairness ==
  /\ WF_vars(\/ OfConditions("polls", Polls!PollComesDue)
             \/ OfConditions("sends", Sends!PollComesDue)
             \/ OfDigests("days", Days!Tick)
             \/ OfRepeats(Repeats!Tick))
  /\ WF_vars(\/ OfConditions("polls", Polls!PollLeaseEnds)
             \/ OfConditions("sends", Sends!PollLeaseEnds)
             \/ OfDigests("days", \E k \in Days!Keys : Days!SlotComesDue(k)))
  /\ WF_vars(\/ OfConditions("sends", Sends!PollStep(1))
             \/ OfDigests("days", Days!WorkerStep(1)))
  /\ \A i \in {1, 2} :
       /\ WF_vars(\/ OfConditions("polls", Polls!PollStep(i))
                  \/ OfConditions("sends", Sends!SendStep(i)))
       /\ WF_vars(OfConditions("sends", i \in DOMAIN outbox /\ Sends!RowComesDue(i)))
  /\ \A r \in Reminders : WF_vars(OfRepeats(Repeats!Claim(r))) /\ WF_vars(OfRepeats(Repeats!FlightStep(r)))

Spec == Init /\ [][Next]_vars /\ Fairness

\* What the run leaves out: in "days" nothing is asked of a user whose clock was
\* set back.
ClockGoesOn == part = "days" => ~owner.west

-----------------------------------------------------------------------------
(* The properties of the instances, stated where they are defined *)

TypeOK ==
  CASE part = "polls" -> Polls!TypeOK
    [] part = "sends" -> Sends!TypeOK
    [] part = "talk"  -> Talk!TypeOK
    [] part = "days"  -> Days!TypeOK
    [] part = "race"  -> Race!TypeOK
    [] part = "repeats" -> Repeats!TypeOK

\* A late answer of Telegram never undoes the attempt under way (the outbox).
HeldWhileSending == part = "sends" => Sends!HeldWhileSending

\* An alert comes twice only for an attempt the outbox lost track of.
DuplicateNeedsDoubt == part = "sends" => Sends!DuplicateNeedsDoubt

\* No poll writes an older state of the pull request over a newer one.
ObservationsInOrder == Polls!ObservationsInOrder

\* Every alert is sent, suppressed or given up.
AlertsSettle == <>[](part = "sends") => Sends!AlertsSettle

\* An active subscription is polled for ever, whichever poller dies.
KeepsPolling == <>[](part = "polls") => Polls!KeepsPolling

\* The user is in one flow at most: an action draft, a question or a voice draft.
OneFlow == part = "talk" => Talk!OneFlow

\* A draft or a question takes effect once.
UsedOnce == part = "talk" => Talk!UsedOnce

\* A digest whose sender can report it is not sent again.
DigestOnce == (part = "days" => Days!DigestOnce) /\ (part = "race" => Race!DigestOnce)

\* While digests are on and the clock was never set back, some slot is ahead or
\* under way.
ChainHolds == part = "days" => Days!ChainHolds

\* Then each period has its next slot ahead again and again.
DigestsKeepComing == <>[](part = "days") => Days!DigestsKeepComing

\* Every cycle of an important reminder ends.
CyclesEnd == <>[](part = "repeats") => Repeats!CyclesEnd
=============================================================================
