----------------------- MODULE ReminderLifecycleProofs -----------------------
(***************************************************************************)
(* The life of a reminder, for any rules, times, delays and bounds.  What  *)
(* an operation may do to a row is one relation, Moves; OccsSound and      *)
(* SnoozesStay say what it leaves of the occurrences.  From them follow    *)
(* the inductive invariant (StepKeeps) and the action properties.          *)
(***************************************************************************)
EXTENDS ReminderLifecycle, FiniteSetTheorems, WellFoundedInduction, TLAPS

Types ==
  /\ clock \in Nat
  /\ Root \in Ids /\ Ids \subseteq Nat
  /\ row \in [Ids -> Row]
  /\ DOMAIN occ \subseteq Ids \X Nat /\ IsFiniteSet(DOMAIN occ)
  /\ occ \in [DOMAIN occ -> Occurrence]
  /\ DOMAIN flight \subseteq Ids
  /\ flight \in [DOMAIN flight -> Flight]
  /\ cards \subseteq Card
  /\ events \in Nat

-----------------------------------------------------------------------------
(* Settings and times                                                      *)

LEMMA SettingsAre ==
  /\ Interval \in Nat /\ AfterDays \in Nat /\ AfterDays >= 1
  /\ MaxAttempts \in Nat /\ MaxAttempts >= 1
  /\ SeriesEnd \in Nat /\ MaxTime \in Nat /\ MaxEvents \in Nat
  /\ Delays \subseteq Nat /\ FirstTimes \subseteq Nat
  /\ Rules \subseteq {"none", "fixed", "relative"}
  /\ EditRules \subseteq {"none", "fixed", "relative"}
<1>1. {Interval, AfterDays, MaxAttempts} \subseteq Nat \ {0}
  BY SettingsAssumption
<1>2. {SeriesEnd, MaxTime, MaxEvents} \subseteq Nat
  BY SettingsAssumption
<1>3. QED
  BY <1>1, <1>2, SettingsAssumption

LEMMA NextFixedIs ==
  ASSUME NEW t \in Nat
  PROVE  NextFixed(t) \in Nat
BY SettingsAre DEF NextFixed, Within, Null

LEMMA NextRelativeIs ==
  ASSUME Types
  PROVE  /\ NextRelative \in Nat
         /\ NextRelative = Null <=> SeriesEnd < clock + AfterDays
<1>1. clock \in Nat
  BY DEF Types
<1>2. QED
  BY <1>1, SettingsAre DEF NextRelative, Within, Null

LEMMA AdvanceFixedIs ==
  ASSUME NEW t \in Nat
  PROVE  AdvanceFixed(t) \in Nat
<1> DEFINE later == { u \in (t + 1)..SeriesEnd : u > clock /\ (u - t) % Interval = 0 }
<1>1. later \subseteq Nat
  BY SettingsAre
<1>2. CASE later = {}
  BY <1>2 DEF AdvanceFixed, Null
<1>3. CASE later # {}
  <2>1. AdvanceFixed(t) = CHOOSE u \in later : \A v \in later : u <= v
    BY <1>3 DEF AdvanceFixed
  <2> HIDE DEF later
  <2>2. PICK u \in later : \A v \in later : ~ (<<v, u>> \in OpToRel(<, Nat))
    BY <1>1, <1>3, NatLessThanWellFounded, WFMin
  <2>3. \A v \in later : u <= v
    <3>1. SUFFICES ASSUME NEW v \in later PROVE u <= v
      OBVIOUS
    <3>2. u \in Nat /\ v \in Nat /\ ~ (v < u)
      BY <1>1, <2>2, <3>1 DEF OpToRel
    <3>3. QED
      BY <3>2
  <2>4. (CHOOSE x \in later : \A v \in later : x <= v) \in later
    BY <2>3
  <2>5. QED
    BY <1>1, <2>1, <2>4
<1>4. QED
  BY <1>2, <1>3

LEMMA LargerIs ==
  ASSUME NEW m \in Nat, NEW n \in Nat
  PROVE  Larger(m, n) \in Nat /\ m <= Larger(m, n) /\ n <= Larger(m, n)
BY DEF Larger

-----------------------------------------------------------------------------
(* The operators on rows: the fields each of them sets                     *)

LEMMA RowIs ==
  ASSUME NEW q \in Row
  PROVE  /\ q.state \in {"scheduled", "snoozed", "delivered", "paused",
                         "completed", "cancelled", "failed"}
         /\ q.status \in {"pending", "processing", "sent", "failed"}
         /\ q.rule \in {"none", "fixed", "relative"}
         /\ q.remindAt \in Nat /\ q.deliverAt \in Nat /\ q.rev \in Nat
         /\ q.attempts \in Nat /\ q.lastMsg \in Nat /\ q.lastOcc \in Nat
BY DEF Row, Active, Live, Terminal

LEMMA ClearIs ==
  ASSUME NEW q \in Row
  PROVE  /\ ClearIdentity(q) \in Row
         /\ ClearIdentity(q).state = q.state /\ ClearIdentity(q).status = q.status
         /\ ClearIdentity(q).rule = q.rule /\ ClearIdentity(q).remindAt = q.remindAt
         /\ ClearIdentity(q).deliverAt = q.deliverAt /\ ClearIdentity(q).rev = q.rev
         /\ ClearIdentity(q).attempts = q.attempts
         /\ ClearIdentity(q).lastMsg = Null
BY DEF ClearIdentity, Row, Null

LEMMA ReviseIs ==
  ASSUME NEW q \in Row
  PROVE  /\ Revise(q) \in Row
         /\ Revise(q).state = q.state /\ Revise(q).status = q.status
         /\ Revise(q).rule = q.rule /\ Revise(q).remindAt = q.remindAt
         /\ Revise(q).deliverAt = q.deliverAt /\ Revise(q).rev = q.rev + 1
         /\ Revise(q).attempts = q.attempts
         /\ Revise(q).lastMsg = q.lastMsg /\ Revise(q).lastOcc = q.lastOcc
<1> DEFINE n == q.rev + 1
<1>1. n \in Nat
  BY RowIs
<1>2. Revise(q) = [q EXCEPT !.rev = n]
  BY DEF Revise
<1> HIDE DEF n
<1>3. /\ Revise(q) \in Row
      /\ Revise(q).state = q.state /\ Revise(q).status = q.status
      /\ Revise(q).rule = q.rule /\ Revise(q).remindAt = q.remindAt
      /\ Revise(q).deliverAt = q.deliverAt /\ Revise(q).rev = n
      /\ Revise(q).attempts = q.attempts
      /\ Revise(q).lastMsg = q.lastMsg /\ Revise(q).lastOcc = q.lastOcc
  BY <1>1, <1>2 DEF Row
<1>4. QED
  BY <1>3 DEF n

LEMMA EndedIs ==
  ASSUME NEW q \in Row
  PROVE  /\ Ended(q) \in Row /\ Ended(q).state = "completed" /\ Ended(q).status = "sent"
         /\ Ended(q).rule = q.rule /\ Ended(q).rev = q.rev
         /\ Ended(q).lastMsg = q.lastMsg /\ Ended(q).lastOcc = q.lastOcc
BY DEF Ended, Row, Terminal, Null

LEMMA RescheduledIs ==
  ASSUME NEW q \in Row, NEW t \in Nat
  PROVE  /\ Rescheduled(q, t) \in Row
         /\ Rescheduled(q, t).state = "scheduled" /\ Rescheduled(q, t).status = "pending"
         /\ Rescheduled(q, t).rule = q.rule /\ Rescheduled(q, t).rev = q.rev
         /\ Rescheduled(q, t).attempts = 0 /\ Rescheduled(q, t).lastMsg = Null
         /\ Rescheduled(q, t).remindAt = t
<1> DEFINE p == [q EXCEPT !.state = "scheduled", !.status = "pending",
                          !.remindAt = t, !.deliverAt = t, !.attempts = 0]
<1>1. /\ p \in Row /\ p.state = "scheduled" /\ p.status = "pending" /\ p.rule = q.rule
      /\ p.rev = q.rev /\ p.attempts = 0 /\ p.remindAt = t
  BY DEF Row, Active, Live
<1>2. Rescheduled(q, t) = ClearIdentity(p)
  BY DEF Rescheduled
<1> HIDE DEF p
<1>3. QED
  BY <1>1, <1>2, ClearIs

LEMMA SnoozedIs ==
  ASSUME NEW q \in Row, NEW t \in Nat
  PROVE  /\ Snoozed(q, t) \in Row
         /\ Snoozed(q, t).state = "snoozed" /\ Snoozed(q, t).status = "pending"
         /\ Snoozed(q, t).rule = q.rule /\ Snoozed(q, t).rev = q.rev + 1
         /\ Snoozed(q, t).attempts = 0 /\ Snoozed(q, t).lastMsg = Null
         /\ Snoozed(q, t).remindAt = q.remindAt
<1> DEFINE v == Revise(q)
<1>1. v \in Row /\ v.rule = q.rule /\ v.rev = q.rev + 1 /\ v.remindAt = q.remindAt
  BY ReviseIs
<1> HIDE DEF v
<1> DEFINE p == [v EXCEPT !.state = "snoozed", !.status = "pending",
                          !.deliverAt = t, !.attempts = 0]
<1>2. /\ p \in Row /\ p.state = "snoozed" /\ p.status = "pending" /\ p.rule = v.rule
      /\ p.rev = v.rev /\ p.attempts = 0 /\ p.remindAt = v.remindAt
  BY <1>1 DEF Row, Active, Live
<1>3. Snoozed(q, t) = ClearIdentity(p)
  BY DEF Snoozed, v
<1> HIDE DEF p
<1>4. QED
  BY <1>1, <1>2, <1>3, ClearIs

\* The child that is there is snoozed again, with a new time.
SnoozedAgain(q, t) == [Snoozed(q, t) EXCEPT !.remindAt = t]

LEMMA SnoozedAgainIs ==
  ASSUME NEW q \in Row, NEW t \in Nat
  PROVE  /\ SnoozedAgain(q, t) \in Row
         /\ SnoozedAgain(q, t).state = "snoozed" /\ SnoozedAgain(q, t).status = "pending"
         /\ SnoozedAgain(q, t).rev = q.rev + 1 /\ SnoozedAgain(q, t).attempts = 0
<1> DEFINE p == Snoozed(q, t)
<1>1. /\ p \in Row /\ p.state = "snoozed" /\ p.status = "pending" /\ p.rev = q.rev + 1
      /\ p.attempts = 0
  BY SnoozedIs
<1>2. SnoozedAgain(q, t) = [p EXCEPT !.remindAt = t]
  BY DEF SnoozedAgain
<1> HIDE DEF p
<1>3. QED
  BY <1>1, <1>2 DEF Row

LEMMA NewRowIs ==
  ASSUME NEW rule \in {"none", "fixed", "relative"}, NEW y \in Live, NEW t \in Nat
  PROVE  /\ NewRow(rule, y, t) \in Row
         /\ NewRow(rule, y, t).state = y /\ NewRow(rule, y, t).status = "pending"
         /\ NewRow(rule, y, t).attempts = 0
BY DEF NewRow, Row, Active, Null

LEMMA CancelledIs ==
  ASSUME NEW q \in Row
  PROVE  /\ CancelledRow(q) \in Row
         /\ CancelledRow(q).state = "cancelled" /\ CancelledRow(q).status = "sent"
         /\ CancelledRow(q).rev = q.rev + 1
<1> DEFINE v == Revise(q)
<1>1. v \in Row /\ v.rev = q.rev + 1
  BY ReviseIs
<1> DEFINE p == [v EXCEPT !.state = "cancelled", !.status = "sent", !.deliverAt = Null,
                          !.attempts = 0]
<1>2. CancelledRow(q) = p
  BY DEF CancelledRow
<1> HIDE DEF v
<1>3. v \in Row
  BY <1>1
<1>4. p \in Row /\ p.state = "cancelled" /\ p.status = "sent" /\ p.rev = v.rev
  BY <1>3 DEF Row, Terminal, Null
<1> HIDE DEF p
<1>5. QED
  BY <1>1, <1>2, <1>4

LEMMA CancelledChildIs ==
  ASSUME NEW q \in Row
  PROVE  /\ CancelledChild(q) \in Row
         /\ CancelledChild(q).state \in Terminal
         /\ q.state \in Terminal => CancelledChild(q) = q
         /\ q.state \notin Terminal =>
              /\ CancelledChild(q).state = "cancelled"
              /\ CancelledChild(q).rev = q.rev + 1
              /\ CancelledChild(q).status =
                   IF q.status = "processing" THEN "processing" ELSE "sent"
              /\ CancelledChild(q).remindAt = q.remindAt
<1>1. CASE q.state \in Terminal
  BY <1>1 DEF CancelledChild
<1>2. CASE q.state \notin Terminal
  <2> DEFINE v == Revise(q)
  <2>1. v \in Row /\ v.rev = q.rev + 1 /\ v.status = q.status /\ v.remindAt = q.remindAt
    BY ReviseIs
  <2>2. CancelledChild(q) = IF q.status = "processing" THEN [v EXCEPT !.state = "cancelled"]
          ELSE [v EXCEPT !.state = "cancelled", !.status = "sent", !.deliverAt = Null]
    BY <1>2 DEF CancelledChild
  <2> HIDE DEF v
  <2> DEFINE p == [v EXCEPT !.state = "cancelled"]
  <2>a. v \in Row
    BY <2>1
  <2>b. p \in Row /\ p.state = "cancelled" /\ p.status = v.status /\ p.rev = v.rev
        /\ p.remindAt = v.remindAt
    BY <2>a DEF Row, Terminal
  <2> DEFINE o == [v EXCEPT !.state = "cancelled", !.status = "sent", !.deliverAt = Null]
  <2>c. o \in Row /\ o.state = "cancelled" /\ o.status = "sent" /\ o.rev = v.rev
        /\ o.remindAt = v.remindAt
    BY <2>a DEF Row, Terminal, Null
  <2>d. CancelledChild(q) = IF q.status = "processing" THEN p ELSE o
    BY <2>2
  <2> HIDE DEF p, o
  <2>3. CASE q.status = "processing"
    BY <1>2, <2>1, <2>b, <2>d, <2>3 DEF Terminal
  <2>4. CASE q.status # "processing"
    BY <1>2, <2>1, <2>c, <2>d, <2>4 DEF Terminal
  <2>5. QED
    BY <2>3, <2>4
<1>3. QED
  BY <1>1, <1>2

-----------------------------------------------------------------------------
(* The inductive invariant                                                 *)

\* A row that waits has an attempt left.
Spare(q) == q.status = "pending" => q.attempts < MaxAttempts
Budget == \A r \in Ids : Spare(row[r])

\* A relative series is completed only when there is no next occurrence, and
\* then there never is one again: Done on a child, which reschedules the series
\* whatever its state, cannot bring it back.
Over ==
  row[Root].state = "completed" /\ row[Root].rule = "relative" => SeriesEnd < clock + AfterDays

\* Revisions only rise: a flight, a message and a button are never ahead of
\* their row, nor a message of its occurrence.
Stamps ==
  /\ \A c \in cards : c.rev # 0
  /\ \A r \in DOMAIN flight : flight[r].rev # 0 /\ flight[r].rev <= row[r].rev
  /\ \A k \in DOMAIN occ : occ[k].msg <= occ[k].rev /\ occ[k].msg <= row[k[1]].rev

\* A flight that still owns its row delivers the occurrence of the row.
Bound == \A r \in DOMAIN flight : Owns(r) => row[r].remindAt = flight[r].occ

IInv == Types /\ CancelEndsFamily /\ Budget /\ Over /\ Stamps /\ Bound

LEMMA Rows ==
  ASSUME Types, NEW r \in Ids
  PROVE  row[r] \in Row /\ r \in Nat /\ row[r].rev \in Nat
<1>1. row[r] \in Row /\ r \in Nat
  BY DEF Types
<1>2. QED
  BY <1>1, RowIs

LEMMA OccurrenceIs ==
  ASSUME NEW o \in Occurrence
  PROVE  /\ o.id \in Nat /\ o.rev \in Nat /\ o.msg \in Nat
         /\ o.status \in {"processing", "delivered", "snoozed", "completed", "cancelled", "failed"}
BY DEF Occurrence

LEMMA Occs ==
  ASSUME Types, NEW k \in DOMAIN occ
  PROVE  /\ occ[k] \in Occurrence /\ k[1] \in Ids /\ k[2] \in Nat /\ k = <<k[1], k[2]>>
         /\ occ[k].rev \in Nat /\ occ[k].msg \in Nat
<1>1. occ[k] \in Occurrence /\ k \in Ids \X Nat
  BY DEF Types
<1>2. QED
  BY <1>1, OccurrenceIs

LEMMA Flights ==
  ASSUME Types, NEW r \in DOMAIN flight
  PROVE  /\ flight[r] \in Flight /\ r \in Ids
         /\ flight[r].step \in {"claimed", "prepared", "sent", "refused", "recorded"}
         /\ flight[r].rev \in Nat /\ flight[r].occ \in Nat
<1>1. flight[r] \in Flight /\ r \in Ids
  BY DEF Types
<1>2. QED
  BY <1>1 DEF Flight

-----------------------------------------------------------------------------
(* What a step does to the rows, to the occurrences and to the flights     *)

\* A row after an operation.  Only a claim sets it to be processed, and what
\* a list shows of it changes under a new revision.
Moves(q, p) ==
  /\ p \in Row /\ q.rev <= p.rev /\ Spare(p)
  /\ p.status = "processing" =>
       q.status = "processing" /\ p.remindAt = q.remindAt /\ (p.state \in Live => q.state \in Live)
  /\ \/ q.rev < p.rev \/ q.status = "processing"
     \/ /\ p.state = q.state /\ p.status = q.status
        /\ p.remindAt = q.remindAt /\ p.deliverAt = q.deliverAt

Keeps(q, p) == q.state \in Terminal => p.state = q.state

RowsMove ==
  /\ row' \in [Ids' -> Row] /\ Ids \subseteq Ids' /\ Ids' \subseteq Nat
  /\ \A i \in Ids : Moves(row[i], row'[i])
  /\ \A i \in Ids' \ Ids : Spare(row'[i])
  /\ row'[Root].state = "completed" /\ row'[Root].rule = "relative" =>
       (row[Root].state = "completed" /\ row[Root].rule = "relative") \/ NextRelative = Null

OccsSound(o) ==
  /\ DOMAIN o \subseteq Ids \X Nat /\ IsFiniteSet(DOMAIN o) /\ o \in [DOMAIN o -> Occurrence]
  /\ \A k \in DOMAIN o : o[k].msg <= o[k].rev /\ o[k].msg <= row[k[1]].rev

FlightsMove ==
  /\ DOMAIN flight' \subseteq DOMAIN flight /\ flight' \in [DOMAIN flight' -> Flight]
  /\ \A r \in DOMAIN flight' : flight'[r].rev = flight[r].rev /\ flight'[r].occ = flight[r].occ

CardsSound(c) == c \subseteq Card /\ \A x \in c : x.rev # 0

LEMMA MovesSame ==
  ASSUME NEW q \in Row, Spare(q)
  PROVE  Moves(q, q)
BY RowIs DEF Moves

LEMMA MovesRevised ==
  ASSUME NEW q \in Row, NEW p \in Row, p.rev = q.rev + 1, p.status # "processing", Spare(p)
  PROVE  Moves(q, p)
<1>1. q.rev \in Nat /\ p.rev \in Nat
  BY RowIs
<1>2. q.rev < p.rev /\ q.rev <= p.rev
  BY <1>1
<1>3. QED
  BY <1>2 DEF Moves

LEMMA StepKeeps ==
  ASSUME IInv, clock' \in Nat, clock <= clock', events' \in Nat,
         RowsMove, OccsSound(occ'), FlightsMove, CardsSound(cards'), CancelEndsFamily'
  PROVE  IInv'
<1>1. Types /\ Budget /\ Over /\ Stamps /\ Bound
  BY DEF IInv
<1>2. /\ row' \in [Ids' -> Row] /\ Ids \subseteq Ids' /\ Ids' \subseteq Nat
      /\ \A i \in Ids : Moves(row[i], row'[i])
      /\ \A i \in Ids' \ Ids : Spare(row'[i])
  BY DEF RowsMove
<1>3. /\ DOMAIN occ' \subseteq Ids \X Nat /\ IsFiniteSet(DOMAIN occ')
      /\ occ' \in [DOMAIN occ' -> Occurrence]
      /\ \A k \in DOMAIN occ' : occ'[k].msg <= occ'[k].rev /\ occ'[k].msg <= row[k[1]].rev
  BY DEF OccsSound
<1>4. /\ DOMAIN flight' \subseteq DOMAIN flight /\ flight' \in [DOMAIN flight' -> Flight]
      /\ \A r \in DOMAIN flight' : flight'[r].rev = flight[r].rev /\ flight'[r].occ = flight[r].occ
  BY DEF FlightsMove
<1>5. Root \in Ids /\ DOMAIN flight \subseteq Ids /\ clock \in Nat
  BY <1>1 DEF Types
<1>6. cards' \subseteq Card /\ \A c \in cards' : c.rev # 0
  BY DEF CardsSound
<1>7. Types'
  <2>1. DOMAIN occ' \subseteq Ids' \X Nat
    BY <1>2, <1>3
  <2>2. DOMAIN flight' \subseteq Ids' /\ Root \in Ids'
    BY <1>2, <1>4, <1>5
  <2>3. QED
    BY <1>2, <1>3, <1>4, <1>6, <2>1, <2>2 DEF Types
<1>8. Budget'
  <2>1. ASSUME NEW i \in Ids' PROVE Spare(row'[i])
    <3>1. CASE i \in Ids
      BY <1>2, <3>1 DEF Moves
    <3>2. CASE i \notin Ids
      BY <1>2, <3>2
    <3>3. QED
      BY <3>1, <3>2
  <2>2. QED
    BY <2>1 DEF Budget, Spare
<1>9. Over'
  <2>1. SUFFICES ASSUME row'[Root].state = "completed", row'[Root].rule = "relative"
                 PROVE  SeriesEnd < clock' + AfterDays
    BY DEF Over
  <2>2. (row[Root].state = "completed" /\ row[Root].rule = "relative") \/ NextRelative = Null
    BY <2>1 DEF RowsMove
  <2>3. SeriesEnd < clock + AfterDays
    BY <1>1, <2>2, NextRelativeIs DEF Over
  <2>4. SeriesEnd \in Nat /\ AfterDays \in Nat /\ clock \in Nat /\ clock' \in Nat /\ clock <= clock'
    BY <1>5, SettingsAre
  <2> DEFINE n == clock'
  <2>5. n \in Nat /\ clock <= n
    BY <2>4
  <2> HIDE DEF n
  <2>6. SeriesEnd < n + AfterDays
    BY <2>3, <2>4, <2>5
  <2>7. QED
    BY <2>6 DEF n
<1>10. \A i \in Ids : row[i].rev <= row'[i].rev /\ row[i].rev \in Nat /\ row'[i].rev \in Nat
  <2>1. SUFFICES ASSUME NEW i \in Ids
                 PROVE  row[i].rev <= row'[i].rev /\ row[i].rev \in Nat /\ row'[i].rev \in Nat
    OBVIOUS
  <2>2. row[i].rev <= row'[i].rev /\ row'[i] \in Row
    BY <1>2 DEF Moves
  <2>3. QED
    BY <1>1, <2>2, Rows, RowIs
<1>11. Stamps'
  <2>1. ASSUME NEW r \in DOMAIN flight'
        PROVE  flight'[r].rev # 0 /\ flight'[r].rev <= row'[r].rev
    <3>1. r \in DOMAIN flight /\ flight'[r].rev = flight[r].rev
      BY <1>4
    <3>2. flight[r].rev # 0 /\ flight[r].rev <= row[r].rev /\ flight[r].rev \in Nat /\ r \in Ids
      BY <1>1, <3>1, Flights DEF Stamps
    <3>3. row[r].rev <= row'[r].rev /\ row[r].rev \in Nat /\ row'[r].rev \in Nat
      BY <1>10, <3>2
    <3>4. QED
      BY <3>1, <3>2, <3>3
  <2>2. ASSUME NEW k \in DOMAIN occ'
        PROVE  occ'[k].msg <= occ'[k].rev /\ occ'[k].msg <= row'[k[1]].rev
    <3>1. /\ occ'[k].msg <= occ'[k].rev /\ occ'[k].msg <= row[k[1]].rev
          /\ k[1] \in Ids /\ occ'[k] \in Occurrence
      BY <1>3
    <3>2. occ'[k].msg \in Nat
      BY <3>1, OccurrenceIs
    <3>3. row[k[1]].rev <= row'[k[1]].rev /\ row[k[1]].rev \in Nat /\ row'[k[1]].rev \in Nat
      BY <1>10, <3>1
    <3>4. QED
      BY <3>1, <3>2, <3>3
  <2>3. QED
    BY <1>6, <2>1, <2>2 DEF Stamps
<1>12. Bound'
  <2>1. SUFFICES ASSUME NEW r \in DOMAIN flight', row'[r].status = "processing",
                        row'[r].state \in Live
                 PROVE  row'[r].remindAt = flight'[r].occ
    BY DEF Bound, Owns
  <2>2. r \in DOMAIN flight /\ r \in Ids /\ flight'[r].occ = flight[r].occ
    BY <1>4, <1>5
  <2>3. row[r].status = "processing" /\ row'[r].remindAt = row[r].remindAt /\ row[r].state \in Live
    BY <1>2, <2>1, <2>2 DEF Moves
  <2>4. row[r].remindAt = flight[r].occ
    BY <1>1, <2>2, <2>3 DEF Bound, Owns
  <2>5. QED
    BY <2>2, <2>3, <2>4
<1>13. QED
  BY <1>7, <1>8, <1>9, <1>11, <1>12 DEF IInv

\* A series that is not cancelled asks nothing of its children.
LEMMA FamilyAlive ==
  ASSUME row'[Root].state # "cancelled"
  PROVE  CancelEndsFamily'
BY DEF CancelEndsFamily

\* One row moves.
LEMMA OneMoves ==
  ASSUME Types, Budget, NEW r \in Ids, NEW p, Moves(row[r], p), row' = [row EXCEPT ![r] = p],
         r = Root /\ p.state = "completed" /\ p.rule = "relative" =>
           (row[r].state = "completed" /\ row[r].rule = "relative") \/ NextRelative = Null
  PROVE  /\ RowsMove /\ Ids' = Ids /\ row'[r] = p /\ \A i \in Ids : i # r => row'[i] = row[i]
<1>1. row \in [Ids -> Row] /\ Root \in Ids /\ Ids \subseteq Nat
  BY DEF Types
<1>2. p \in Row
  BY DEF Moves
<1>3. /\ Ids' = Ids /\ row' \in [Ids -> Row] /\ row'[r] = p
      /\ \A i \in Ids : i # r => row'[i] = row[i]
  BY <1>1, <1>2 DEF Ids
<1>4. ASSUME NEW i \in Ids PROVE Moves(row[i], row'[i])
  <2>1. CASE i = r
    BY <1>3, <2>1
  <2>2. CASE i # r
    BY <1>1, <1>3, <2>2, MovesSame DEF Budget
  <2>3. QED
    BY <2>1, <2>2
<1>5. row'[Root].state = "completed" /\ row'[Root].rule = "relative" =>
        (row[Root].state = "completed" /\ row[Root].rule = "relative") \/ NextRelative = Null
  BY <1>1, <1>3
<1>6. QED
  BY <1>1, <1>3, <1>4, <1>5 DEF RowsMove

\* No row moves.
LEMMA NoneMoves ==
  ASSUME Types, Budget, row' = row
  PROVE  /\ RowsMove /\ Ids' = Ids /\ \A i \in Ids : row'[i] = row[i]
         /\ \A i \in Ids : Keeps(row[i], row'[i])
<1>1. row \in [Ids -> Row] /\ Ids' = Ids /\ Ids \subseteq Nat
  BY DEF Types, Ids
<1>2. \A i \in Ids : Moves(row[i], row'[i])
  BY <1>1, MovesSame DEF Budget
<1>3. QED
  BY <1>1, <1>2 DEF RowsMove, Keeps

\* The occurrences stay the same ones, with their messages.
LEMMA OccsKept ==
  ASSUME Types, Stamps, occ' \in [DOMAIN occ -> Occurrence],
         \A k \in DOMAIN occ :
            /\ occ'[k].msg \in {occ[k].msg, Null}
            /\ occ[k].rev <= occ'[k].rev \/ row[k[1]].rev <= occ'[k].rev
  PROVE  OccsSound(occ') /\ DOMAIN occ' = DOMAIN occ
<1>1. DOMAIN occ' = DOMAIN occ
  OBVIOUS
<1>2. ASSUME NEW k \in DOMAIN occ
      PROVE  occ'[k].msg <= occ'[k].rev /\ occ'[k].msg <= row[k[1]].rev
  <2>1. /\ occ[k].msg \in Nat /\ occ[k].rev \in Nat /\ row[k[1]].rev \in Nat
    BY Occs, Rows
  <2>2. occ'[k].rev \in Nat
    BY OccurrenceIs
  <2>3. occ[k].msg <= occ[k].rev /\ occ[k].msg <= row[k[1]].rev
    BY DEF Stamps
  <2>4. QED
    BY <2>1, <2>2, <2>3 DEF Null
<1>3. QED
  BY <1>1, <1>2 DEF OccsSound, Types

LEMMA SettleIs ==
  ASSUME NEW o \in Occurrence, NEW s \in {"snoozed", "completed", "cancelled"}
  PROVE  /\ Settle(o, s) \in Occurrence /\ Settle(o, s).status = s
         /\ Settle(o, s).msg = o.msg /\ Settle(o, s).rev = o.rev + 1
         /\ o.rev <= Settle(o, s).rev
<1> DEFINE n == o.rev + 1
<1>1. n \in Nat /\ o.rev <= n
  BY OccurrenceIs
<1>2. Settle(o, s) = [o EXCEPT !.status = s, !.rev = n]
  BY DEF Settle
<1> HIDE DEF n
<1>3. /\ Settle(o, s) \in Occurrence /\ Settle(o, s).status = s /\ Settle(o, s).msg = o.msg
      /\ Settle(o, s).rev = n
  BY <1>1, <1>2 DEF Occurrence
<1>4. QED
  BY <1>1, <1>3 DEF n

-----------------------------------------------------------------------------
(* The families of rows                                                    *)

\* The steps of the action properties.
Settled ==
  \A r \in Ids : row[r].state \in Terminal =>
    \/ row'[r].state = row[r].state
    \/ r # Root /\ events' # events /\ Paired(r)'

PairsEnd ==
  \A r \in Ids \ {Root} : Paired(r) =>
    \/ Paired(r)'
    \/ row'[r].state \in Terminal /\ occ'[<<Root, r>>].status \in Terminal
    \/ Root \in DOMAIN flight /\ flight[Root].occ = r

SnoozesStay ==
  \A i \in Ids \ {Root} : HasOcc(Root, i) /\ occ[<<Root, i>>].status = "snoozed" =>
    \/ <<Root, i>> \in DOMAIN occ' /\ occ'[<<Root, i>>].status = "snoozed"
    \/ Root \in DOMAIN flight /\ flight[Root].occ = i

\* A step of one row that was not settled.
LEMMA OneRow ==
  ASSUME Types, CancelEndsFamily, NEW r \in Ids, NEW p, row[r].state \notin Terminal,
         row' = [row EXCEPT ![r] = p],
         p.state = "cancelled" => r # Root,
         p.state \in Terminal /\ r # Root => ~Paired(r),
         SnoozesStay
  PROVE  CancelEndsFamily' /\ Settled /\ PairsEnd
<1>1. row \in [Ids -> Row] /\ Root \in Ids
  BY DEF Types
<1>2. Ids' = Ids /\ row'[r] = p /\ \A i \in Ids : i # r => row'[i] = row[i]
  BY <1>1 DEF Ids
<1>3. row[Root].state # "cancelled"
  BY DEF CancelEndsFamily
<1>4. row'[Root].state # "cancelled"
  BY <1>1, <1>2, <1>3
<1>5. CancelEndsFamily'
  BY <1>4, FamilyAlive
<1>6. Settled
  BY <1>2 DEF Settled
<1>7. PairsEnd
  <2>1. SUFFICES ASSUME NEW i \in Ids \ {Root}, Paired(i),
                        ~(Root \in DOMAIN flight /\ flight[Root].occ = i)
                 PROVE  Paired(i)'
    BY DEF PairsEnd
  <2>2. row'[i].state \notin Terminal
    <3>1. CASE i = r
      BY <1>2, <2>1, <3>1
    <3>2. CASE i # r
      BY <1>2, <2>1, <3>2 DEF Paired
    <3>3. QED
      BY <3>1, <3>2
  <2>3. HasOcc(Root, i) /\ occ[<<Root, i>>].status = "snoozed"
    BY <2>1 DEF Paired
  <2>4. <<Root, i>> \in DOMAIN occ' /\ occ'[<<Root, i>>].status = "snoozed"
    BY <2>1, <2>3 DEF SnoozesStay
  <2>5. QED
    BY <2>2, <2>4 DEF Paired, HasOcc
<1>8. QED
  BY <1>5, <1>6, <1>7

\* No row changes.
LEMMA NoRow ==
  ASSUME Types, CancelEndsFamily, row' = row, SnoozesStay
  PROVE  CancelEndsFamily' /\ Settled /\ PairsEnd
<1>1. Ids' = Ids /\ CancelEndsFamily' /\ Settled
  BY DEF CancelEndsFamily, Settled, Ids
<1>2. PairsEnd
  <2>1. SUFFICES ASSUME NEW i \in Ids \ {Root}, Paired(i),
                        ~(Root \in DOMAIN flight /\ flight[Root].occ = i)
                 PROVE  Paired(i)'
    BY DEF PairsEnd
  <2>2. row'[i].state \notin Terminal /\ HasOcc(Root, i) /\ occ[<<Root, i>>].status = "snoozed"
    BY <2>1 DEF Paired
  <2>3. <<Root, i>> \in DOMAIN occ' /\ occ'[<<Root, i>>].status = "snoozed"
    BY <2>1, <2>2 DEF SnoozesStay
  <2>4. QED
    BY <2>2, <2>3 DEF Paired, HasOcc
<1>3. QED
  BY <1>1, <1>2

LEMMA SameOccsStay ==
  ASSUME DOMAIN occ' = DOMAIN occ,
         \A k \in DOMAIN occ : occ[k].status = "snoozed" => occ'[k].status = "snoozed"
  PROVE  SnoozesStay
BY DEF SnoozesStay, HasOcc

LEMMA SameOccsSound ==
  ASSUME Types, Stamps, occ' = occ
  PROVE  OccsSound(occ') /\ SnoozesStay
<1>1. DOMAIN occ' = DOMAIN occ
  OBVIOUS
<1>2. OccsSound(occ')
  BY DEF OccsSound, Types, Stamps
<1>3. QED
  BY <1>1, <1>2, SameOccsStay

-----------------------------------------------------------------------------
(* The user's actions                                                      *)

\* What every one of them does.
UserKeeps == RowsMove /\ OccsSound(occ') /\ CancelEndsFamily' /\ Settled /\ PairsEnd

LEMMA PressIs ==
  ASSUME Types, NEW r \in Ids, NEW t, Press(r, t)
  PROVE  /\ row[r].state \notin Terminal /\ row[r].status # "processing"
         /\ events' = events + 1 /\ clock' = clock /\ flight' = flight /\ cards' = cards
         /\ t # Null => IsCurrent(r, t)
<1>1. /\ IF t = Null THEN PressRow(r) ELSE PressOccurrence(r, t)
      /\ events' = events + 1 /\ clock' = clock /\ flight' = flight /\ cards' = cards
  BY DEF Press, CountEvent
<1>2. CASE t = Null
  <2>1. Listed(r)
    BY <1>1, <1>2 DEF PressRow
  <2>2. QED
    BY <1>1, <1>2, <2>1 DEF Listed, Active, Live, Terminal
<1>3. CASE t # Null
  <2>1. IsCurrent(r, t)
    BY <1>1, <1>3 DEF PressOccurrence
  <2>2. QED
    BY <1>1, <1>3, <2>1 DEF IsCurrent
<1>4. QED
  BY <1>2, <1>3

\* A press that leaves its row alive.
LEMMA PressKeeps ==
  ASSUME IInv, NEW r \in Ids, NEW p, row[r].state \notin Terminal,
         row[r].status # "processing",
         p \in Row, p.rev = row[r].rev + 1, p.status # "processing", Spare(p),
         p.state \notin Terminal, row' = [row EXCEPT ![r] = p],
         OccsSound(occ'), SnoozesStay
  PROVE  UserKeeps
<1>1. Types /\ Budget /\ CancelEndsFamily
  BY DEF IInv
<1>2. row[r] \in Row
  BY <1>1, Rows
<1>3. Moves(row[r], p)
  BY <1>2, MovesRevised
<1>4. p.state # "completed" /\ p.state # "cancelled"
  BY DEF Terminal
<1>5. RowsMove
  BY <1>1, <1>3, <1>4, OneMoves
<1>6. CancelEndsFamily' /\ Settled /\ PairsEnd
  BY <1>1, <1>4, OneRow
<1>7. QED
  BY <1>5, <1>6 DEF UserKeeps

\* An occurrence whose revision alone changes.
LEMMA RevisedOcc ==
  ASSUME Types, Stamps, NEW k, NEW n \in Nat,
         k \in DOMAIN occ => occ[k].rev <= n \/ row[k[1]].rev <= n,
         occ' = [occ EXCEPT ![k].rev = n]
  PROVE  OccsSound(occ') /\ SnoozesStay
<1>1. occ \in [DOMAIN occ -> Occurrence]
  BY DEF Types
<1>2. ASSUME NEW j \in DOMAIN occ
      PROVE  /\ occ'[j] \in Occurrence /\ occ'[j].msg = occ[j].msg
             /\ occ'[j].status = occ[j].status
             /\ occ[j].rev <= occ'[j].rev \/ row[j[1]].rev <= occ'[j].rev
  <2>1. occ[j] \in Occurrence /\ occ[j].rev \in Nat
    BY Occs
  <2>2. CASE j = k
    <3> DEFINE o == occ[k]
    <3>1. occ'[j] = [o EXCEPT !.rev = n] /\ o \in Occurrence
      BY <1>1, <2>1, <2>2
    <3>2. o.rev <= n \/ row[k[1]].rev <= n
      BY <2>2
    <3> HIDE DEF o
    <3>3. /\ occ'[j] \in Occurrence /\ occ'[j].msg = o.msg /\ occ'[j].status = o.status
          /\ occ'[j].rev = n
      BY <3>1 DEF Occurrence
    <3>4. QED
      BY <2>2, <3>2, <3>3 DEF o
  <2>3. CASE j # k
    <3>1. occ'[j] = occ[j]
      BY <1>1, <2>3
    <3>2. QED
      BY <2>1, <3>1
  <2>4. QED
    BY <2>2, <2>3
<1>3. DOMAIN occ' = DOMAIN occ /\ occ' = [j \in DOMAIN occ |-> occ'[j]]
  OBVIOUS
<1>4. occ' \in [DOMAIN occ -> Occurrence]
  BY <1>2, <1>3
<1>5. OccsSound(occ')
  BY <1>2, <1>4, OccsKept
<1>6. QED
  BY <1>2, <1>3, <1>5, SameOccsStay

\* Occurrences that are settled together.
LEMMA SettledOccs ==
  ASSUME Types, Stamps, NEW gone, NEW s \in {"snoozed", "completed", "cancelled"},
         occ' = [j \in DOMAIN occ |-> IF j \in gone THEN Settle(occ[j], s) ELSE occ[j]]
  PROVE  /\ OccsSound(occ') /\ DOMAIN occ' = DOMAIN occ
         /\ \A j \in DOMAIN occ :
              /\ j \in gone => occ'[j].status = s
              /\ j \notin gone => occ'[j] = occ[j]
<1>1. ASSUME NEW j \in DOMAIN occ
      PROVE  /\ occ'[j] \in Occurrence /\ occ'[j].msg = occ[j].msg
             /\ occ[j].rev <= occ'[j].rev
             /\ j \in gone => occ'[j].status = s
             /\ j \notin gone => occ'[j] = occ[j]
  <2>1. occ[j] \in Occurrence /\ occ[j].rev \in Nat
    BY Occs
  <2>2. CASE j \in gone
    BY <2>1, <2>2, SettleIs
  <2>3. CASE j \notin gone
    BY <2>1, <2>3
  <2>4. QED
    BY <2>2, <2>3
<1>2. occ' \in [DOMAIN occ -> Occurrence]
  BY <1>1
<1>3. OccsSound(occ') /\ DOMAIN occ' = DOMAIN occ
  BY <1>1, <1>2, OccsKept
<1>4. QED
  BY <1>1, <1>3

LEMMA EditTextKeeps ==
  ASSUME IInv, NEW r \in Ids, NEW t, EditText(r, t)
  PROVE  UserKeeps
<1>1. Types /\ Stamps /\ Budget
  BY DEF IInv
<1>2. Press(r, t)
  BY DEF EditText
<1>3. /\ row[r].state \notin Terminal /\ row[r].status # "processing"
  BY <1>1, <1>2, PressIs
<1> DEFINE v == Revise(row[r])
<1>4. /\ row' = [row EXCEPT ![r] =
                  [v EXCEPT !.status = IF v.state = "delivered" THEN "sent" ELSE "pending",
                            !.attempts = 0]]
      /\ occ' = IF t = Null THEN occ ELSE [occ EXCEPT ![<<r, t>>].rev = v.rev]
  BY DEF EditText, SetRow
<1>5. row[r] \in Row /\ row[r].rev \in Nat
  BY <1>1, Rows
<1>6. v \in Row /\ v.rev = row[r].rev + 1 /\ v.state = row[r].state
  BY <1>5, ReviseIs
<1> HIDE DEF v
<1> DEFINE s == IF v.state = "delivered" THEN "sent" ELSE "pending"
           p == [v EXCEPT !.status = s, !.attempts = 0]
<1>7. s \in {"sent", "pending"}
  OBVIOUS
<1>8. row' = [row EXCEPT ![r] = p]
  BY <1>4
<1> HIDE DEF s
<1>9. p \in Row /\ p.rev = v.rev /\ p.status = s /\ p.attempts = 0 /\ p.state = v.state
  BY <1>6, <1>7 DEF Row
<1> HIDE DEF p
<1>10. /\ p.rev = row[r].rev + 1 /\ p.status # "processing" /\ Spare(p)
       /\ p.state \notin Terminal
  BY <1>3, <1>6, <1>7, <1>9, SettingsAre DEF Spare
<1>11. OccsSound(occ') /\ SnoozesStay
  <2>1. CASE t = Null
    BY <1>1, <1>4, <2>1, SameOccsSound
  <2>2. CASE t # Null
    <3> DEFINE k == <<r, t>>
    <3>1. occ' = [occ EXCEPT ![k].rev = v.rev]
      BY <1>4, <2>2
    <3>2. v.rev \in Nat /\ row[k[1]].rev <= v.rev
      BY <1>5, <1>6
    <3> HIDE DEF k
    <3>3. QED
      BY <1>1, <3>1, <3>2, RevisedOcc
  <2>3. QED
    BY <2>1, <2>2
<1>12. QED
  BY <1>3, <1>8, <1>9, <1>10, <1>11, PressKeeps

LEMMA EditScheduleKeeps ==
  ASSUME IInv, NEW r \in Ids, NEW t, NEW rule \in EditRules, NEW target \in Nat,
         EditSchedule(r, t, rule, target)
  PROVE  UserKeeps /\ row'[r].lastMsg = Null
<1>1. Types /\ Stamps
  BY DEF IInv
<1>2. Press(r, t)
  BY DEF EditSchedule
<1>3. /\ row[r].state \notin Terminal /\ row[r].status # "processing"
  BY <1>1, <1>2, PressIs
<1>4. row[r] \in Row /\ row[r].rev \in Nat
  BY <1>1, Rows
<1> DEFINE v == Rescheduled(Revise(row[r]), target)
           p == [v EXCEPT !.rule = rule]
<1>5. row' = [row EXCEPT ![r] = p] /\ occ' = occ
  BY DEF EditSchedule, SetRow
<1>6. /\ v \in Row /\ v.rev = row[r].rev + 1 /\ v.state = "scheduled" /\ v.status = "pending"
      /\ v.attempts = 0 /\ v.lastMsg = Null
  <2>1. Revise(row[r]) \in Row /\ Revise(row[r]).rev = row[r].rev + 1
    BY <1>4, ReviseIs
  <2>2. QED
    BY <2>1, RescheduledIs
<1> HIDE DEF v
<1>7. rule \in {"none", "fixed", "relative"}
  BY SettingsAre
<1>8. /\ p \in Row /\ p.rev = v.rev /\ p.state = "scheduled" /\ p.status = "pending"
      /\ p.attempts = 0 /\ p.lastMsg = Null
  BY <1>6, <1>7 DEF Row
<1> HIDE DEF p
<1>9. Spare(p) /\ p.state \notin Terminal /\ p.rev = row[r].rev + 1
  BY <1>6, <1>8, SettingsAre DEF Spare, Terminal
<1>10. OccsSound(occ') /\ SnoozesStay
  BY <1>1, <1>5, SameOccsSound
<1>11. row'[r].lastMsg = Null
  BY <1>1, <1>5, <1>8 DEF Types
<1>12. QED
  BY <1>3, <1>5, <1>8, <1>9, <1>10, <1>11, PressKeeps

LEMMA PauseKeeps ==
  ASSUME IInv, NEW r \in Ids, NEW t, Pause(r, t)
  PROVE  UserKeeps
<1>1. Types /\ Stamps /\ Budget
  BY DEF IInv
<1>2. Press(r, t)
  BY DEF Pause
<1>3. /\ row[r].state \notin Terminal /\ row[r].status # "processing"
  BY <1>1, <1>2, PressIs
<1>4. row[r] \in Row /\ row[r].rev \in Nat /\ row[r].remindAt \in Nat
  BY <1>1, Rows, RowIs
<1> DEFINE v == Revise(row[r])
           at == row[r].remindAt
           p == [v EXCEPT !.state = "paused", !.deliverAt = at]
<1>5. /\ row' = [row EXCEPT ![r] = p]
      /\ occ' = IF t = Null THEN occ ELSE [occ EXCEPT ![<<r, t>>].rev = @ + 1]
  BY DEF Pause, SetRow
<1>6. /\ v \in Row /\ v.rev = row[r].rev + 1 /\ v.status = row[r].status
      /\ v.attempts = row[r].attempts /\ at \in Nat
  BY <1>4, ReviseIs
<1> HIDE DEF v, at
<1>7. /\ p \in Row /\ p.rev = v.rev /\ p.state = "paused" /\ p.status = v.status
      /\ p.attempts = v.attempts
  BY <1>6 DEF Row, Active
<1> HIDE DEF p
<1>8. /\ p.rev = row[r].rev + 1 /\ p.status # "processing" /\ Spare(p)
      /\ p.state \notin Terminal
  BY <1>1, <1>3, <1>6, <1>7 DEF Spare, Terminal, Budget
<1>9. OccsSound(occ') /\ SnoozesStay
  <2>1. CASE t = Null
    BY <1>1, <1>5, <2>1, SameOccsSound
  <2>2. CASE t # Null
    <3>1. IsCurrent(r, t)
      BY <1>1, <1>2, <2>2, PressIs
    <3> DEFINE k == <<r, t>>
               n == occ[k].rev + 1
    <3>2. k \in DOMAIN occ
      BY <3>1 DEF IsCurrent, HasOcc
    <3>3. occ' = [occ EXCEPT ![k].rev = n]
      BY <1>5, <2>2
    <3>4. n \in Nat /\ occ[k].rev <= n
      BY <1>1, <3>2, Occs
    <3> HIDE DEF k, n
    <3>5. QED
      BY <1>1, <3>3, <3>4, RevisedOcc
  <2>3. QED
    BY <2>1, <2>2
<1>10. QED
  BY <1>3, <1>5, <1>7, <1>8, <1>9, PressKeeps

LEMMA ResumeKeeps ==
  ASSUME IInv, NEW r \in Ids, Resume(r)
  PROVE  UserKeeps
<1>1. Types /\ Stamps /\ Budget
  BY DEF IInv
<1>2. Press(r, Null)
  BY DEF Resume
<1>3. /\ row[r].state \notin Terminal /\ row[r].status # "processing"
  BY <1>1, <1>2, PressIs
<1>4. row[r] \in Row /\ row[r].rev \in Nat /\ row[r].remindAt \in Nat /\ clock \in Nat
  BY <1>1, Rows, RowIs DEF Types
<1> DEFINE v == Revise(row[r])
           waiting == IF v.rule = "relative" THEN WaitingOccurrence(r) ELSE {}
           next == IF v.rule = "relative" THEN Larger(v.remindAt, clock)
                                          ELSE AdvanceFixed(v.remindAt)
           p == [v EXCEPT !.state = "delivered", !.status = "sent", !.deliverAt = Null]
<1>5. \/ \E t \in waiting : row' = [row EXCEPT ![r] = p] /\ occ' = [occ EXCEPT ![<<r, t>>].rev = v.rev]
      \/ row' = [row EXCEPT ![r] = Rescheduled(v, next)] /\ occ' = occ
  BY DEF Resume, SetRow
<1>6. v \in Row /\ v.rev = row[r].rev + 1 /\ v.remindAt \in Nat
  BY <1>4, ReviseIs
<1> HIDE DEF v
<1>7. next \in Nat
  BY <1>4, <1>6, LargerIs, AdvanceFixedIs
<1> HIDE DEF next, waiting
<1>8. CASE \E t \in waiting : row' = [row EXCEPT ![r] = p] /\ occ' = [occ EXCEPT ![<<r, t>>].rev = v.rev]
  <2>1. PICK t \in waiting : row' = [row EXCEPT ![r] = p] /\ occ' = [occ EXCEPT ![<<r, t>>].rev = v.rev]
    BY <1>8
  <2>2. p \in Row /\ p.rev = v.rev /\ p.state = "delivered" /\ p.status = "sent"
    BY <1>6 DEF Row, Active, Null
  <2> HIDE DEF p
  <2>3. /\ p.rev = row[r].rev + 1 /\ p.status # "processing" /\ Spare(p)
        /\ p.state \notin Terminal
    BY <1>6, <2>2 DEF Spare, Terminal
  <2> DEFINE k == <<r, t>>
  <2>4. row[k[1]].rev <= v.rev /\ v.rev \in Nat
    BY <1>4, <1>6
  <2>5. occ' = [occ EXCEPT ![k].rev = v.rev]
    BY <2>1
  <2> HIDE DEF k
  <2>6. OccsSound(occ') /\ SnoozesStay
    BY <1>1, <2>4, <2>5, RevisedOcc
  <2>7. QED
    BY <1>3, <2>1, <2>2, <2>3, <2>6, PressKeeps
<1>9. CASE row' = [row EXCEPT ![r] = Rescheduled(v, next)] /\ occ' = occ
  <2> DEFINE o == Rescheduled(v, next)
  <2>1. o \in Row /\ o.rev = v.rev /\ o.state = "scheduled" /\ o.status = "pending" /\ o.attempts = 0
    BY <1>6, <1>7, RescheduledIs
  <2>2. row' = [row EXCEPT ![r] = o]
    BY <1>9
  <2> HIDE DEF o
  <2>3. /\ o.rev = row[r].rev + 1 /\ o.status # "processing" /\ Spare(o)
        /\ o.state \notin Terminal
    BY <1>6, <2>1, SettingsAre DEF Spare, Terminal
  <2>4. OccsSound(occ') /\ SnoozesStay
    BY <1>1, <1>9, SameOccsSound
  <2>5. QED
    BY <1>3, <2>1, <2>2, <2>3, <2>4, PressKeeps
<1>10. QED
  BY <1>5, <1>8, <1>9

\* Snoozing an occurrence of a series: the root moves on, and the child that
\* stands for the occurrence is made or revived.
LEMMA SnoozeFamilyKeeps ==
  ASSUME IInv, NEW t, NEW target \in Nat, t # Null, Press(Root, t),
         occ' = [occ EXCEPT ![<<Root, t>>] = Settle(@, "snoozed")],
         row' = [Put(row, t, SnoozeChild(t, target))
                   EXCEPT ![Root] = ClearIdentity(Revise(@))]
  PROVE  UserKeeps /\ row'[Root].lastMsg = Null
<1>1. Types /\ Stamps /\ Budget
  BY DEF IInv
<1>2. Root \in Ids /\ Ids \subseteq Nat /\ row \in [Ids -> Row] /\ events \in Nat
  BY <1>1 DEF Types
<1>3. /\ row[Root].state \notin Terminal /\ row[Root].status # "processing"
      /\ events' = events + 1 /\ IsCurrent(Root, t)
  BY <1>1, <1>2, PressIs
<1>4. <<Root, t>> \in DOMAIN occ
  BY <1>3 DEF IsCurrent, HasOcc
<1>5. t \in Nat /\ t # Root
  BY <1>1, <1>4 DEF Types, Root, Null
<1> DEFINE c == SnoozeChild(t, target)
           q == ClearIdentity(Revise(row[Root]))
<1>6. /\ q \in Row /\ q.state = row[Root].state /\ q.status = row[Root].status
      /\ q.rev = row[Root].rev + 1 /\ q.attempts = row[Root].attempts /\ q.lastMsg = Null
  <2>1. row[Root] \in Row
    BY <1>1, <1>2, Rows
  <2>2. QED
    BY <2>1, ReviseIs, ClearIs
<1>7. c \in Row /\ c.state = "snoozed" /\ c.status = "pending" /\ c.attempts = 0
  <2>1. CASE t \in Ids
    <3>1. row[t] \in Row /\ c = SnoozedAgain(row[t], target)
      BY <1>2, <2>1 DEF SnoozeChild, SnoozedAgain
    <3>2. QED
      BY <3>1, SnoozedAgainIs
  <2>2. CASE t \notin Ids
    <3>1. c = NewRow("none", "snoozed", target)
      BY <2>2 DEF SnoozeChild
    <3>2. QED
      BY <3>1, NewRowIs DEF Live
  <2>3. QED
    BY <2>1, <2>2
<1>8. t \in Ids => c.rev = row[t].rev + 1 /\ row[t] \in Row
  <2>1. SUFFICES ASSUME t \in Ids PROVE c.rev = row[t].rev + 1 /\ row[t] \in Row
    OBVIOUS
  <2>2. row[t] \in Row /\ c = SnoozedAgain(row[t], target)
    BY <1>2, <2>1 DEF SnoozeChild, SnoozedAgain
  <2> HIDE DEF c
  <2>3. SnoozedAgain(row[t], target).rev = row[t].rev + 1
    BY <2>2, SnoozedAgainIs
  <2>4. QED
    BY <2>2, <2>3
<1>9. /\ Ids' = Ids \cup {t} /\ row'[Root] = q /\ row'[t] = c
      /\ \A i \in Ids : i # Root /\ i # t => row'[i] = row[i]
      /\ row' = [i \in Ids \cup {t} |-> row'[i]]
  <2> DEFINE f == Put(row, t, c)
  <2>1. f = [x \in Ids \cup {t} |-> IF x = t THEN c ELSE row[x]]
    BY DEF Put, Ids
  <2>2. row' = [f EXCEPT ![Root] = ClearIdentity(Revise(@))]
    OBVIOUS
  <2> HIDE DEF c
  <2>3. DOMAIN f = Ids \cup {t} /\ f[Root] = row[Root] /\ f[t] = c
    BY <1>2, <1>5, <2>1
  <2>4. \A i \in Ids : i # Root /\ i # t => f[i] = row[i]
    BY <2>1
  <2>a. row' = [x \in Ids \cup {t} |-> IF x = Root THEN q ELSE f[x]]
    <3> HIDE DEF f
    <3>1. QED
      BY <2>2, <2>3
  <2> HIDE DEF f, q
  <2>5. QED
    BY <1>2, <1>5, <2>3, <2>4, <2>a DEF Ids
<1> HIDE DEF q, c
<1>10. \A i \in Ids' : row'[i] \in Row
  BY <1>2, <1>6, <1>7, <1>9
<1>11. Spare(q) /\ Spare(c)
  BY <1>1, <1>2, <1>6, <1>7, SettingsAre DEF Spare, Budget
<1>12. ASSUME NEW i \in Ids PROVE Moves(row[i], row'[i])
  <2>1. CASE i = Root
    BY <1>1, <1>2, <1>3, <1>6, <1>9, <1>11, <2>1, MovesRevised, Rows
  <2>2. CASE i = t
    BY <1>7, <1>8, <1>9, <1>11, <2>2, MovesRevised
  <2>3. CASE i # Root /\ i # t
    BY <1>1, <1>2, <1>9, <2>3, MovesSame DEF Budget
  <2>4. QED
    BY <2>1, <2>2, <2>3
<1>13. row'[Root].state # "completed" /\ row'[Root].state # "cancelled"
  BY <1>3, <1>6, <1>9 DEF Terminal
<1>14. row' \in [Ids' -> Row] /\ Ids \subseteq Ids' /\ Ids' \subseteq Nat
  BY <1>2, <1>5, <1>9, <1>10
<1>15. RowsMove
  <2>1. \A i \in Ids' \ Ids : Spare(row'[i])
    BY <1>9, <1>11
  <2>2. QED
    BY <1>12, <1>13, <1>14, <2>1 DEF RowsMove
<1>16. /\ OccsSound(occ') /\ DOMAIN occ' = DOMAIN occ
       /\ \A j \in DOMAIN occ :
            /\ j = <<Root, t>> => occ'[j].status = "snoozed"
            /\ j # <<Root, t>> => occ'[j] = occ[j]
  <2> DEFINE gone == {<<Root, t>>}
  <2>1. occ' = [j \in DOMAIN occ |-> IF j \in gone THEN Settle(occ[j], "snoozed") ELSE occ[j]]
    BY <1>1 DEF Types
  <2>2. \A j : j \in gone <=> j = <<Root, t>>
    OBVIOUS
  <2> HIDE DEF gone
  <2>3. QED
    BY <1>1, <2>1, <2>2, SettledOccs
<1>17. Paired(t)'
  <2>1. row'[t].state \notin Terminal
    BY <1>7, <1>9 DEF Terminal
  <2>2. <<Root, t>> \in DOMAIN occ' /\ occ'[<<Root, t>>].status = "snoozed"
    BY <1>4, <1>16
  <2>3. QED
    BY <2>1, <2>2 DEF Paired, HasOcc
<1>18. Settled
  <2>1. SUFFICES ASSUME NEW i \in Ids, row[i].state \in Terminal
                 PROVE  \/ row'[i].state = row[i].state
                        \/ i # Root /\ events' # events /\ Paired(i)'
    BY DEF Settled
  <2>2. events' # events
    BY <1>2, <1>3
  <2>3. QED
    BY <1>3, <1>5, <1>9, <1>17, <2>1, <2>2
<1>19. PairsEnd
  <2>1. SUFFICES ASSUME NEW i \in Ids \ {Root}, Paired(i) PROVE Paired(i)'
    BY DEF PairsEnd
  <2>2. CASE i = t
    BY <1>17, <2>2
  <2>3. CASE i # t
    <3>1. row[i].state \notin Terminal /\ <<Root, i>> \in DOMAIN occ
          /\ occ[<<Root, i>>].status = "snoozed"
      BY <2>1 DEF Paired, HasOcc
    <3>2. row'[i] = row[i]
      BY <1>9, <2>1, <2>3
    <3>3. <<Root, i>> \in DOMAIN occ' /\ occ'[<<Root, i>>].status = "snoozed"
      BY <1>16, <3>1
    <3>4. QED
      BY <3>1, <3>2, <3>3 DEF Paired, HasOcc
  <2>4. QED
    BY <2>2, <2>3
<1>20. CancelEndsFamily'
  BY <1>13, FamilyAlive
<1>21. QED
  BY <1>6, <1>9, <1>15, <1>16, <1>18, <1>19, <1>20 DEF UserKeeps

LEMMA SnoozeKeeps ==
  ASSUME IInv, NEW r \in Ids, NEW t, NEW target \in Nat, Snooze(r, t, target)
  PROVE  UserKeeps /\ row'[r].lastMsg = Null
<1>1. Types /\ Stamps
  BY DEF IInv
<1>2. Press(r, t)
  BY DEF Snooze
<1>3. /\ row[r].state \notin Terminal /\ row[r].status # "processing"
  BY <1>1, <1>2, PressIs
<1>4. occ' = IF t = Null THEN occ ELSE [occ EXCEPT ![<<r, t>>] = Settle(@, "snoozed")]
  BY DEF Snooze
<1>5. CASE r = Root /\ t # Null /\ row[r].rule # "none"
  <2>1. row' = [Put(row, t, SnoozeChild(t, target)) EXCEPT ![Root] = ClearIdentity(Revise(@))]
    BY <1>5 DEF Snooze
  <2>2. QED
    BY <1>2, <1>4, <1>5, <2>1, SnoozeFamilyKeeps
<1>6. CASE ~(r = Root /\ t # Null /\ row[r].rule # "none")
  <2> DEFINE p == Snoozed(row[r], target)
  <2>1. row' = [row EXCEPT ![r] = p]
    BY <1>6 DEF Snooze
  <2>2. /\ p \in Row /\ p.rev = row[r].rev + 1 /\ p.state = "snoozed" /\ p.status = "pending"
        /\ p.attempts = 0 /\ p.lastMsg = Null
    BY <1>1, Rows, SnoozedIs
  <2> HIDE DEF p
  <2>3. Spare(p) /\ p.state \notin Terminal
    BY <2>2, SettingsAre DEF Spare, Terminal
  <2>4. OccsSound(occ') /\ SnoozesStay
    <3>1. CASE t = Null
      BY <1>1, <1>4, <3>1, SameOccsSound
    <3>2. CASE t # Null
      <4> DEFINE gone == {<<r, t>>}
      <4>1. occ' = [j \in DOMAIN occ |-> IF j \in gone THEN Settle(occ[j], "snoozed") ELSE occ[j]]
        BY <1>1, <1>4, <3>2 DEF Types
      <4> HIDE DEF gone
      <4>2. /\ OccsSound(occ') /\ DOMAIN occ' = DOMAIN occ
            /\ \A j \in DOMAIN occ :
                 /\ j \in gone => occ'[j].status = "snoozed"
                 /\ j \notin gone => occ'[j] = occ[j]
        BY <1>1, <4>1, SettledOccs
      <4>3. QED
        BY <4>2, SameOccsStay
    <3>3. QED
      BY <3>1, <3>2
  <2>5. row'[r].lastMsg = Null
    BY <1>1, <2>1, <2>2 DEF Types
  <2>6. QED
    BY <1>3, <2>1, <2>2, <2>3, <2>4, <2>5, PressKeeps
<1>7. QED
  BY <1>5, <1>6

LEMMA MovedOnIs ==
  ASSUME Types, NEW q \in Row
  PROVE  /\ MovedOn(q) \in Row /\ MovedOn(q).rule = q.rule /\ MovedOn(q).rev = q.rev
         /\ MovedOn(q).status # "processing" /\ Spare(MovedOn(q))
         /\ MovedOn(q).state \in {"completed", "scheduled"}
         /\ MovedOn(q).state = "completed" => NextRelative = Null
         /\ MovedOn(q).state = "scheduled" => MovedOn(q).lastMsg = Null
         /\ NextRelative = Null => MovedOn(q).state = "completed"
<1>1. CASE NextRelative = Null
  <2>1. MovedOn(q) = Ended(q)
    BY <1>1 DEF MovedOn
  <2>2. QED
    BY <1>1, <2>1, EndedIs DEF Spare
<1>2. CASE NextRelative # Null
  <2> DEFINE n == NextRelative
  <2>1. MovedOn(q) = Rescheduled(q, n) /\ n \in Nat /\ n # Null
    BY <1>2, NextRelativeIs DEF MovedOn
  <2> HIDE DEF n
  <2>2. /\ MovedOn(q) \in Row /\ MovedOn(q).rule = q.rule /\ MovedOn(q).rev = q.rev
        /\ MovedOn(q).status = "pending" /\ MovedOn(q).state = "scheduled"
        /\ MovedOn(q).attempts = 0 /\ MovedOn(q).lastMsg = Null
    BY <2>1, RescheduledIs
  <2>3. QED
    BY <1>2, <2>2, SettingsAre DEF Spare
<1>3. QED
  BY <1>1, <1>2

\* The root after Done: ended, with or without its message, or scheduled again.
LEMMA DoneRootIs ==
  ASSUME Types, NEW q \in Row, NEW t \in Nat, q.status # "processing", Spare(q)
  PROVE  /\ DoneRoot(q, t) \in Row /\ DoneRoot(q, t).rev = q.rev
         /\ DoneRoot(q, t).status # "processing" /\ Spare(DoneRoot(q, t))
         /\ DoneRoot(q, t).state \in {"completed", "scheduled"}
         /\ DoneRoot(q, t).rule = q.rule
         /\ DoneRoot(q, t).state = "completed" /\ q.rule = "relative" => NextRelative = Null
         /\ DoneRoot(q, t).state = "scheduled" => DoneRoot(q, t).lastMsg = Null
<1>1. CASE q.rule = "none"
  <2> DEFINE p == [q EXCEPT !.state = "completed"]
  <2>1. DoneRoot(q, t) = p
    BY <1>1 DEF DoneRoot
  <2>2. /\ p \in Row /\ p.rev = q.rev /\ p.status = q.status /\ p.attempts = q.attempts
        /\ p.state = "completed" /\ p.rule = q.rule
    BY DEF Row, Terminal
  <2> HIDE DEF p
  <2>3. QED
    BY <1>1, <2>1, <2>2 DEF Spare
<1>2. CASE q.rule = "relative"
  <2>1. DoneRoot(q, t) = MovedOn(q)
    BY <1>2 DEF DoneRoot
  <2>2. QED
    BY <2>1, MovedOnIs
<1>3. CASE q.rule = "fixed"
  <2>1. DoneRoot(q, t) = IF NextFixed(t) = Null THEN ClearIdentity(Ended(q))
                                                ELSE Rescheduled(q, NextFixed(t))
    BY <1>3 DEF DoneRoot
  <2>2. CASE NextFixed(t) = Null
    <3>1. /\ Ended(q) \in Row /\ Ended(q).state = "completed" /\ Ended(q).status = "sent"
          /\ Ended(q).rule = q.rule /\ Ended(q).rev = q.rev
      BY EndedIs
    <3>2. DoneRoot(q, t) = ClearIdentity(Ended(q))
      BY <2>1, <2>2
    <3>3. QED
      BY <1>3, <3>1, <3>2, ClearIs DEF Spare
  <2>3. CASE NextFixed(t) # Null
    <3> DEFINE n == NextFixed(t)
    <3>1. DoneRoot(q, t) = Rescheduled(q, n) /\ n \in Nat
      BY <2>1, <2>3, NextFixedIs
    <3> HIDE DEF n
    <3>2. /\ DoneRoot(q, t) \in Row /\ DoneRoot(q, t).rule = q.rule
          /\ DoneRoot(q, t).rev = q.rev
          /\ DoneRoot(q, t).status = "pending" /\ DoneRoot(q, t).state = "scheduled"
          /\ DoneRoot(q, t).attempts = 0 /\ DoneRoot(q, t).lastMsg = Null
      BY <3>1, RescheduledIs
    <3>3. QED
      BY <3>2, SettingsAre DEF Spare
  <2>4. QED
    BY <2>2, <2>3
<1>4. QED
  BY <1>1, <1>2, <1>3, RowIs

\* Done on the root's own occurrence.
LEMMA DoneRootKeeps ==
  ASSUME IInv, NEW t, Done(Root, t)
  PROVE  /\ UserKeeps
         /\ row'[Root].state \in Terminal \/ row'[Root].lastMsg = Null
<1>1. Types /\ Stamps /\ Budget /\ CancelEndsFamily
  BY DEF IInv
<1>2. Root \in Ids /\ row \in [Ids -> Row]
  BY <1>1 DEF Types
<1>3. Press(Root, t) /\ t # Null
  BY DEF Done
<1>4. /\ row[Root].state \notin Terminal /\ row[Root].status # "processing"
      /\ IsCurrent(Root, t)
  BY <1>1, <1>2, <1>3, PressIs
<1>5. t \in Nat
  BY <1>1, <1>4 DEF Types, IsCurrent, HasOcc
<1> DEFINE q == Revise(row[Root])
           p == DoneRoot(q, t)
<1>6. row[Root] \in Row /\ row[Root].rev \in Nat
  BY <1>1, <1>2, Rows
<1>7. /\ q \in Row /\ q.rev = row[Root].rev + 1 /\ q.status = row[Root].status
      /\ q.attempts = row[Root].attempts /\ q.rule = row[Root].rule
  BY <1>6, ReviseIs
<1>8. row' = [i \in Ids |->
       CASE i = Root /\ Root = Root -> p
         [] i = Root /\ Root # Root -> Ended(Revise(row[Root]))
         [] i = Root /\ Root # Root -> DoneParent(Revise(row[Root]))
         [] OTHER -> row[i]]
  BY DEF Done
<1>9. row' = [row EXCEPT ![Root] = p]
  <2> HIDE DEF p
  <2>1. row' = [i \in Ids |-> IF i = Root THEN p ELSE row[i]]
    BY <1>8
  <2>2. QED
    BY <1>2, <2>1
<1>10. q.status # "processing" /\ Spare(q)
  BY <1>1, <1>2, <1>4, <1>7 DEF Spare, Budget
<1> HIDE DEF q
<1>11. /\ p \in Row /\ p.rev = q.rev /\ p.status # "processing" /\ Spare(p)
       /\ p.state \in {"completed", "scheduled"} /\ p.rule = q.rule
       /\ p.state = "completed" /\ q.rule = "relative" => NextRelative = Null
       /\ p.state = "scheduled" => p.lastMsg = Null
  BY <1>1, <1>5, <1>7, <1>10, DoneRootIs
<1> HIDE DEF p
<1>12. Moves(row[Root], p)
  BY <1>6, <1>7, <1>11, MovesRevised
<1>13. RowsMove /\ row'[Root] = p
  BY <1>1, <1>2, <1>9, <1>11, <1>12, OneMoves
<1>14. OccsSound(occ') /\ SnoozesStay
  <2> DEFINE gone == {<<Root, t>>}
  <2>1. occ' = [j \in DOMAIN occ |-> IF j \in gone THEN Settle(occ[j], "completed") ELSE occ[j]]
    BY DEF Done
  <2>2. <<Root, t>> \in DOMAIN occ /\ occ[<<Root, t>>].status = "delivered"
    BY <1>4 DEF IsCurrent, HasOcc
  <2>3. \A j : j \in gone => occ[j].status # "snoozed"
    BY <2>2
  <2> HIDE DEF gone
  <2>4. /\ OccsSound(occ') /\ DOMAIN occ' = DOMAIN occ
        /\ \A j \in DOMAIN occ : j \notin gone => occ'[j] = occ[j]
    BY <1>1, <2>1, SettledOccs
  <2>5. QED
    BY <2>3, <2>4, SameOccsStay
<1>15. p.state # "cancelled"
  BY <1>11
<1>16. CancelEndsFamily' /\ Settled /\ PairsEnd
  BY <1>1, <1>2, <1>4, <1>9, <1>14, <1>15, OneRow
<1>17. QED
  BY <1>11, <1>13, <1>14, <1>16 DEF UserKeeps, Terminal

\* The root after Done on one of its children: as it was, or moved on.
LEMMA DoneParentIs ==
  ASSUME Types, NEW q \in Row, Spare(q)
  PROVE  /\ DoneParent(q) \in Row /\ DoneParent(q).rev = q.rev /\ Spare(DoneParent(q))
         /\ DoneParent(q).rule = q.rule
         /\ DoneParent(q).status = "processing" =>
              /\ q.status = "processing" /\ DoneParent(q).remindAt = q.remindAt
              /\ DoneParent(q).state = q.state
         /\ DoneParent(q).state \in {q.state, "completed", "scheduled"}
         /\ DoneParent(q).state = "completed" /\ q.rule = "relative" => NextRelative = Null
         /\ q.rule # "relative" => DoneParent(q).state = q.state
         /\ q.rule = "relative" /\ NextRelative = Null => DoneParent(q).state = "completed"
<1>1. CASE q.rule = "relative"
  <2>1. DoneParent(q) = MovedOn(q)
    BY <1>1 DEF DoneParent
  <2>2. QED
    BY <1>1, <2>1, MovedOnIs
<1>2. CASE q.rule # "relative"
  <2>1. DoneParent(q) = q
    BY <1>2 DEF DoneParent
  <2>2. QED
    BY <1>2, <2>1
<1>3. QED
  BY <1>1, <1>2

\* Done on a child completes the occurrence it stands for, and may move the
\* root on, but never brings a settled root back.
LEMMA DoneChildKeeps ==
  ASSUME IInv, NEW r \in Ids, r # Root, NEW t, Done(r, t)
  PROVE  UserKeeps /\ row'[r].state \in Terminal
<1>1. Types /\ Stamps /\ Budget /\ CancelEndsFamily /\ Over
  BY DEF IInv
<1>2. Root \in Ids /\ row \in [Ids -> Row] /\ Ids \subseteq Nat
  BY <1>1 DEF Types
<1>3. Press(r, t) /\ t # Null
  BY DEF Done
<1>4. row[r].state \notin Terminal /\ row[r].status # "processing"
  BY <1>1, <1>3, PressIs
<1>5. row[Root].state # "cancelled"
  BY <1>1, <1>4 DEF CancelEndsFamily
<1> DEFINE v == Revise(row[Root])
           w == Revise(row[r])
           q == DoneParent(v)
           p == Ended(w)
<1>6. /\ row[Root] \in Row /\ row[Root].rev \in Nat
      /\ row[r] \in Row /\ row[r].rev \in Nat
  BY <1>1, <1>2, Rows
<1>7. /\ v \in Row /\ v.rev = row[Root].rev + 1 /\ v.status = row[Root].status
      /\ v.state = row[Root].state /\ v.rule = row[Root].rule
      /\ v.remindAt = row[Root].remindAt /\ v.attempts = row[Root].attempts
      /\ w \in Row /\ w.rev = row[r].rev + 1
  BY <1>6, ReviseIs
<1>8. row' = [i \in Ids |->
       CASE i = r /\ r = Root -> DoneRoot(Revise(row[r]), t)
         [] i = r /\ r # Root -> p
         [] i = Root /\ r # Root -> q
         [] OTHER -> row[i]]
  BY DEF Done
<1>9. /\ Ids' = Ids /\ row'[r] = p /\ row'[Root] = q
      /\ \A i \in Ids : i # r /\ i # Root => row'[i] = row[i]
  <2> HIDE DEF p, q
  <2>1. row' = [i \in Ids |-> IF i = r THEN p ELSE IF i = Root THEN q ELSE row[i]]
    BY <1>8
  <2>2. QED
    BY <1>2, <2>1 DEF Ids
<1>10. Spare(v)
  BY <1>1, <1>2, <1>7 DEF Spare, Budget
<1> HIDE DEF v, w
<1>11. /\ q \in Row /\ q.rev = v.rev /\ Spare(q) /\ q.rule = v.rule
       /\ q.status = "processing" =>
            v.status = "processing" /\ q.remindAt = v.remindAt /\ q.state = v.state
       /\ q.state \in {v.state, "completed", "scheduled"}
       /\ q.state = "completed" /\ v.rule = "relative" => NextRelative = Null
       /\ v.rule # "relative" => q.state = v.state
       /\ v.rule = "relative" /\ NextRelative = Null => q.state = "completed"
  BY <1>1, <1>7, <1>10, DoneParentIs
<1>12. p \in Row /\ p.state = "completed" /\ p.status = "sent" /\ p.rev = w.rev
  BY <1>7, EndedIs
<1> HIDE DEF p, q
<1>13. Moves(row[r], p)
  <2>1. Spare(p)
    BY <1>12 DEF Spare
  <2>2. QED
    BY <1>6, <1>7, <1>12, <2>1, MovesRevised
<1>14. Moves(row[Root], q)
  <2>1. row[Root].rev < q.rev /\ row[Root].rev <= q.rev
    BY <1>6, <1>7, <1>11
  <2>2. q.status = "processing" =>
          row[Root].status = "processing" /\ q.remindAt = row[Root].remindAt
            /\ q.state = row[Root].state
    BY <1>7, <1>11
  <2>3. QED
    BY <1>11, <2>1, <2>2 DEF Moves
<1>15. RowsMove
  <2>1. \A i \in Ids' : row'[i] \in Row
    BY <1>2, <1>9, <1>11, <1>12
  <2>2. row' \in [Ids' -> Row]
    <3>1. row' = [i \in Ids' |-> row'[i]]
      BY <1>8, <1>9
    <3>2. QED
      BY <2>1, <3>1
  <2>3. ASSUME NEW i \in Ids PROVE Moves(row[i], row'[i])
    <3>1. CASE i = r
      BY <1>9, <1>13, <3>1
    <3>2. CASE i = Root
      BY <1>9, <1>14, <3>2
    <3>3. CASE i # r /\ i # Root
      BY <1>1, <1>2, <1>9, <3>3, MovesSame DEF Budget
    <3>4. QED
      BY <3>1, <3>2, <3>3
  <2>4. row'[Root].state = "completed" /\ row'[Root].rule = "relative" =>
          (row[Root].state = "completed" /\ row[Root].rule = "relative") \/ NextRelative = Null
    BY <1>7, <1>9, <1>11
  <2>5. QED
    BY <1>2, <1>9, <2>2, <2>3, <2>4 DEF RowsMove
<1>16. CancelEndsFamily'
  <2>1. row'[Root].state # "cancelled"
    BY <1>5, <1>7, <1>9, <1>11
  <2>2. QED
    BY <2>1, FamilyAlive
<1>17. Settled
  <2>1. ASSUME row[Root].state \in Terminal PROVE row'[Root].state = row[Root].state
    <3>1. row[Root].state = "completed"
      BY <1>5, <2>1 DEF Terminal
    <3>2. CASE v.rule = "relative"
      <4>1. SeriesEnd < clock + AfterDays
        BY <1>1, <1>7, <3>1, <3>2 DEF Over
      <4>2. NextRelative = Null
        BY <1>1, <4>1, NextRelativeIs
      <4>3. QED
        BY <1>9, <1>11, <3>1, <3>2, <4>2
    <3>3. CASE v.rule # "relative"
      BY <1>7, <1>9, <1>11, <3>3
    <3>4. QED
      BY <3>2, <3>3
  <2>2. QED
    BY <1>4, <1>9, <2>1 DEF Settled
<1> DEFINE source == <<Root, r>>
           settled == {<<r, t>>} \cup
             (IF r # Root /\ source \in DOMAIN occ /\ occ[source].status # "completed"
                THEN {source} ELSE {})
<1>18. occ' = [k \in DOMAIN occ |-> IF k \in settled THEN Settle(occ[k], "completed") ELSE occ[k]]
  BY DEF Done
<1>19. ASSUME NEW i \in Ids \ {Root}, HasOcc(Root, i), occ[<<Root, i>>].status = "snoozed"
       PROVE  <<Root, i>> \in settled <=> i = r
  BY <1>19 DEF HasOcc
<1> HIDE DEF settled
<1>20. /\ OccsSound(occ') /\ DOMAIN occ' = DOMAIN occ
       /\ \A j \in DOMAIN occ :
            /\ j \in settled => occ'[j].status = "completed"
            /\ j \notin settled => occ'[j] = occ[j]
  BY <1>1, <1>18, SettledOccs
<1>21. PairsEnd
  <2>1. SUFFICES ASSUME NEW i \in Ids \ {Root}, Paired(i)
                 PROVE  Paired(i)' \/ (row'[i].state \in Terminal /\ occ'[<<Root, i>>].status \in Terminal)
    BY DEF PairsEnd
  <2>2. row[i].state \notin Terminal /\ HasOcc(Root, i) /\ occ[<<Root, i>>].status = "snoozed"
    BY <2>1 DEF Paired
  <2>3. <<Root, i>> \in DOMAIN occ
    BY <2>2 DEF HasOcc
  <2>4. CASE i = r
    <3>1. occ'[<<Root, i>>].status = "completed"
      BY <1>19, <1>20, <2>1, <2>2, <2>3, <2>4
    <3>2. row'[i].state = "completed"
      BY <1>9, <1>12, <2>4
    <3>3. QED
      BY <3>1, <3>2 DEF Terminal
  <2>5. CASE i # r
    <3>1. row'[i] = row[i]
      BY <1>9, <2>1, <2>5
    <3>2. occ'[<<Root, i>>] = occ[<<Root, i>>]
      BY <1>19, <1>20, <2>1, <2>2, <2>3, <2>5
    <3>3. QED
      BY <1>20, <2>2, <2>3, <3>1, <3>2 DEF Paired, HasOcc
  <2>6. QED
    BY <2>4, <2>5
<1>22. QED
  BY <1>9, <1>12, <1>15, <1>16, <1>17, <1>20, <1>21 DEF UserKeeps, Terminal

LEMMA CancelTargetIs ==
  ASSUME NEW r, NEW k \in CancelTarget(r)
  PROVE  k[1] = r
<1> DEFINE last == row[r].lastOcc
           open == { j \in DOMAIN occ : j[1] = r /\ occ[j].status = "processing" }
           newest == { j \in open : \A i \in open : occ[i].id <= occ[j].id }
<1>1. CancelTarget(r) = IF last # Null /\ occ[<<r, last>>].status = "delivered" THEN {<<r, last>>}
                        ELSE IF row[r].status = "processing" THEN newest ELSE {}
  BY DEF CancelTarget
<1>2. \A j \in newest : j[1] = r
  OBVIOUS
<1> HIDE DEF newest
<1>3. k \in newest \/ k = <<r, last>>
  BY <1>1
<1>4. QED
  BY <1>2, <1>3

\* Deleting a row: the root takes every child and every postponed occurrence
\* with it, a child the occurrence that it stands for.
LEMMA CancelKeeps ==
  ASSUME IInv, NEW r \in Ids, NEW named, \A k \in named : k[1] = r,
         CancelTransaction(r, named)
  PROVE  UserKeeps /\ row'[r].state \in Terminal
<1>1. Types /\ Stamps /\ Budget /\ CancelEndsFamily
  BY DEF IInv
<1>2. Root \in Ids /\ row \in [Ids -> Row] /\ Ids \subseteq Nat
  BY <1>1 DEF Types
<1>3. row[r].state \notin Terminal
  BY DEF CancelTransaction
<1> DEFINE gone == named \cup SnoozedSources(r)
<1>4. occ' = [k \in DOMAIN occ |-> IF k \in gone THEN Settle(occ[k], "cancelled") ELSE occ[k]]
  BY DEF CancelTransaction
<1>5. row' = [i \in Ids |->
        CASE i = r -> CancelledRow(row[i])
          [] i # r /\ r = Root -> CancelledChild(row[i])
          [] OTHER -> row[i]]
  BY DEF CancelTransaction
<1>6. /\ Ids' = Ids /\ row'[r] = CancelledRow(row[r])
      /\ \A i \in Ids : i # r /\ r = Root => row'[i] = CancelledChild(row[i])
      /\ \A i \in Ids : i # r /\ r # Root => row'[i] = row[i]
      /\ row' = [i \in Ids |-> row'[i]]
  BY <1>5 DEF Ids
<1>7. /\ row'[r] \in Row /\ row'[r].state = "cancelled" /\ row'[r].status = "sent"
      /\ row'[r].rev = row[r].rev + 1 /\ row[r] \in Row
  <2>1. row[r] \in Row
    BY <1>1, Rows
  <2>2. QED
    BY <1>6, <2>1, CancelledIs
<1>8. ASSUME NEW i \in Ids, i # r
      PROVE  Moves(row[i], row'[i]) /\ Keeps(row[i], row'[i])
  <2>1. row[i] \in Row /\ Spare(row[i])
    BY <1>1, Rows DEF Budget
  <2>2. CASE r # Root
    BY <1>6, <1>8, <2>1, <2>2, MovesSame DEF Keeps
  <2>3. CASE r = Root
    <3>1. row'[i] = CancelledChild(row[i])
      BY <1>6, <1>8, <2>3
    <3>2. CASE row[i].state \in Terminal
      <4>1. row'[i] = row[i]
        BY <2>1, <3>1, <3>2, CancelledChildIs
      <4>2. QED
        BY <2>1, <4>1, MovesSame DEF Keeps
    <3>3. CASE row[i].state \notin Terminal
      <4> DEFINE p == CancelledChild(row[i])
      <4>1. /\ p \in Row /\ p.state = "cancelled" /\ p.rev = row[i].rev + 1
            /\ p.status = IF row[i].status = "processing" THEN "processing" ELSE "sent"
            /\ p.remindAt = row[i].remindAt
        BY <2>1, <3>3, CancelledChildIs
      <4> HIDE DEF p
      <4>2. row[i].rev < p.rev /\ row[i].rev <= p.rev
        BY <2>1, <4>1, RowIs
      <4>3. Spare(p) /\ p.state \notin Live
        BY <4>1 DEF Spare, Live
      <4>4. Moves(row[i], p)
        BY <4>1, <4>2, <4>3 DEF Moves
      <4>5. QED
        BY <3>1, <3>3, <4>4 DEF Keeps, p
    <3>4. QED
      BY <3>2, <3>3
  <2>4. QED
    BY <2>2, <2>3
<1>9. Moves(row[r], row'[r])
  <2>1. Spare(row'[r])
    BY <1>7 DEF Spare
  <2>2. QED
    BY <1>7, <2>1, MovesRevised
<1>10. RowsMove
  <2>1. \A i \in Ids : Moves(row[i], row'[i])
    BY <1>8, <1>9
  <2>2. \A i \in Ids : row'[i] \in Row
    BY <2>1 DEF Moves
  <2>3. row' \in [Ids' -> Row]
    BY <1>6, <2>2
  <2>4. row'[Root].state = "completed" /\ row'[Root].rule = "relative" =>
          (row[Root].state = "completed" /\ row[Root].rule = "relative") \/ NextRelative = Null
    <3>1. CASE r = Root
      BY <1>7, <3>1
    <3>2. CASE r # Root
      BY <1>2, <1>6, <3>2
    <3>3. QED
      BY <3>1, <3>2
  <2>5. QED
    BY <1>2, <1>6, <2>1, <2>3, <2>4 DEF RowsMove
<1>11. CancelEndsFamily'
  <2>1. CASE r = Root
    <3>1. ASSUME NEW i \in Ids PROVE row'[i].state \in Terminal
      <4>1. CASE i = r
        BY <1>7, <4>1 DEF Terminal
      <4>2. CASE i # r
        <5>1. row'[i] = CancelledChild(row[i]) /\ row[i] \in Row
          BY <1>1, <1>6, <2>1, <4>2, Rows
        <5>2. QED
          BY <5>1, CancelledChildIs
      <4>3. QED
        BY <4>1, <4>2
    <3>2. QED
      BY <1>6, <3>1 DEF CancelEndsFamily
  <2>2. CASE r # Root
    <3>1. row'[Root] = row[Root] /\ row[Root].state # "cancelled"
      BY <1>1, <1>2, <1>3, <1>6, <2>2 DEF CancelEndsFamily
    <3>2. QED
      BY <3>1, FamilyAlive
  <2>3. QED
    BY <2>1, <2>2
<1>12. Settled
  BY <1>3, <1>8 DEF Settled, Keeps
<1>13. ASSUME NEW i \in Ids \ {Root}, <<Root, i>> \in DOMAIN occ,
              occ[<<Root, i>>].status = "snoozed"
       PROVE  <<Root, i>> \in gone <=> r = Root \/ r = i
  <2> DEFINE k == <<Root, i>>
  <2>1. k[1] = Root /\ k[2] = i /\ k \in DOMAIN occ /\ occ[k].status = "snoozed"
    BY <1>13
  <2> HIDE DEF k
  <2>2. k \in SnoozedSources(r) <=> r = Root \/ r = i
    BY <2>1 DEF SnoozedSources
  <2>3. k \in named => r = Root
    BY <2>1
  <2>4. QED
    BY <2>2, <2>3 DEF k
<1> HIDE DEF gone
<1>14. /\ OccsSound(occ') /\ DOMAIN occ' = DOMAIN occ
       /\ \A j \in DOMAIN occ :
            /\ j \in gone => occ'[j].status = "cancelled"
            /\ j \notin gone => occ'[j] = occ[j]
  BY <1>1, <1>4, SettledOccs
<1>15. PairsEnd
  <2>1. SUFFICES ASSUME NEW i \in Ids \ {Root}, Paired(i)
                 PROVE  Paired(i)' \/ (row'[i].state \in Terminal /\ occ'[<<Root, i>>].status \in Terminal)
    BY DEF PairsEnd
  <2>2. row[i].state \notin Terminal /\ <<Root, i>> \in DOMAIN occ /\ occ[<<Root, i>>].status = "snoozed"
    BY <2>1 DEF Paired, HasOcc
  <2>3. CASE r = Root \/ r = i
    <3>1. occ'[<<Root, i>>].status = "cancelled"
      BY <1>13, <1>14, <2>1, <2>2, <2>3
    <3>2. row'[i].state \in Terminal
      <4>1. CASE r = i
        BY <1>7, <4>1 DEF Terminal
      <4>2. CASE r # i /\ r = Root
        <5>1. row'[i] = CancelledChild(row[i]) /\ row[i] \in Row
          BY <1>1, <1>6, <2>1, <4>2, Rows
        <5>2. QED
          BY <5>1, CancelledChildIs
      <4>3. QED
        BY <2>3, <4>1, <4>2
    <3>3. QED
      BY <3>1, <3>2 DEF Terminal
  <2>4. CASE ~(r = Root \/ r = i)
    <3>1. row'[i] = row[i]
      BY <1>6, <2>1, <2>4
    <3>2. occ'[<<Root, i>>] = occ[<<Root, i>>]
      BY <1>13, <1>14, <2>1, <2>2, <2>4
    <3>3. QED
      BY <1>14, <2>2, <3>1, <3>2 DEF Paired, HasOcc
  <2>5. QED
    BY <2>3, <2>4
<1>16. QED
  BY <1>7, <1>10, <1>11, <1>12, <1>14, <1>15 DEF UserKeeps, Terminal

LEMMA DeleteKeeps ==
  ASSUME IInv, NEW r \in Ids, NEW t, Delete(r, t)
  PROVE  UserKeeps /\ row'[r].state \in Terminal
<1> DEFINE named == IF t = Null THEN CancelTarget(r) ELSE {<<r, t>>}
<1>1. \A k \in named : k[1] = r
  BY CancelTargetIs
<1>2. CancelTransaction(r, named)
  BY DEF Delete
<1> HIDE DEF named
<1>3. QED
  BY <1>1, <1>2, CancelKeeps

LEMMA CancelByIdKeeps ==
  ASSUME IInv, NEW r \in Ids, CancelById(r)
  PROVE  UserKeeps
<1> DEFINE named == CancelTarget(r)
<1>1. \A k \in named : k[1] = r
  BY CancelTargetIs
<1>2. CancelTransaction(r, named)
  BY DEF CancelById
<1> HIDE DEF named
<1>3. QED
  BY <1>1, <1>2, CancelKeeps

\* Of any action of a user.
LEMMA ButtonKeeps ==
  ASSUME IInv, NEW r \in Ids, NEW t, Button(r, t)
  PROVE  UserKeeps /\ Press(r, t)
<1>1. Types
  BY DEF IInv
<1>2. clock \in Nat /\ Delays \subseteq Nat
  BY <1>1, SettingsAre DEF Types
<1>3. CASE Done(r, t)
  <2>1. CASE r = Root
    BY <1>3, <2>1, DoneRootKeeps DEF Done
  <2>2. CASE r # Root
    BY <1>3, <2>2, DoneChildKeeps DEF Done
  <2>3. QED
    BY <2>1, <2>2
<1>4. ASSUME NEW d \in Delays, Snooze(r, t, clock + d) PROVE UserKeeps /\ Press(r, t)
  <2> DEFINE at == clock + d
  <2>1. at \in Nat /\ Snooze(r, t, at)
    BY <1>2, <1>4
  <2> HIDE DEF at
  <2>2. UserKeeps
    BY <2>1, SnoozeKeeps
  <2>3. QED
    BY <2>1, <2>2 DEF Snooze
<1>5. CASE Pause(r, t)
  BY <1>5, PauseKeeps DEF Pause
<1>6. CASE EditText(r, t)
  BY <1>6, EditTextKeeps DEF EditText
<1>7. ASSUME NEW d \in Delays, NEW rule \in EditRules, EditSchedule(r, t, rule, clock + d)
      PROVE  UserKeeps /\ Press(r, t)
  <2> DEFINE at == clock + d
  <2>1. at \in Nat /\ EditSchedule(r, t, rule, at)
    BY <1>2, <1>7
  <2> HIDE DEF at
  <2>2. UserKeeps
    BY <2>1, EditScheduleKeeps
  <2>3. QED
    BY <2>1, <2>2 DEF EditSchedule
<1>8. CASE Delete(r, t)
  BY <1>8, DeleteKeeps DEF Delete
<1>9. QED
  BY <1>3, <1>4, <1>5, <1>6, <1>7, <1>8 DEF Button

LEMMA UserActionKeeps ==
  ASSUME IInv, NEW r \in Ids, UserAction(r)
  PROVE  IInv' /\ RowsMove /\ Settled /\ PairsEnd
<1>1. Types /\ Stamps
  BY DEF IInv
<1>2. clock \in Nat /\ events \in Nat /\ cards \subseteq Card /\ \A c \in cards : c.rev # 0
  BY <1>1 DEF Types, Stamps
<1>3. /\ UserKeeps
      /\ events' = events + 1 /\ clock' = clock /\ flight' = flight /\ cards' = cards
  <2>1. ASSUME NEW t \in Targets(r), Button(r, t)
        PROVE  UserKeeps /\ events' = events + 1 /\ clock' = clock /\ flight' = flight /\ cards' = cards
    <3>1. UserKeeps /\ Press(r, t)
      BY <2>1, ButtonKeeps
    <3>2. QED
      BY <1>1, <3>1, PressIs
  <2>2. CASE Resume(r)
    <3>1. UserKeeps /\ Press(r, Null)
      BY <2>2, ResumeKeeps DEF Resume
    <3>2. QED
      BY <1>1, <3>1, PressIs
  <2>3. CASE CancelById(r)
    <3>1. UserKeeps
      BY <2>3, CancelByIdKeeps
    <3>2. QED
      BY <2>3, <3>1 DEF CancelById, CountEvent
  <2>4. QED
    BY <2>1, <2>2, <2>3 DEF UserAction
<1>4. FlightsMove
  BY <1>1, <1>3 DEF FlightsMove, Types
<1>5. CardsSound(cards')
  BY <1>2, <1>3 DEF CardsSound
<1>6. clock' \in Nat /\ clock <= clock' /\ events' \in Nat
  BY <1>2, <1>3
<1>7. RowsMove /\ OccsSound(occ') /\ CancelEndsFamily' /\ Settled /\ PairsEnd
  BY <1>3 DEF UserKeeps
<1>8. QED
  BY <1>4, <1>5, <1>6, <1>7, StepKeeps

-----------------------------------------------------------------------------
(* The worker                                                              *)

LEMMA AdvanceIs ==
  ASSUME Types, NEW r \in DOMAIN flight, NEW s \in {"prepared", "sent", "refused", "recorded"},
         Advance(r, s)
  PROVE  FlightsMove
<1>1. flight \in [DOMAIN flight -> Flight] /\ flight' = [flight EXCEPT ![r].step = s]
  BY DEF Types, Advance
<1>2. ASSUME NEW i \in DOMAIN flight
      PROVE  /\ flight'[i] \in Flight /\ flight'[i].rev = flight[i].rev
             /\ flight'[i].occ = flight[i].occ
  <2>1. CASE i = r
    <3> DEFINE g == flight[r]
    <3>1. g \in Flight /\ flight'[i] = [g EXCEPT !.step = s]
      BY <1>1, <2>1
    <3> HIDE DEF g
    <3>2. flight'[i] \in Flight /\ flight'[i].rev = g.rev /\ flight'[i].occ = g.occ
      BY <3>1 DEF Flight
    <3>3. QED
      BY <2>1, <3>2 DEF g
  <2>2. CASE i # r
    BY <1>1, <2>2
  <2>3. QED
    BY <2>1, <2>2
<1>3. DOMAIN flight' = DOMAIN flight /\ flight' = [i \in DOMAIN flight |-> flight'[i]]
  BY <1>1
<1>4. flight' \in [DOMAIN flight' -> Flight]
  BY <1>2, <1>3
<1>5. QED
  BY <1>2, <1>3, <1>4 DEF FlightsMove

LEMMA EndFlightIs ==
  ASSUME Types, NEW r \in DOMAIN flight, EndFlight(r)
  PROVE  FlightsMove
<1>1. flight \in [DOMAIN flight -> Flight] /\ flight' = [x \in DOMAIN flight \ {r} |-> flight[x]]
  BY DEF Types, EndFlight, Drop
<1>2. QED
  BY <1>1 DEF FlightsMove

\* What every step of the worker but the claim does.
LEMMA WorkerKeeps ==
  ASSUME IInv, clock' = clock, events' \in Nat, RowsMove, OccsSound(occ'), FlightsMove,
         CardsSound(cards'), CancelEndsFamily', Settled, PairsEnd
  PROVE  IInv' /\ RowsMove /\ Settled /\ PairsEnd
<1>1. clock' \in Nat /\ clock <= clock'
  BY DEF IInv, Types
<1>2. QED
  BY <1>1, StepKeeps

LEMMA SameCards ==
  ASSUME Types, Stamps, UNCHANGED <<cards, events>>
  PROVE  CardsSound(cards') /\ events' \in Nat
BY DEF Types, Stamps, CardsSound

LEMMA PrepareKeeps ==
  ASSUME IInv, NEW r \in Ids, PrepareOccurrence(r)
  PROVE  IInv' /\ RowsMove /\ Settled /\ PairsEnd
<1>1. Types /\ Stamps /\ Budget /\ CancelEndsFamily /\ Bound
  BY DEF IInv
<1>2. r \in DOMAIN flight /\ row' = row /\ clock' = clock /\ UNCHANGED <<cards, events>>
  BY DEF PrepareOccurrence
<1>3. CardsSound(cards') /\ events' \in Nat
  BY <1>1, <1>2, SameCards
<1>4. RowsMove
  BY <1>1, <1>2, NoneMoves
<1>5. CASE ~Owns(r) /\ EndFlight(r) /\ UNCHANGED occ
  <2>1. FlightsMove
    BY <1>1, <1>2, <1>5, EndFlightIs
  <2>2. OccsSound(occ') /\ SnoozesStay
    BY <1>1, <1>5, SameOccsSound
  <2>3. CancelEndsFamily' /\ Settled /\ PairsEnd
    BY <1>1, <1>2, <2>2, NoRow
  <2>4. QED
    BY <1>2, <1>3, <1>4, <2>1, <2>2, <2>3, WorkerKeeps
<1>6. CASE Owns(r) /\ Advance(r, "prepared")
  <2>1. FlightsMove
    BY <1>1, <1>2, <1>6, AdvanceIs
  <2> DEFINE k == <<r, row[r].remindAt>>
             old == IF k \in DOMAIN occ THEN occ[k]
                    ELSE [id |-> Cardinality(DOMAIN occ) + 1, rev |-> 0]
             o == [id |-> old.id, status |-> "processing", msg |-> Null,
                   rev |-> Larger(old.rev, row[r].rev)]
  <2>2. occ' = Put(occ, k, o)
    <3>1. flight[r].step = "claimed"
      BY DEF PrepareOccurrence
    <3>2. QED
      BY <1>6 DEF PrepareOccurrence
  <2>3. row[r] \in Row /\ row[r].rev \in Nat /\ row[r].remindAt \in Nat
    BY <1>1, Rows, RowIs
  <2>4. IsFiniteSet(DOMAIN occ) /\ DOMAIN occ \subseteq Ids \X Nat
        /\ occ \in [DOMAIN occ -> Occurrence]
    BY <1>1 DEF Types
  <2>5. k \in Ids \X Nat /\ k[1] = r
    BY <2>3
  <2>6. old.id \in Nat /\ old.rev \in Nat
    <3>1. CASE k \in DOMAIN occ
      BY <2>4, <3>1, OccurrenceIs
    <3>2. CASE k \notin DOMAIN occ
      <4> DEFINE n == Cardinality(DOMAIN occ)
      <4>1. n \in Nat
        BY <2>4, FS_CardinalityType
      <4>2. old = [id |-> n + 1, rev |-> 0]
        BY <3>2
      <4> HIDE DEF n, old
      <4>3. QED
        BY <4>1, <4>2
    <3>3. QED
      BY <3>1, <3>2
  <2> HIDE DEF old
  <2>7. Larger(old.rev, row[r].rev) \in Nat
    BY <2>3, <2>6, LargerIs
  <2> DEFINE n == Larger(old.rev, row[r].rev)
  <2>8. o = [id |-> old.id, status |-> "processing", msg |-> Null, rev |-> n] /\ n \in Nat
    BY <2>7
  <2> HIDE DEF o, n
  <2>9. o \in Occurrence /\ o.msg = 0 /\ o.rev \in Nat
    BY <2>6, <2>8 DEF Occurrence, Null
  <2>10. row[r].remindAt = flight[r].occ
    BY <1>1, <1>2, <1>6 DEF Bound
  <2>11. \A i \in Ids \ {Root} : <<Root, i>> = k => r = Root /\ i = flight[r].occ
    BY <2>10
  <2> HIDE DEF k
  <2>12. /\ DOMAIN occ' = DOMAIN occ \cup {k} /\ occ'[k] = o
         /\ \A x \in DOMAIN occ : x # k => occ'[x] = occ[x]
         /\ occ' = [x \in DOMAIN occ \cup {k} |-> occ'[x]]
    BY <2>2 DEF Put
  <2>13. OccsSound(occ')
    <3>1. IsFiniteSet(DOMAIN occ')
      BY <2>4, <2>12, FS_AddElement
    <3>2. \A x \in DOMAIN occ' : occ'[x] \in Occurrence
      BY <2>4, <2>9, <2>12
    <3>3. occ' \in [DOMAIN occ' -> Occurrence]
      BY <2>12, <3>2
    <3>4. ASSUME NEW x \in DOMAIN occ'
          PROVE  occ'[x].msg <= occ'[x].rev /\ occ'[x].msg <= row[x[1]].rev
      <4>1. CASE x = k
        <5>1. row[x[1]].rev \in Nat
          BY <2>3, <2>5, <4>1
        <5>2. QED
          BY <2>9, <2>12, <4>1, <5>1
      <4>2. CASE x # k
        BY <1>1, <2>12, <3>4, <4>2 DEF Stamps
      <4>3. QED
        BY <4>1, <4>2
    <3>5. DOMAIN occ' \subseteq Ids \X Nat
      BY <2>4, <2>5, <2>12
    <3>6. QED
      BY <3>1, <3>3, <3>4, <3>5 DEF OccsSound
  <2>14. SnoozesStay
    <3>1. SUFFICES ASSUME NEW i \in Ids \ {Root}, <<Root, i>> \in DOMAIN occ,
                          occ[<<Root, i>>].status = "snoozed",
                          ~(Root \in DOMAIN flight /\ flight[Root].occ = i)
                   PROVE  <<Root, i>> \in DOMAIN occ' /\ occ'[<<Root, i>>].status = "snoozed"
      BY DEF SnoozesStay, HasOcc
    <3>2. <<Root, i>> # k
      BY <1>2, <2>11, <3>1
    <3>3. QED
      BY <2>12, <3>1, <3>2
  <2>15. CancelEndsFamily' /\ Settled /\ PairsEnd
    BY <1>1, <1>2, <2>14, NoRow
  <2>16. QED
    BY <1>2, <1>3, <1>4, <2>1, <2>13, <2>15, WorkerKeeps
<1>7. QED
  BY <1>5, <1>6 DEF PrepareOccurrence

LEMMA SendKeeps ==
  ASSUME IInv, NEW r \in Ids, Send(r)
  PROVE  IInv' /\ RowsMove /\ Settled /\ PairsEnd
<1>1. Types /\ Stamps /\ Budget /\ CancelEndsFamily
  BY DEF IInv
<1>2. r \in DOMAIN flight /\ row' = row /\ clock' = clock /\ occ' = occ
  BY DEF Send
<1>3. RowsMove
  BY <1>1, <1>2, NoneMoves
<1>4. OccsSound(occ') /\ SnoozesStay
  BY <1>1, <1>2, SameOccsSound
<1>5. CancelEndsFamily' /\ Settled /\ PairsEnd
  BY <1>1, <1>2, <1>4, NoRow
<1>6. FlightsMove
  <2>1. \E s \in {"sent", "refused"} : Advance(r, s)
    BY DEF Send
  <2>2. QED
    BY <1>1, <1>2, <2>1, AdvanceIs
<1>7. cards \subseteq Card /\ (\A x \in cards : x.rev # 0) /\ events \in Nat
  BY <1>1 DEF Types, Stamps
<1>8. CardsSound(cards') /\ events' \in Nat
  <2>1. CASE UNCHANGED cards /\ CountEvent
    <3>1. events' = events + 1 /\ cards' = cards
      BY <2>1 DEF CountEvent
    <3>2. QED
      BY <1>7, <3>1 DEF CardsSound
  <2> DEFINE c == [row |-> r, occ |-> flight[r].occ, rev |-> flight[r].rev]
  <2>2. CASE cards' = cards \cup {c} /\ UNCHANGED events
    <3>1. flight[r].rev \in Nat /\ flight[r].occ \in Nat /\ r \in Nat /\ flight[r].rev # 0
      BY <1>1, <1>2, Flights, Rows DEF Stamps
    <3>2. c \in Card /\ c.rev # 0
      BY <3>1 DEF Card
    <3> HIDE DEF c
    <3>3. QED
      BY <1>7, <2>2, <3>2 DEF CardsSound
  <2>3. QED
    BY <2>1, <2>2 DEF Send
<1>9. QED
  BY <1>2, <1>3, <1>4, <1>5, <1>6, <1>8, WorkerKeeps

LEMMA AbandonKeeps ==
  ASSUME IInv, NEW r \in Ids, Abandon(r)
  PROVE  IInv' /\ RowsMove /\ Settled /\ PairsEnd
<1>1. Types /\ Stamps /\ Budget /\ CancelEndsFamily
  BY DEF IInv
<1>2. /\ r \in DOMAIN flight /\ EndFlight(r) /\ row' = row /\ clock' = clock /\ occ' = occ
      /\ cards' = cards /\ events' = events + 1
  BY DEF Abandon, CountEvent
<1>3. RowsMove
  BY <1>1, <1>2, NoneMoves
<1>4. OccsSound(occ') /\ SnoozesStay
  BY <1>1, <1>2, SameOccsSound
<1>5. CancelEndsFamily' /\ Settled /\ PairsEnd
  BY <1>1, <1>2, <1>4, NoRow
<1>6. FlightsMove
  BY <1>1, <1>2, EndFlightIs
<1>7. CardsSound(cards') /\ events' \in Nat
  BY <1>1, <1>2 DEF CardsSound, Types, Stamps
<1>8. QED
  BY <1>2, <1>3, <1>4, <1>5, <1>6, <1>7, WorkerKeeps

\* The worker writes the row that it still owns.
LEMMA OwnedRow ==
  ASSUME IInv, NEW r \in DOMAIN flight, Owns(r), NEW p \in Row,
         p.rev = row[r].rev, Spare(p), p.state \notin Terminal,
         p.status = "processing" => p.remindAt = row[r].remindAt,
         row' = [row EXCEPT ![r] = p], SnoozesStay
  PROVE  RowsMove /\ CancelEndsFamily' /\ Settled /\ PairsEnd
<1>1. Types /\ Budget /\ CancelEndsFamily
  BY DEF IInv
<1>2. r \in Ids /\ row[r].status = "processing" /\ row[r].state \in Live
  BY <1>1 DEF Types, Owns
<1>3. row[r].rev \in Nat
  BY <1>1, <1>2, Rows
<1>4. Moves(row[r], p)
  BY <1>2, <1>3 DEF Moves
<1>5. p.state # "completed" /\ p.state # "cancelled" /\ row[r].state \notin Terminal
  BY <1>2 DEF Terminal, Live
<1>6. RowsMove
  BY <1>1, <1>2, <1>4, <1>5, OneMoves
<1>7. QED
  BY <1>1, <1>2, <1>5, <1>6, OneRow

\* The occurrence of a flight is the only one its steps write.
LEMMA OneOcc ==
  ASSUME Types, Stamps, NEW r \in DOMAIN flight, NEW k, k = <<r, flight[r].occ>>, NEW o,
         occ' = [occ EXCEPT ![k] = o],
         k \in DOMAIN occ => /\ o \in Occurrence /\ o.msg <= o.rev /\ o.msg <= row[r].rev
  PROVE  OccsSound(occ') /\ SnoozesStay
<1>1. occ \in [DOMAIN occ -> Occurrence]
  BY DEF Types
<1>2. /\ DOMAIN occ' = DOMAIN occ /\ occ' = [x \in DOMAIN occ |-> occ'[x]]
      /\ k \in DOMAIN occ => occ'[k] = o
      /\ \A x \in DOMAIN occ : x # k => occ'[x] = occ[x]
  BY <1>1
<1>3. k[1] = r
  OBVIOUS
<1>4. ASSUME NEW x \in DOMAIN occ
      PROVE  /\ occ'[x] \in Occurrence /\ occ'[x].msg <= occ'[x].rev
             /\ occ'[x].msg <= row[x[1]].rev
  <2>1. CASE x = k
    BY <1>2, <1>3, <2>1
  <2>2. CASE x # k
    BY <1>1, <1>2, <2>2 DEF Stamps
  <2>3. QED
    BY <2>1, <2>2
<1>5. OccsSound(occ')
  <2>1. occ' \in [DOMAIN occ' -> Occurrence]
    BY <1>2, <1>4
  <2>2. QED
    BY <1>2, <1>4, <2>1 DEF OccsSound, Types
<1>6. SnoozesStay
  <2>1. SUFFICES ASSUME NEW i \in Ids \ {Root}, <<Root, i>> \in DOMAIN occ,
                        occ[<<Root, i>>].status = "snoozed",
                        ~(Root \in DOMAIN flight /\ flight[Root].occ = i)
                 PROVE  <<Root, i>> \in DOMAIN occ' /\ occ'[<<Root, i>>].status = "snoozed"
    BY DEF SnoozesStay, HasOcc
  <2>2. <<Root, i>> # k
    BY <2>1
  <2>3. QED
    BY <1>2, <2>1, <2>2
<1>7. QED
  BY <1>5, <1>6

\* A worker that lost the row leaves it, and its flight ends.
LEMMA LostKeeps ==
  ASSUME IInv, NEW r \in DOMAIN flight, EndFlight(r), UNCHANGED <<row, occ>>,
         UNCHANGED <<clock, cards, events>>
  PROVE  IInv' /\ RowsMove /\ Settled /\ PairsEnd
<1>1. Types /\ Stamps /\ Budget /\ CancelEndsFamily
  BY DEF IInv
<1>2. RowsMove
  BY <1>1, NoneMoves
<1>3. OccsSound(occ') /\ SnoozesStay
  BY <1>1, SameOccsSound
<1>4. CancelEndsFamily' /\ Settled /\ PairsEnd
  BY <1>1, <1>3, NoRow
<1>5. FlightsMove
  BY <1>1, EndFlightIs
<1>6. CardsSound(cards') /\ events' \in Nat
  BY <1>1, SameCards
<1>7. QED
  BY <1>2, <1>3, <1>4, <1>5, <1>6, WorkerKeeps

LEMMA RecordKeeps ==
  ASSUME IInv, NEW r \in Ids, RecordMessage(r)
  PROVE  IInv' /\ RowsMove /\ Settled /\ PairsEnd
<1>1. Types /\ Stamps /\ Bound
  BY DEF IInv
<1>2. r \in DOMAIN flight /\ UNCHANGED <<clock, cards, events>>
  BY DEF RecordMessage
<1>3. CASE ~Owns(r)
  <2>1. EndFlight(r) /\ UNCHANGED <<row, occ>>
    BY <1>3 DEF RecordMessage
  <2>2. QED
    BY <1>2, <2>1, LostKeeps
<1>4. CASE Owns(r)
  <2> DEFINE f == flight[r]
             k == <<r, f.occ>>
             n == Larger(occ[k].rev, row[r].rev)
             o == [id |-> occ[k].id, status |-> "delivered", msg |-> f.rev, rev |-> n]
             m == f.rev
             t == f.occ
             q == row[r]
             p == [q EXCEPT !.lastMsg = m, !.lastOcc = t]
  <2>1. /\ occ' = [occ EXCEPT ![k] = o]
        /\ row' = [row EXCEPT ![r] = p]
        /\ Advance(r, "recorded")
    BY <1>4 DEF RecordMessage, SetRow
  <2>2. m \in Nat /\ t \in Nat /\ m <= q.rev /\ q \in Row /\ q.rev \in Nat
    BY <1>1, <1>2, Flights, Rows DEF Stamps
  <2>3. k \in DOMAIN occ => o \in Occurrence /\ o.msg <= o.rev /\ o.msg <= row[r].rev
    <3>1. SUFFICES ASSUME k \in DOMAIN occ
                   PROVE  o \in Occurrence /\ o.msg <= o.rev /\ o.msg <= row[r].rev
      OBVIOUS
    <3>2. occ[k].id \in Nat /\ occ[k].rev \in Nat
      BY <1>1, <3>1, Occs, OccurrenceIs
    <3>3. n \in Nat /\ row[r].rev <= n
      BY <2>2, <3>2, LargerIs
    <3> HIDE DEF n
    <3>4. o \in Occurrence /\ o.msg = m /\ o.rev = n
      BY <2>2, <3>2, <3>3 DEF Occurrence
    <3> HIDE DEF o
    <3>5. QED
      BY <2>2, <3>3, <3>4
  <2> HIDE DEF o
  <2>4. OccsSound(occ') /\ SnoozesStay
    BY <1>1, <1>2, <2>1, <2>3, OneOcc
  <2>5. FlightsMove
    BY <1>1, <1>2, <2>1, AdvanceIs
  <2> HIDE DEF m, t
  <2>6. q \in Row
    BY <2>2
  <2>7. Spare(q) /\ q.status = "processing" /\ q.state \in Live
    BY <1>4 DEF Owns, Spare
  <2> HIDE DEF q
  <2>8. /\ p \in Row /\ p.rev = q.rev /\ p.status = q.status /\ p.state = q.state
        /\ p.remindAt = q.remindAt /\ p.attempts = q.attempts
    BY <2>2, <2>6 DEF Row
  <2> HIDE DEF p
  <2>9. p.rev = row[r].rev /\ Spare(p) /\ p.state \notin Terminal /\ p.remindAt = row[r].remindAt
    BY <2>7, <2>8 DEF Spare, Live, Terminal, q
  <2>10. row' = [row EXCEPT ![r] = p]
    BY <2>1
  <2>11. RowsMove /\ CancelEndsFamily' /\ Settled /\ PairsEnd
    BY <1>2, <1>4, <2>4, <2>8, <2>9, <2>10, OwnedRow
  <2>12. CardsSound(cards') /\ events' \in Nat
    BY <1>1, <1>2, SameCards
  <2>13. QED
    BY <1>2, <2>4, <2>5, <2>11, <2>12, WorkerKeeps
<1>5. QED
  BY <1>3, <1>4

LEMMA SuccessKeeps ==
  ASSUME IInv, NEW r \in Ids, FinalizeSuccess(r)
  PROVE  IInv' /\ RowsMove /\ Settled /\ PairsEnd
<1>1. Types /\ Stamps /\ Bound
  BY DEF IInv
<1>2. r \in DOMAIN flight /\ EndFlight(r) /\ UNCHANGED <<clock, cards, events>>
  BY DEF FinalizeSuccess
<1>3. CASE ~Owns(r)
  <2>1. UNCHANGED <<row, occ>>
    BY <1>3 DEF FinalizeSuccess
  <2>2. QED
    BY <1>2, <2>1, LostKeeps
<1>4. CASE Owns(r)
  <2> DEFINE k == <<r, row[r].remindAt>>
             n == Larger(occ[k].rev, row[r].rev)
             o == [occ[k] EXCEPT !.status = "delivered", !.rev = n]
             q == [row[r] EXCEPT !.attempts = 0]
             next == IF q.rule = "fixed" THEN AdvanceFixed(q.remindAt) ELSE Null
             p == IF next = Null
                    THEN [q EXCEPT !.status = "sent", !.state = "delivered",
                                   !.deliverAt = Null]
                    ELSE [q EXCEPT !.status = "pending", !.state = "scheduled",
                                   !.remindAt = next, !.deliverAt = next]
  <2>1. row' = [row EXCEPT ![r] = p]
    BY <1>4 DEF FinalizeSuccess, SetRow
  <2>2. occ' = [occ EXCEPT ![k] = o]
    <3>1. occ' = [occ EXCEPT ![k].status = "delivered", ![k].rev = Larger(@, row[r].rev)]
      BY <1>4 DEF FinalizeSuccess
    <3>2. occ \in [DOMAIN occ -> Occurrence]
      BY <1>1 DEF Types
    <3> HIDE DEF k
    <3>3. QED
      BY <3>1, <3>2 DEF Occurrence
  <2>3. row[r] \in Row /\ row[r].rev \in Nat /\ row[r].remindAt \in Nat
    BY <1>1, Rows, RowIs
  <2>4. k = <<r, flight[r].occ>>
    BY <1>1, <1>2, <1>4 DEF Bound
  <2>5. k \in DOMAIN occ => o \in Occurrence /\ o.msg <= o.rev /\ o.msg <= row[r].rev
    <3>1. SUFFICES ASSUME k \in DOMAIN occ
                   PROVE  o \in Occurrence /\ o.msg <= o.rev /\ o.msg <= row[r].rev
      OBVIOUS
    <3> DEFINE v == occ[k]
    <3>2. v \in Occurrence /\ v.rev \in Nat /\ v.msg \in Nat
      BY <1>1, <3>1, Occs
    <3>3. n \in Nat /\ row[r].rev <= n
      BY <2>3, <3>2, LargerIs
    <3>4. v.msg <= row[r].rev
      <4>1. v.msg <= row[k[1]].rev /\ k[1] = r
        BY <1>1, <3>1 DEF Stamps
      <4>2. QED
        BY <4>1
    <3> HIDE DEF n, v
    <3>5. o = [v EXCEPT !.status = "delivered", !.rev = n]
      BY DEF v
    <3> HIDE DEF o
    <3>6. o \in Occurrence /\ o.msg = v.msg /\ o.rev = n
      BY <3>2, <3>3, <3>5 DEF Occurrence
    <3>7. QED
      BY <2>3, <3>2, <3>3, <3>4, <3>6
  <2> HIDE DEF o, k
  <2>6. OccsSound(occ') /\ SnoozesStay
    BY <1>1, <1>2, <2>2, <2>4, <2>5, OneOcc
  <2>7. FlightsMove
    BY <1>1, <1>2, EndFlightIs
  <2>8. q \in Row /\ q.rev = row[r].rev /\ q.attempts = 0 /\ q.remindAt = row[r].remindAt
    BY <2>3 DEF Row
  <2> HIDE DEF q
  <2>9. next \in Nat
    BY <2>3, <2>8, AdvanceFixedIs DEF Null
  <2> HIDE DEF next
  <2>10. /\ p \in Row /\ p.rev = q.rev /\ p.attempts = 0 /\ p.status \in {"sent", "pending"}
         /\ p.state \in {"delivered", "scheduled"}
    <3>1. CASE next = Null
      BY <2>8, <3>1 DEF Row, Active, Live, Null
    <3>2. CASE next # Null
      BY <2>8, <2>9, <3>2 DEF Row, Active, Live
    <3>3. QED
      BY <3>1, <3>2
  <2> HIDE DEF p
  <2>11. p.rev = row[r].rev /\ Spare(p) /\ p.state \notin Terminal /\ p.status # "processing"
    BY <2>8, <2>10, SettingsAre DEF Spare, Terminal
  <2>12. RowsMove /\ CancelEndsFamily' /\ Settled /\ PairsEnd
    BY <1>2, <1>4, <2>1, <2>6, <2>10, <2>11, OwnedRow
  <2>13. CardsSound(cards') /\ events' \in Nat
    BY <1>1, <1>2, SameCards
  <2>14. QED
    BY <1>2, <2>6, <2>7, <2>12, <2>13, WorkerKeeps
<1>5. QED
  BY <1>3, <1>4

LEMMA FailureKeeps ==
  ASSUME IInv, NEW r \in Ids, FinalizeFailure(r)
  PROVE  IInv' /\ RowsMove /\ Settled /\ PairsEnd
<1>1. Types /\ Stamps /\ Bound
  BY DEF IInv
<1>2. r \in DOMAIN flight /\ EndFlight(r) /\ UNCHANGED <<clock, cards, events>>
  BY DEF FinalizeFailure
<1>3. CASE ~Owns(r)
  <2>1. UNCHANGED <<row, occ>>
    BY <1>3 DEF FinalizeFailure
  <2>2. QED
    BY <1>2, <2>1, LostKeeps
<1>4. CASE Owns(r)
  <2> DEFINE k == <<r, row[r].remindAt>>
             o == [occ[k] EXCEPT !.status = "failed", !.msg = Null]
             q == ClearIdentity(row[r])
             a == [q EXCEPT !.status = "failed", !.state = "failed"]
             b == [q EXCEPT !.status = "pending", !.state = "scheduled"]
  <2>1. \/ row' = [row EXCEPT ![r] = a]
        \/ q.attempts < MaxAttempts /\ row' = [row EXCEPT ![r] = b]
    BY <1>4 DEF FinalizeFailure, SetRow
  <2>2. occ' = [occ EXCEPT ![k] = o]
    <3>1. occ' = [occ EXCEPT ![k].status = "failed", ![k].msg = Null]
      BY <1>4 DEF FinalizeFailure
    <3>2. occ \in [DOMAIN occ -> Occurrence]
      BY <1>1 DEF Types
    <3> HIDE DEF k
    <3>3. QED
      BY <3>1, <3>2 DEF Occurrence
  <2>3. row[r] \in Row /\ row[r].rev \in Nat /\ row[r].remindAt \in Nat
    BY <1>1, Rows, RowIs
  <2>4. k = <<r, flight[r].occ>>
    BY <1>1, <1>2, <1>4 DEF Bound
  <2>5. k \in DOMAIN occ => o \in Occurrence /\ o.msg <= o.rev /\ o.msg <= row[r].rev
    <3>1. SUFFICES ASSUME k \in DOMAIN occ
                   PROVE  o \in Occurrence /\ o.msg <= o.rev /\ o.msg <= row[r].rev
      OBVIOUS
    <3> DEFINE v == occ[k]
    <3>2. v \in Occurrence /\ v.rev \in Nat
      BY <1>1, <3>1, Occs
    <3> HIDE DEF v
    <3>3. o = [v EXCEPT !.status = "failed", !.msg = Null]
      BY DEF v
    <3> HIDE DEF o
    <3>4. o \in Occurrence /\ o.msg = 0 /\ o.rev = v.rev
      BY <3>2, <3>3 DEF Occurrence, Null
    <3>5. QED
      BY <2>3, <3>2, <3>4
  <2> HIDE DEF o, k
  <2>6. OccsSound(occ') /\ SnoozesStay
    BY <1>1, <1>2, <2>2, <2>4, <2>5, OneOcc
  <2>7. FlightsMove
    BY <1>1, <1>2, EndFlightIs
  <2>8. q \in Row /\ q.rev = row[r].rev /\ q.attempts = row[r].attempts
    BY <2>3, ClearIs
  <2> HIDE DEF q
  <2>9. /\ a \in Row /\ a.rev = q.rev /\ a.status = "failed" /\ a.state = "failed"
        /\ b \in Row /\ b.rev = q.rev /\ b.status = "pending" /\ b.state = "scheduled"
        /\ b.attempts = q.attempts
    BY <2>8 DEF Row, Active, Live
  <2> HIDE DEF a, b
  <2>10. RowsMove /\ CancelEndsFamily' /\ Settled /\ PairsEnd
    <3>1. CASE row' = [row EXCEPT ![r] = a]
      <4>1. a.rev = row[r].rev /\ Spare(a) /\ a.state \notin Terminal /\ a.status # "processing"
        BY <2>8, <2>9 DEF Spare, Terminal
      <4>2. QED
        BY <1>2, <1>4, <2>6, <2>9, <3>1, <4>1, OwnedRow
    <3>2. CASE q.attempts < MaxAttempts /\ row' = [row EXCEPT ![r] = b]
      <4>1. b.rev = row[r].rev /\ Spare(b) /\ b.state \notin Terminal /\ b.status # "processing"
        BY <2>8, <2>9, <3>2 DEF Spare, Terminal
      <4>2. QED
        BY <1>2, <1>4, <2>6, <2>9, <3>2, <4>1, OwnedRow
    <3>3. QED
      BY <2>1, <3>1, <3>2
  <2>11. CardsSound(cards') /\ events' \in Nat
    BY <1>1, <1>2, SameCards
  <2>12. QED
    BY <1>2, <2>6, <2>7, <2>10, <2>11, WorkerKeeps
<1>5. QED
  BY <1>3, <1>4

LEMMA TickKeeps ==
  ASSUME IInv, Tick
  PROVE  IInv' /\ RowsMove /\ Settled /\ PairsEnd
<1>1. Types /\ Stamps /\ Budget /\ CancelEndsFamily
  BY DEF IInv
<1>2. UNCHANGED <<row, occ, flight, cards, events>> /\ clock' = clock + 1
  BY DEF Tick
<1>3. RowsMove
  BY <1>1, <1>2, NoneMoves
<1>4. OccsSound(occ') /\ SnoozesStay
  BY <1>1, <1>2, SameOccsSound
<1>5. CancelEndsFamily' /\ Settled /\ PairsEnd
  BY <1>1, <1>2, <1>4, NoRow
<1>6. FlightsMove
  BY <1>1, <1>2 DEF FlightsMove, Types
<1>7. CardsSound(cards') /\ events' \in Nat
  BY <1>1, <1>2, SameCards
<1>8. clock' \in Nat /\ clock <= clock'
  BY <1>1, <1>2 DEF Types
<1>9. QED
  BY <1>3, <1>4, <1>5, <1>6, <1>7, <1>8, StepKeeps

\* The step of ListsGoStale.
GoStale ==
  \A r \in Ids :
    /\ Listed(r)
    /\ \/ row'[r].state # row[r].state \/ row'[r].status # row[r].status
       \/ row'[r].remindAt # row[r].remindAt \/ row'[r].deliverAt # row[r].deliverAt
    => row'[r].rev > row[r].rev

LEMMA MovesGoStale ==
  ASSUME RowsMove, Types
  PROVE  GoStale
<1>1. SUFFICES ASSUME NEW r \in Ids, Listed(r),
                      \/ row'[r].state # row[r].state \/ row'[r].status # row[r].status
                      \/ row'[r].remindAt # row[r].remindAt \/ row'[r].deliverAt # row[r].deliverAt
               PROVE  row'[r].rev > row[r].rev
  BY DEF GoStale
<1>2. Moves(row[r], row'[r])
  BY DEF RowsMove
<1>3. row[r].status # "processing"
  BY <1>1 DEF Listed
<1>4. row[r].rev < row'[r].rev
  BY <1>1, <1>2, <1>3 DEF Moves
<1>5. row[r].rev \in Nat /\ row'[r].rev \in Nat
  <2>1. row'[r] \in Row
    BY <1>2 DEF Moves
  <2>2. QED
    BY <2>1, Rows, RowIs
<1>6. QED
  BY <1>4, <1>5

\* What a claim leaves in the row.
LEMMA ClaimedIs ==
  ASSUME NEW q \in Row
  PROVE  LET p == ClearIdentity([q EXCEPT !.status = "processing", !.rev = @ + 1,
                                          !.attempts = @ + 1])
         IN /\ p \in Row /\ p.state = q.state /\ p.status = "processing" /\ p.rev = q.rev + 1
            /\ p.remindAt = q.remindAt /\ p.rule = q.rule
<1> DEFINE n == q.rev + 1
           m == q.attempts + 1
           o == [q EXCEPT !.status = "processing", !.rev = n, !.attempts = m]
           p == ClearIdentity([q EXCEPT !.status = "processing", !.rev = @ + 1,
                                        !.attempts = @ + 1])
<1>1. n \in Nat /\ m \in Nat
  BY RowIs
<1>2. p = ClearIdentity(o)
  OBVIOUS
<1> HIDE DEF n, m
<1>3. /\ o \in Row /\ o.state = q.state /\ o.status = "processing" /\ o.rev = n
      /\ o.remindAt = q.remindAt /\ o.rule = q.rule
  BY <1>1 DEF Row
<1> HIDE DEF o
<1>4. /\ ClearIdentity(o) \in Row /\ ClearIdentity(o).state = o.state
      /\ ClearIdentity(o).status = o.status /\ ClearIdentity(o).rev = o.rev
      /\ ClearIdentity(o).remindAt = o.remindAt /\ ClearIdentity(o).rule = o.rule
  BY <1>3, ClearIs
<1> HIDE DEF p
<1>5. /\ p \in Row /\ p.state = q.state /\ p.status = "processing" /\ p.rev = n
      /\ p.remindAt = q.remindAt /\ p.rule = q.rule
  BY <1>2, <1>3, <1>4
<1>6. QED
  BY <1>5 DEF n, p

\* A row that is taken gets a flight with its new revision and its occurrence.
LEMMA TakenKeeps ==
  ASSUME IInv, NEW r \in Ids, row[r].state \in Live, NEW p \in Row,
         p.state = row[r].state, p.status = "processing", p.rev = row[r].rev + 1,
         p.remindAt = row[r].remindAt, p.rule = row[r].rule,
         NEW n, n = row[r].rev + 1,
         row' = [row EXCEPT ![r] = p],
         flight' = Put(flight, r, [step |-> "claimed", rev |-> n, occ |-> row[r].remindAt]),
         UNCHANGED <<clock, occ, cards, events>>
  PROVE  IInv' /\ GoStale /\ Settled /\ PairsEnd
<1>1. Types /\ CancelEndsFamily /\ Budget /\ Over /\ Stamps /\ Bound
  BY DEF IInv
<1>2. /\ row \in [Ids -> Row] /\ Root \in Ids /\ Ids \subseteq Nat
      /\ DOMAIN flight \subseteq Ids /\ flight \in [DOMAIN flight -> Flight]
  BY <1>1 DEF Types
<1>3. row[r] \in Row /\ row[r].rev \in Nat /\ row[r].remindAt \in Nat
  BY <1>1, Rows, RowIs
<1>4. n \in Nat /\ n # 0 /\ row[r].rev < n /\ p.rev = n
  BY <1>3
<1>5. /\ Ids' = Ids /\ row' \in [Ids -> Row] /\ row'[r] = p
      /\ \A i \in Ids : i # r => row'[i] = row[i]
  BY <1>2 DEF Ids
<1> DEFINE f == [step |-> "claimed", rev |-> n, occ |-> row[r].remindAt]
<1>6. f \in Flight /\ f.rev = n /\ f.occ = row[r].remindAt
  BY <1>3, <1>4 DEF Flight
<1>7. flight' = Put(flight, r, f)
  OBVIOUS
<1> HIDE DEF f
<1>8. /\ DOMAIN flight' = DOMAIN flight \cup {r} /\ flight'[r] = f
      /\ \A i \in DOMAIN flight : i # r => flight'[i] = flight[i]
      /\ flight' = [i \in DOMAIN flight \cup {r} |-> flight'[i]]
  BY <1>7 DEF Put
<1>9. row[r].state \notin Terminal /\ p.state \notin Terminal /\ p.state # "cancelled"
  BY DEF Live, Terminal
<1>10. SnoozesStay
  BY <1>1, SameOccsSound
<1>11. CancelEndsFamily' /\ Settled /\ PairsEnd
  BY <1>1, <1>9, <1>10, OneRow
<1>12. Types'
  <2>1. \A i \in DOMAIN flight' : flight'[i] \in Flight
    BY <1>2, <1>6, <1>8
  <2>2. flight' \in [DOMAIN flight' -> Flight] /\ DOMAIN flight' \subseteq Ids
    BY <1>2, <1>8, <2>1
  <2>3. QED
    BY <1>1, <1>2, <1>5, <2>2 DEF Types
<1>13. Budget'
  <2>1. \A i \in Ids : Spare(row'[i])
    BY <1>1, <1>5 DEF Budget, Spare
  <2>2. QED
    BY <1>5, <2>1 DEF Budget, Spare
<1>14. Over'
  <2>1. row'[Root].state = row[Root].state /\ row'[Root].rule = row[Root].rule
    BY <1>2, <1>5
  <2>2. QED
    BY <1>1, <2>1 DEF Over
<1>15. Stamps'
  <2>1. ASSUME NEW i \in DOMAIN flight'
        PROVE  flight'[i].rev # 0 /\ flight'[i].rev <= row'[i].rev
    <3>1. CASE i = r
      BY <1>4, <1>5, <1>6, <1>8, <3>1
    <3>2. CASE i # r
      BY <1>1, <1>2, <1>5, <1>8, <3>2 DEF Stamps
    <3>3. QED
      BY <3>1, <3>2
  <2>2. ASSUME NEW k \in DOMAIN occ
        PROVE  occ[k].msg <= occ[k].rev /\ occ[k].msg <= row'[k[1]].rev
    <3>1. /\ k[1] \in Ids /\ occ[k].msg \in Nat /\ occ[k].msg <= occ[k].rev
          /\ occ[k].msg <= row[k[1]].rev
      BY <1>1, Occs DEF Stamps
    <3>2. CASE k[1] = r
      BY <1>3, <1>4, <1>5, <3>1, <3>2
    <3>3. CASE k[1] # r
      BY <1>5, <3>1, <3>3
    <3>4. QED
      BY <3>1, <3>2, <3>3
  <2>3. QED
    BY <1>1, <2>1, <2>2 DEF Stamps
<1>16. Bound'
  <2>1. SUFFICES ASSUME NEW i \in DOMAIN flight', row'[i].status = "processing",
                        row'[i].state \in Live
                 PROVE  row'[i].remindAt = flight'[i].occ
    BY DEF Bound, Owns
  <2>2. CASE i = r
    BY <1>5, <1>6, <1>8, <2>2
  <2>3. CASE i # r
    BY <1>1, <1>2, <1>5, <1>8, <2>1, <2>3 DEF Bound, Owns
  <2>4. QED
    BY <2>2, <2>3
<1>17. GoStale
  <2>1. ASSUME NEW i \in Ids, i # r PROVE row'[i] = row[i]
    BY <1>5, <2>1
  <2>2. row'[r].rev > row[r].rev
    BY <1>3, <1>4, <1>5
  <2>3. QED
    BY <2>1, <2>2 DEF GoStale
<1>18. QED
  BY <1>11, <1>12, <1>13, <1>14, <1>15, <1>16, <1>17 DEF IInv

LEMMA ClaimKeeps ==
  ASSUME IInv, NEW r \in Ids, Claim(r)
  PROVE  IInv' /\ GoStale /\ Settled /\ PairsEnd
<1>1. Types /\ CancelEndsFamily /\ Budget /\ Stamps
  BY DEF IInv
<1> DEFINE q == row[r]
           a == [q EXCEPT !.status = "sent", !.state = "cancelled", !.rev = @ + 1,
                          !.deliverAt = Null]
           g == [q EXCEPT !.status = "failed", !.state = "failed"]
           b == ClearIdentity(g)
           c == ClearIdentity([q EXCEPT !.status = "processing", !.rev = @ + 1,
                                        !.attempts = @ + 1])
<1>2. q.state \in Live /\ q.status \in {"pending", "processing"}
  BY DEF Claim, Claimable
<1>3. /\ row' = [row EXCEPT ![r] = IF SourceSettled(r) THEN a
                                   ELSE IF q.attempts >= MaxAttempts THEN b ELSE c]
      /\ flight' = IF ~SourceSettled(r) /\ q.attempts < MaxAttempts
                     THEN Put(flight, r, [step |-> "claimed", rev |-> q.rev + 1,
                                          occ |-> q.remindAt])
                     ELSE flight
      /\ UNCHANGED <<clock, occ, cards, events>>
  BY DEF Claim, SetRow
<1>4. q \in Row /\ q.rev \in Nat /\ q.attempts \in Nat
  BY <1>1, Rows, RowIs
<1>5. OccsSound(occ') /\ SnoozesStay /\ CardsSound(cards') /\ events' \in Nat
  BY <1>1, <1>3, SameOccsSound, SameCards
<1>6. q.state \notin Terminal /\ q.state # "cancelled"
  BY <1>2 DEF Live, Terminal
<1>7. ASSUME NEW p, Moves(row[r], p), p.state # "completed", row' = [row EXCEPT ![r] = p],
             flight' = flight, p.state = "cancelled" => SourceSettled(r)
      PROVE  IInv' /\ GoStale /\ Settled /\ PairsEnd
  <2>1. RowsMove
    BY <1>1, <1>7, OneMoves
  <2>2. p.state = "cancelled" => r # Root /\ ~Paired(r)
    <3>1. SUFFICES ASSUME p.state = "cancelled" PROVE r # Root /\ ~Paired(r)
      OBVIOUS
    <3>2. r # Root /\ occ[<<Root, r>>].status \in Terminal
      BY <1>7, <3>1 DEF SourceSettled
    <3>3. QED
      BY <3>2 DEF Paired, Terminal
  <2>3. p.state = "cancelled" => r # Root
    BY <2>2
  <2>4. p.state \in Terminal /\ r # Root => ~Paired(r)
    BY <1>7, <2>2 DEF Terminal
  <2>5. CancelEndsFamily' /\ Settled /\ PairsEnd
    BY <1>1, <1>5, <1>6, <1>7, <2>3, <2>4, OneRow
  <2>6. FlightsMove
    BY <1>1, <1>7 DEF FlightsMove, Types
  <2>7. clock' = clock
    BY <1>3
  <2>8. QED
    BY <1>1, <1>5, <2>1, <2>5, <2>6, <2>7, WorkerKeeps, MovesGoStale
<1>8. CASE SourceSettled(r)
  <2> DEFINE n == q.rev + 1
  <2>1. n \in Nat /\ q.rev < n /\ q.rev <= n
    BY <1>4
  <2>2. a = [q EXCEPT !.status = "sent", !.state = "cancelled", !.rev = n, !.deliverAt = Null]
    OBVIOUS
  <2>3. row' = [row EXCEPT ![r] = a] /\ flight' = flight
    BY <1>3, <1>8
  <2> HIDE DEF n, q
  <2>4. a \in Row /\ a.status = "sent" /\ a.state = "cancelled" /\ a.rev = n
    BY <1>4, <2>1, <2>2 DEF Row, Terminal, Null
  <2> HIDE DEF a
  <2>5. Moves(q, a)
    BY <2>1, <2>4 DEF Moves, Spare
  <2>6. Moves(row[r], a)
    BY <2>5 DEF q
  <2>7. QED
    BY <1>7, <1>8, <2>3, <2>4, <2>6
<1>9. CASE ~SourceSettled(r) /\ q.attempts >= MaxAttempts
  <2>a. q.attempts >= MaxAttempts /\ ~(q.attempts < MaxAttempts)
    BY <1>4, <1>9, SettingsAre
  <2>b. ~SourceSettled(r)
    BY <1>9
  <2>1. row' = [row EXCEPT ![r] = b] /\ flight' = flight
    <3> HIDE DEF a, b, c, g
    <3>1. QED
      BY <1>3, <2>a, <2>b
  <2>2. q.status = "processing"
    BY <1>1, <1>2, <1>4, <1>9, SettingsAre DEF Budget, Spare
  <2> HIDE DEF q
  <2>3. /\ g \in Row /\ g.status = "failed" /\ g.state = "failed" /\ g.rev = q.rev
    BY <1>4 DEF Row
  <2> HIDE DEF g
  <2>4. b \in Row /\ b.status = "failed" /\ b.state = "failed" /\ b.rev = q.rev
    BY <2>3, ClearIs
  <2> HIDE DEF b
  <2>5. Moves(q, b)
    BY <1>4, <2>2, <2>4 DEF Moves, Spare
  <2>6. Moves(row[r], b)
    BY <2>5 DEF q
  <2>7. QED
    BY <1>7, <2>1, <2>4, <2>6
<1>10. CASE ~SourceSettled(r) /\ q.attempts < MaxAttempts
  <2> DEFINE n == q.rev + 1
  <2>1. /\ row' = [row EXCEPT ![r] = c]
        /\ flight' = Put(flight, r, [step |-> "claimed", rev |-> n, occ |-> q.remindAt])
    <3>a. ~(q.attempts >= MaxAttempts) /\ q.attempts < MaxAttempts
      BY <1>4, <1>10, SettingsAre
    <3>b. ~SourceSettled(r)
      BY <1>10
    <3> HIDE DEF a, b, c, g
    <3>1. QED
      BY <1>3, <3>a, <3>b
  <2>2. /\ c \in Row /\ c.state = q.state /\ c.status = "processing" /\ c.rev = n
        /\ c.remindAt = q.remindAt /\ c.rule = q.rule
    BY <1>4, ClaimedIs
  <2> HIDE DEF c
  <2>3. row[r].state \in Live
    BY <1>2
  <2>4. QED
    BY <1>3, <2>1, <2>2, <2>3, TakenKeeps
<1>11. QED
  BY <1>4, <1>8, <1>9, <1>10, SettingsAre

-----------------------------------------------------------------------------
(* The buttons of a row after a press on an occurrence of it               *)

\* The step of PressesRetireCards.
Retire ==
  \A c \in cards : events' # events /\ CardCurrent(c)' =>
    ~ \E t \in Targets(c.row) \ {Null} : Button(c.row, t)

\* What a current card says of its row and of its occurrence.
LEMMA CurrentIs ==
  ASSUME NEW c, CardCurrent(c)'
  PROVE  /\ row'[c.row].state \notin Terminal /\ row'[c.row].lastMsg = c.rev
         /\ row'[c.row].lastOcc = c.occ
         /\ occ'[<<c.row, c.occ>>].rev = c.rev /\ occ'[<<c.row, c.occ>>].msg = c.rev
BY DEF CardCurrent, IsCurrent

\* The revision of the occurrence rises over that of every message of it.
LEMMA RaisedRetires ==
  ASSUME Types, Stamps, NEW c, NEW t, NEW n \in Nat, <<c.row, t>> \in DOMAIN occ,
         occ[<<c.row, t>>].msg < n, row'[c.row].lastOcc = t,
         occ' = [occ EXCEPT ![<<c.row, t>>].rev = n]
  PROVE  ~CardCurrent(c)'
<1> DEFINE k == <<c.row, t>>
           o == occ[k]
<1>1. o \in Occurrence /\ o.msg \in Nat /\ o.msg < n
  BY Occs
<1>2. occ'[k] = [o EXCEPT !.rev = n]
  BY DEF Types
<1>3. k = <<c.row, t>>
  OBVIOUS
<1> HIDE DEF o, k
<1>4. occ'[k].rev = n /\ occ'[k].msg = o.msg
  BY <1>1, <1>2 DEF Occurrence
<1>5. SUFFICES ASSUME CardCurrent(c)' PROVE FALSE
  OBVIOUS
<1>6. c.occ = t /\ occ'[<<c.row, c.occ>>].rev = c.rev /\ occ'[<<c.row, c.occ>>].msg = c.rev
  BY <1>5, CurrentIs
<1>7. occ'[k].rev = c.rev /\ occ'[k].msg = c.rev
  BY <1>3, <1>6
<1>8. QED
  BY <1>1, <1>4, <1>7

\* After Snooze, Done, Edit or Delete the row has no message or is settled;
\* Pause and an edit of the text raise the revision of the occurrence.
LEMMA PressRetires ==
  ASSUME IInv, NEW c \in cards, c.row \in Ids, NEW t, t # Null, Button(c.row, t)
  PROVE  ~CardCurrent(c)'
<1> DEFINE r == c.row
<1>1. Types /\ Stamps
  BY DEF IInv
<1>2. r \in Ids /\ row \in [Ids -> Row] /\ clock \in Nat /\ Delays \subseteq Nat
  BY <1>1, SettingsAre DEF Types
<1>3. c.rev # Null
  BY <1>1 DEF Stamps, Null
<1>4. IsCurrent(r, t) /\ Press(r, t)
  BY <1>1, <1>2, ButtonKeeps, PressIs
<1>5. <<r, t>> \in DOMAIN occ /\ row[r].lastOcc = t
  BY <1>4 DEF IsCurrent, HasOcc
<1>6. /\ row[r] \in Row /\ row[r].rev \in Nat
      /\ occ[<<r, t>>].rev \in Nat /\ occ[<<r, t>>].msg \in Nat
      /\ occ[<<r, t>>].msg <= occ[<<r, t>>].rev /\ occ[<<r, t>>].msg <= row[r].rev
  <2> DEFINE k == <<r, t>>
  <2>1. k \in DOMAIN occ /\ k[1] = r
    BY <1>5
  <2> HIDE DEF k
  <2>2. /\ occ[k].rev \in Nat /\ occ[k].msg \in Nat
        /\ occ[k].msg <= occ[k].rev /\ occ[k].msg <= row[k[1]].rev
    BY <1>1, <2>1, Occs DEF Stamps
  <2>3. QED
    BY <1>1, <1>2, <2>1, <2>2, Rows DEF k
<1>7. ASSUME row'[r].state \in Terminal \/ row'[r].lastMsg = Null
      PROVE  ~CardCurrent(c)'
  BY <1>3, <1>7, CurrentIs
<1>8. CASE Done(r, t)
  <2>1. CASE r = Root
    <3>1. Done(Root, t)
      BY <1>8, <2>1
    <3>2. row'[Root].state \in Terminal \/ row'[Root].lastMsg = Null
      BY <3>1, DoneRootKeeps
    <3>3. QED
      BY <1>7, <2>1, <3>2
  <2>2. CASE r # Root
    BY <1>2, <1>7, <1>8, <2>2, DoneChildKeeps
  <2>3. QED
    BY <2>1, <2>2
<1>9. ASSUME NEW d \in Delays, Snooze(r, t, clock + d) PROVE ~CardCurrent(c)'
  <2> DEFINE at == clock + d
  <2>1. at \in Nat /\ Snooze(r, t, at)
    BY <1>2, <1>9
  <2> HIDE DEF at
  <2>2. row'[r].lastMsg = Null
    BY <1>2, <2>1, SnoozeKeeps
  <2>3. QED
    BY <1>7, <2>2
<1>10. ASSUME NEW d \in Delays, NEW rule \in EditRules, EditSchedule(r, t, rule, clock + d)
       PROVE  ~CardCurrent(c)'
  <2> DEFINE at == clock + d
  <2>1. at \in Nat /\ EditSchedule(r, t, rule, at)
    BY <1>2, <1>10
  <2> HIDE DEF at
  <2>2. row'[r].lastMsg = Null
    BY <1>2, <2>1, EditScheduleKeeps
  <2>3. QED
    BY <1>7, <2>2
<1>11. CASE Delete(r, t)
  BY <1>2, <1>7, <1>11, DeleteKeeps
<1> DEFINE v == Revise(row[r])
<1>12. v \in Row /\ v.rev = row[r].rev + 1 /\ v.lastOcc = row[r].lastOcc
  BY <1>6, ReviseIs
<1>13. CASE Pause(r, t)
  <2> DEFINE n == occ[<<r, t>>].rev + 1
             p == [v EXCEPT !.state = "paused", !.deliverAt = row[r].remindAt]
  <2>1. row' = [row EXCEPT ![r] = p] /\ occ' = [occ EXCEPT ![<<r, t>>].rev = n]
    BY <1>13 DEF Pause, SetRow
  <2>2. n \in Nat /\ occ[<<r, t>>].msg < n
    BY <1>6
  <2> HIDE DEF v, n
  <2>3. row'[r].lastOcc = t
    BY <1>2, <1>5, <1>12, <2>1 DEF Row
  <2>4. QED
    BY <1>1, <1>5, <2>1, <2>2, <2>3, RaisedRetires
<1>14. CASE EditText(r, t)
  <2> DEFINE n == v.rev
             p == [v EXCEPT !.status = IF v.state = "delivered" THEN "sent" ELSE "pending",
                            !.attempts = 0]
  <2>1. row' = [row EXCEPT ![r] = p] /\ occ' = [occ EXCEPT ![<<r, t>>].rev = n]
    BY <1>14 DEF EditText, SetRow
  <2>2. n \in Nat /\ occ[<<r, t>>].msg < n
    BY <1>6, <1>12
  <2> HIDE DEF v, n
  <2>3. row'[r].lastOcc = t
    BY <1>2, <1>5, <1>12, <2>1 DEF Row
  <2>4. QED
    BY <1>1, <1>5, <2>1, <2>2, <2>3, RaisedRetires
<1>15. QED
  BY <1>8, <1>9, <1>10, <1>11, <1>13, <1>14 DEF Button

LEMMA RetireHolds ==
  ASSUME IInv
  PROVE  Retire
<1>1. SUFFICES ASSUME NEW c \in cards, CardCurrent(c)',
                      NEW t \in Targets(c.row) \ {Null}, Button(c.row, t)
               PROVE  FALSE
  BY DEF Retire
<1>2. c.row \in Ids
  <2>1. PICK k \in DOMAIN occ : k[1] = c.row
    BY DEF Targets
  <2>2. QED
    BY <2>1, Occs DEF IInv
<1>3. QED
  BY <1>1, <1>2, PressRetires

-----------------------------------------------------------------------------
(* The specification                                                       *)

LEMMA InitHolds == Init => IInv
<1> SUFFICES ASSUME Init PROVE IInv
  OBVIOUS
<1>1. PICK rule \in Rules, t \in FirstTimes :
        row = [r \in {Root} |-> NewRow(rule, "scheduled", t)]
  BY DEF Init
<1>2. /\ clock = 0 /\ occ = [k \in {} |-> Null] /\ flight = [r \in {} |-> Null]
      /\ cards = {} /\ events = 0
  BY DEF Init
<1> DEFINE q == NewRow(rule, "scheduled", t)
<1>3. q \in Row /\ q.state = "scheduled" /\ q.status = "pending" /\ q.attempts = 0
  BY SettingsAre, NewRowIs DEF Live
<1> HIDE DEF q
<1>4. row = [r \in {Root} |-> q]
  BY <1>1 DEF q
<1>5. Ids = {Root} /\ row \in [Ids -> Row] /\ row[Root] = q /\ Root \in Nat
  BY <1>3, <1>4 DEF Ids, Root
<1>6. DOMAIN occ = {} /\ DOMAIN flight = {}
  BY <1>2
<1>7. occ \in [DOMAIN occ -> Occurrence] /\ flight \in [DOMAIN flight -> Flight]
  BY <1>2
<1>8. Types
  <2>1. IsFiniteSet(DOMAIN occ)
    BY <1>6, FS_EmptySet
  <2>2. DOMAIN occ \subseteq Ids \X Nat
    BY <1>6
  <2>3. DOMAIN flight \subseteq Ids
    BY <1>6
  <2>4. Root \in Ids /\ Ids \subseteq Nat /\ row \in [Ids -> Row]
    BY <1>5
  <2>5. cards \subseteq Card /\ events \in Nat /\ clock \in Nat
    BY <1>2
  <2>6. QED
    BY <1>7, <2>1, <2>2, <2>3, <2>4, <2>5 DEF Types
<1>9. CancelEndsFamily /\ Budget /\ Over
  BY <1>3, <1>5, SettingsAre DEF CancelEndsFamily, Budget, Over, Spare
<1>10. Stamps /\ Bound
  BY <1>2, <1>6 DEF Stamps, Bound
<1>11. QED
  BY <1>8, <1>9, <1>10 DEF IInv

LEMMA StutterKeeps ==
  ASSUME IInv, UNCHANGED vars
  PROVE  IInv' /\ GoStale /\ Settled /\ PairsEnd
<1>1. Types /\ Stamps /\ Budget /\ CancelEndsFamily
  BY DEF IInv
<1>2. UNCHANGED <<clock, row, occ, flight, cards, events>>
  BY DEF vars
<1>3. IInv'
  BY <1>2 DEF IInv, Types, CancelEndsFamily, Budget, Over, Stamps, Bound, Ids, Owns, Spare
<1>4. SnoozesStay
  BY <1>1, <1>2, SameOccsSound
<1>5. Settled /\ PairsEnd
  BY <1>1, <1>2, <1>4, NoRow
<1>6. GoStale
  BY <1>1, <1>2, NoneMoves, MovesGoStale
<1>7. QED
  BY <1>3, <1>5, <1>6

LEMMA NextStep ==
  ASSUME IInv, [Next]_vars
  PROVE  IInv' /\ GoStale /\ Settled /\ PairsEnd
<1>1. Types
  BY DEF IInv
<1>2. CASE Tick
  BY <1>1, <1>2, TickKeeps, MovesGoStale
<1>3. ASSUME NEW r \in Ids, WorkerStep(r)
      PROVE  IInv' /\ GoStale /\ Settled /\ PairsEnd
  <2>1. CASE Claim(r)
    BY <2>1, ClaimKeeps
  <2>2. CASE PrepareOccurrence(r)
    BY <1>1, <2>2, PrepareKeeps, MovesGoStale
  <2>3. CASE Send(r)
    BY <1>1, <2>3, SendKeeps, MovesGoStale
  <2>4. CASE RecordMessage(r)
    BY <1>1, <2>4, RecordKeeps, MovesGoStale
  <2>5. CASE FinalizeSuccess(r)
    BY <1>1, <2>5, SuccessKeeps, MovesGoStale
  <2>6. CASE FinalizeFailure(r)
    BY <1>1, <2>6, FailureKeeps, MovesGoStale
  <2>7. CASE Abandon(r)
    BY <1>1, <2>7, AbandonKeeps, MovesGoStale
  <2>8. QED
    BY <1>3, <2>1, <2>2, <2>3, <2>4, <2>5, <2>6, <2>7 DEF WorkerStep
<1>4. ASSUME NEW r \in Ids, UserAction(r)
      PROVE  IInv' /\ GoStale /\ Settled /\ PairsEnd
  BY <1>1, <1>4, UserActionKeeps, MovesGoStale
<1>5. CASE UNCHANGED vars
  BY <1>5, StutterKeeps
<1>6. QED
  BY <1>2, <1>3, <1>4, <1>5 DEF Next

\* The inductive invariant holds in every reachable state.
LEMMA Invariance == Spec => []IInv
<1>1. Init => IInv
  BY InitHolds
<1>2. IInv /\ [Next]_vars => IInv'
  BY NextStep
<1>3. QED
  BY <1>1, <1>2, PTL DEF Spec

\* Every reachable state has its type.
THEOREM TypeCorrect == Spec => []TypeOK
<1>1. IInv => TypeOK
  BY DEF IInv, Types, TypeOK
<1>2. QED
  BY <1>1, Invariance, PTL

\* Deleting a series ends all of its children, whatever a worker that delivers
\* one of them does before or after, and no later action makes or revives one
\* (cancel_reminder, _cancel_children).
THEOREM CancelledFamilies == Spec => []CancelEndsFamily
<1>1. IInv => CancelEndsFamily
  BY DEF IInv
<1>2. QED
  BY <1>1, Invariance, PTL

\* Done and Delete are final: neither a worker that claimed the row before, nor
\* Done on a child of a completed series, brings a row back; only a child
\* returns, when its source is snoozed once more.
THEOREM SettledForGood == Spec => SettledIsFinal
<1>1. IInv /\ [Next]_vars => Settled
  BY NextStep
<1>2. Spec => [][Settled]_vars
  <2> HIDE DEF Settled
  <2>1. QED
    BY <1>1, Invariance, PTL DEF Spec
<1>3. QED
  BY <1>2 DEF SettledIsFinal, Settled

\* What a list shows of a row does not change under the revision that its
\* buttons carry, so that a press on an older list is refused.
THEOREM ListsExpire == Spec => ListsGoStale
<1>1. IInv /\ [Next]_vars => GoStale
  BY NextStep
<1>2. Spec => [][GoStale]_vars
  <2> HIDE DEF GoStale
  <2>1. QED
    BY <1>1, Invariance, PTL DEF Spec
<1>3. QED
  BY <1>2 DEF ListsGoStale, GoStale

\* A press on an occurrence retires every message of its row: no button that
\* was printed before is accepted after it.
THEOREM OnePressPerCard == Spec => PressesRetireCards
<1>1. IInv => Retire
  BY RetireHolds
<1>2. Spec => [][Retire]_vars
  <2> HIDE DEF Retire
  <2>1. QED
    BY <1>1, Invariance, PTL DEF Spec
<1>3. QED
  BY <1>2 DEF PressesRetireCards, Retire

\* A snoozed occurrence and the child that stands for it end in one step, or a
\* flight of the series takes its own occurrence back.
THEOREM PairsEndTogether == Spec => SnoozedPairsEndTogether
<1>1. IInv /\ [Next]_vars => PairsEnd
  BY NextStep
<1>2. Spec => [][PairsEnd]_vars
  <2> HIDE DEF PairsEnd
  <2>1. QED
    BY <1>1, Invariance, PTL DEF Spec
<1>3. QED
  BY <1>2 DEF SnoozedPairsEndTogether, PairsEnd
=============================================================================
