--------------------------- MODULE ConditionsProofs ---------------------------
(***************************************************************************)
(* The polls of a condition and its outbox, for any number of pollers,     *)
(* senders and attempts: observations are recorded in order, a late answer *)
(* never disturbs the attempt under way, and an alert that comes twice had *)
(* an attempt whose end the outbox never learnt.                           *)
(***************************************************************************)
EXTENDS Conditions, FiniteSetTheorems, SequenceTheorems, TLAPS

\* Null is no state of a condition and the name of no poller.
Parameters ==
  /\ MaxAttempts \in Nat /\ MaxChanges \in Nat
  /\ Null \notin Pollers \union States \union {Error}

PollerState ==
  [pc : {"idle", "claimed", "calling", "answered"},
   got : States \union {Null, Error}, at : 0..MaxChanges]

SenderState ==
  [pc : {"idle", "sending", "answered"}, row : Nat, attempt : 0..MaxAttempts,
   answer : Answers]

\* TypeOK, that the histories and the two kinds of processes are functions,
\* that a sender at work has a row and that a poll ends with a state or an error.
Types ==
  /\ TypeOK
  /\ \A s \in Senders : sender[s].pc # "idle" => sender[s].row \in DOMAIN outbox
  /\ \A w \in Pollers : poller[w].pc = "answered" => poller[w].got \in States \union {Error}
  /\ poller \in [Pollers -> PollerState]
  /\ sender \in [Senders -> SenderState]
  /\ arrived \in Seq(Nat)
  /\ doubts \in Seq(SUBSET Nat)

-----------------------------------------------------------------------------
(* Types                                                                    *)

LEMMA IdleType ==
  ASSUME Parameters
  PROVE  PollerIdle \in PollerState /\ SenderIdle \in SenderState
  BY DEF Parameters, PollerIdle, SenderIdle, PollerState, SenderState, Answers

LEMMA InitTypes ==
  ASSUME Parameters, Init
  PROVE  Types
<1>1. sub \in Subscription
  BY DEF Init, Subscription
<1>2. /\ \A w \in Pollers : poller[w] = PollerIdle
      /\ \A s \in Senders : sender[s] = SenderIdle
      /\ Len(outbox) = 0 /\ Len(arrived) = 0 /\ Len(doubts) = 0 /\ outbox \in Seq(Row)
  BY DEF Init
<1>3. TypeOK
  BY <1>1, <1>2, IdleType
     DEF Parameters, Init, TypeOK, PollerIdle, SenderIdle, Answers
<1>4. QED
  BY <1>3, IdleType DEF Init, Types, SenderIdle, PollerIdle

\* What a row becomes when its state, its attempt or its delay changes.
LEMMA RowChanged ==
  ASSUME Types, NEW r \in DOMAIN outbox, NEW row \in Row,
         outbox' = [outbox EXCEPT ![r] = row]
  PROVE  /\ outbox' \in Seq(Row) /\ Len(outbox') = Len(outbox)
         /\ DOMAIN outbox' = DOMAIN outbox
         /\ outbox'[r] = row
         /\ \A q \in DOMAIN outbox : q # r => outbox'[q] = outbox[q]
  BY ExceptSeq DEF Types, TypeOK

LEMMA TypesOfPolling ==
  ASSUME Parameters, Types, NEW w \in Pollers,
         ClaimPoll(w) \/ RenewPoll(w) \/ Observe(w) \/ RecordFailure(w) \/ PollerCrash(w)
  PROVE  Types'
<1>1. Classify(pr) \in States
  BY DEF Classify, States
<1>2. \E next \in PollerState : /\ poller' = [poller EXCEPT ![w] = next]
                                /\ next.pc = "answered" => next.got \in States \union {Error}
  <2>1. CASE ClaimPoll(w)
    <3> DEFINE next == [PollerIdle EXCEPT !.pc = "claimed"]
    <3>1. next \in PollerState /\ next.pc = "claimed"
      BY IdleType DEF PollerIdle, PollerState
    <3>2. poller' = [poller EXCEPT ![w] = next]
      BY <2>1 DEF ClaimPoll
    <3> HIDE DEF next
    <3>3. QED
      BY <3>1, <3>2
  <2>2. poller[w] \in PollerState /\ changes \in 0..MaxChanges
    BY DEF Types, TypeOK
  <2>3. CASE RenewPoll(w)
    <3>1. [poller[w] EXCEPT !.pc = "calling"] \in PollerState
      BY <2>2 DEF PollerState
    <3>2. \/ poller' = [poller EXCEPT ![w] = [poller[w] EXCEPT !.pc = "calling"]]
          \/ poller' = [poller EXCEPT ![w] = PollerIdle]
      BY <2>3 DEF RenewPoll
    <3>3. PollerIdle.pc = "idle" /\ [poller[w] EXCEPT !.pc = "calling"].pc = "calling"
      BY <2>2 DEF PollerIdle, PollerState
    <3>4. QED
      BY <3>1, <3>2, <3>3, IdleType
  <2>4. CASE Observe(w)
    <3>1. PICK got \in {Classify(pr), Error} :
            poller' = [poller EXCEPT ![w].pc = "answered", ![w].got = got, ![w].at = changes]
      BY <2>4 DEF Observe
    <3> DEFINE next == [poller[w] EXCEPT !.pc = "answered", !.got = got, !.at = changes]
    <3>2. poller' = [poller EXCEPT ![w] = next]
      BY <2>2, <3>1 DEF Types, PollerState
    <3>3. next \in PollerState /\ next.got \in States \union {Error}
      BY <1>1, <2>2, <3>1 DEF PollerState
    <3> HIDE DEF next
    <3>4. QED
      BY <3>2, <3>3
  <2>5. CASE RecordFailure(w) \/ PollerCrash(w)
    BY <2>5, IdleType DEF RecordFailure, PollerCrash, PollerIdle
  <2>6. QED
    BY <2>1, <2>3, <2>4, <2>5
<1>6. /\ poller' \in [Pollers -> PollerState]
      /\ \A v \in Pollers : poller'[v].pc = "answered" => poller'[v].got \in States \union {Error}
  <2>1. PICK next \in PollerState : /\ poller' = [poller EXCEPT ![w] = next]
                                    /\ next.pc = "answered" => next.got \in States \union {Error}
    BY <1>2
  <2>2. poller' \in [Pollers -> PollerState]
    BY <2>1 DEF Types
  <2>3. \A v \in Pollers : poller'[v] = IF v = w THEN next ELSE poller[v]
    BY <2>1 DEF Types
  <2>4. QED
    BY <2>1, <2>2, <2>3 DEF Types
<1>3. sub' \in Subscription
  <2>1. sub \in Subscription
    BY DEF Types, TypeOK
  <2>2. CASE ClaimPoll(w)
    BY <2>1, <2>2 DEF ClaimPoll, Subscription
  <2>3. CASE RecordFailure(w)
    BY <2>1, <2>3 DEF RecordFailure, Released, Subscription
  <2>4. CASE RenewPoll(w) \/ Observe(w) \/ PollerCrash(w)
    BY <2>1, <2>4 DEF RenewPoll, Observe, PollerCrash
  <2>5. QED
    BY <2>2, <2>3, <2>4
<1>4. UNCHANGED <<pr, changes, sequence, seen, outbox, sender, arrived, doubts>>
  BY DEF ClaimPoll, RenewPoll, Observe, RecordFailure, PollerCrash
<1>5. QED
  BY <1>3, <1>4, <1>6 DEF Types, TypeOK, PollerState

\* The three sequences have one entry for each row.
LEMMA SameRows ==
  ASSUME Types
  PROVE  /\ DOMAIN outbox = 1..Len(outbox) /\ DOMAIN arrived = DOMAIN outbox
         /\ DOMAIN doubts = DOMAIN outbox /\ Len(outbox) \in Nat
         /\ outbox \in [DOMAIN outbox -> Row] /\ arrived \in [DOMAIN outbox -> Nat]
         /\ doubts \in [DOMAIN outbox -> SUBSET Nat]
  BY DEF Types, TypeOK

LEMMA ClaimedRow ==
  ASSUME Parameters, Types, NEW s \in Senders, NEW r \in DOMAIN outbox, ClaimRow(s, r)
  PROVE  LET q == outbox[r]
             failed == [q EXCEPT !.state = "failed", !.due = TRUE]
             taken == [q EXCEPT !.state = "processing", !.due = FALSE, !.attempt = @ + 1]
         IN /\ q \in Row /\ failed \in Row
            /\ \/ outbox' = [outbox EXCEPT ![r] = failed] /\ sender' = sender
               \/ /\ outbox' = [outbox EXCEPT ![r] = taken] /\ taken \in Row
                  /\ q.attempt + 1 \in 0..MaxAttempts
                  /\ sender' = [sender EXCEPT ![s] = [pc |-> "sending", row |-> r, answer |-> "none",
                                                      attempt |-> q.attempt + 1]]
<1> DEFINE q == outbox[r]
           failed == [q EXCEPT !.state = "failed", !.due = TRUE]
           taken == [q EXCEPT !.state = "processing", !.due = FALSE, !.attempt = @ + 1]
<1>1. q \in Row
  BY SameRows
<1>2. failed \in Row
  BY <1>1 DEF Row
<1>3. CASE Withdrawn(r) \/ Exhausted(r)
  BY <1>1, <1>2, <1>3 DEF ClaimRow, Row
<1>4. CASE ~(Withdrawn(r) \/ Exhausted(r))
  <2>1. q.attempt \in Nat /\ q.attempt < MaxAttempts
    BY <1>1, <1>4 DEF Exhausted, Row, Parameters
  <2>2. q.attempt + 1 \in 0..MaxAttempts
    BY <2>1 DEF Parameters
  <2>3. taken \in Row
    BY <1>1, <2>2 DEF Row
  <2>4. outbox' = [outbox EXCEPT ![r] = taken]
    BY <1>1, <1>4 DEF ClaimRow, Row
  <2>5. QED
    BY <1>1, <1>2, <1>4, <2>2, <2>3, <2>4 DEF ClaimRow
<1>5. QED
  BY <1>3, <1>4

\* A row that was claimed and is given back keeps its attempt.
LEMMA AnsweredRow ==
  ASSUME Parameters, NEW q \in Row, NEW a \in Answers
  PROVE  LET n == Answered(q, a)
         IN /\ n \in Row /\ n.attempt = q.attempt /\ n.shows = q.shows /\ n.entry = q.entry
            /\ n.state # "processing"
            /\ a = "ok" <=> n.state = "sent"
  BY DEF Answered, Row, Parameters

\* A step that changes one row, or none, and one sender, or none.
LEMMA TypesOfRows ==
  ASSUME Parameters, Types,
         NEW r \in DOMAIN outbox, NEW row \in Row,
         outbox' = outbox \/ outbox' = [outbox EXCEPT ![r] = row],
         sender' \in [Senders -> SenderState],
         \A s \in Senders : /\ sender'[s].row \in 0..Len(outbox)
                            /\ sender'[s].pc # "idle" => sender'[s].row \in DOMAIN outbox,
         arrived' \in Seq(Nat), Len(arrived') = Len(arrived),
         doubts' \in Seq(SUBSET Nat), Len(doubts') = Len(doubts),
         UNCHANGED <<pr, changes, sub, sequence, seen, poller>>
  PROVE  Types'
<1>1. outbox' \in Seq(Row) /\ Len(outbox') = Len(outbox) /\ DOMAIN outbox' = DOMAIN outbox
  BY RowChanged DEF Types, TypeOK
<1>2. \A s \in Senders : /\ sender'[s].pc \in {"idle", "sending", "answered"}
                         /\ sender'[s].row \in 0..Len(outbox')
                         /\ sender'[s].attempt \in 0..MaxAttempts
                         /\ sender'[s].answer \in Answers
  BY <1>1 DEF SenderState
<1>3. QED
  BY <1>1, <1>2 DEF Types, TypeOK

\* An entry of a history that changes leaves it a history.
LEMMA CountChanged ==
  ASSUME Types, NEW r \in DOMAIN outbox, NEW n \in Nat,
         arrived' = [arrived EXCEPT ![r] = n]
  PROVE  /\ arrived' \in Seq(Nat) /\ Len(arrived') = Len(arrived)
         /\ arrived'[r] = n
         /\ \A q \in DOMAIN outbox : q # r => arrived'[q] = arrived[q]
  BY ExceptSeq, SameRows DEF Types, TypeOK

LEMMA DoubtAdded ==
  ASSUME Types, NEW r \in DOMAIN outbox, NEW a \in Nat,
         doubts' = [doubts EXCEPT ![r] = @ \union {a}]
  PROVE  /\ doubts' \in Seq(SUBSET Nat) /\ Len(doubts') = Len(doubts)
         /\ doubts'[r] = doubts[r] \union {a}
         /\ \A q \in DOMAIN outbox : q # r => doubts'[q] = doubts[q]
<1>1. doubts[r] \union {a} \in SUBSET Nat
  BY SameRows
<1>2. QED
  BY <1>1, ExceptSeq, SameRows DEF Types, TypeOK

\* What a sender becomes.
LEMMA SenderChanged ==
  ASSUME Types, NEW s \in Senders, NEW next \in SenderState,
         sender' = [sender EXCEPT ![s] = next],
         next.pc # "idle" => next.row \in DOMAIN outbox, next.row \in 0..Len(outbox)
  PROVE  /\ sender' \in [Senders -> SenderState]
         /\ sender'[s] = next
         /\ \A t \in Senders : t # s => sender'[t] = sender[t]
         /\ \A t \in Senders : /\ sender'[t].row \in 0..Len(outbox)
                               /\ sender'[t].pc # "idle" => sender'[t].row \in DOMAIN outbox
  BY DEF Types, TypeOK

LEMMA SentRow ==
  ASSUME Parameters, Types, NEW s \in Senders, SendRow(s)
  PROVE  \E reached \in BOOLEAN, answer \in Answers \ {"none"} :
           LET r == sender[s].row
               next == [sender[s] EXCEPT !.pc = "answered", !.answer = answer]
           IN /\ answer = "ok" => reached
              /\ r \in DOMAIN outbox /\ sender[s].attempt \in Nat /\ sender[s] \in SenderState
              /\ next \in SenderState
              /\ sender' = [sender EXCEPT ![s] = next]
              /\ arrived' = IF reached THEN [arrived EXCEPT ![r] = @ + 1] ELSE arrived
              /\ doubts' = IF reached /\ answer # "ok"
                           THEN [doubts EXCEPT ![r] = @ \union {sender[s].attempt}] ELSE doubts
<1>1. sender[s] \in SenderState /\ sender[s].pc = "sending" /\ sender[s].row \in DOMAIN outbox
  BY DEF Types, SendRow
<1>2. sender[s].attempt \in Nat
  BY <1>1 DEF SenderState, Parameters
<1>3. PICK reached \in BOOLEAN, answer \in Answers \ {"none"} :
        /\ answer = "ok" => reached
        /\ sender' = [sender EXCEPT ![s].pc = "answered", ![s].answer = answer]
        /\ arrived' = IF reached THEN [arrived EXCEPT ![sender[s].row] = @ + 1] ELSE arrived
        /\ doubts' = IF reached /\ answer # "ok"
                     THEN [doubts EXCEPT ![sender[s].row] = @ \union {sender[s].attempt}] ELSE doubts
  BY DEF SendRow
<1>4. [sender[s] EXCEPT !.pc = "answered", !.answer = answer] \in SenderState
  BY <1>1 DEF SenderState
<1>5. sender' = [sender EXCEPT ![s] = [sender[s] EXCEPT !.pc = "answered", !.answer = answer]]
  BY <1>1, <1>3 DEF Types
<1>6. QED
  BY <1>1, <1>2, <1>3, <1>4, <1>5

LEMMA TypesOfSending ==
  ASSUME Parameters, Types, NEW s \in Senders, SendRow(s) \/ SenderCrash(s)
  PROVE  Types'
<1> DEFINE r == sender[s].row
           a == sender[s].attempt
<1>1. r \in DOMAIN outbox /\ a \in Nat /\ sender[s] \in SenderState
  BY DEF Types, SendRow, SenderCrash, SenderState, Parameters
<1>2. PICK next \in SenderState : /\ sender' = [sender EXCEPT ![s] = next]
                                  /\ next.row \in {0, r}
                                  /\ next.pc # "idle" => next.row = r
  <2>1. CASE SendRow(s)
    BY <2>1, SentRow DEF SenderState
  <2>2. CASE SenderCrash(s)
    BY <2>2, IdleType DEF SenderCrash, SenderIdle
  <2>3. QED
    BY <2>1, <2>2
<1>3. /\ sender' \in [Senders -> SenderState]
      /\ \A t \in Senders : /\ sender'[t].row \in 0..Len(outbox)
                            /\ sender'[t].pc # "idle" => sender'[t].row \in DOMAIN outbox
  <2>1. next.row \in 0..Len(outbox) /\ (next.pc # "idle" => next.row \in DOMAIN outbox)
    BY <1>1, <1>2, SameRows
  <2>2. QED
    BY <1>2, <2>1, SenderChanged
<1>4. arrived' = arrived \/ arrived' = [arrived EXCEPT ![r] = @ + 1]
  BY DEF SendRow, SenderCrash
<1>5. arrived[r] + 1 \in Nat
  BY <1>1, SameRows
<1>6. arrived' \in Seq(Nat) /\ Len(arrived') = Len(arrived)
  BY <1>1, <1>4, <1>5, CountChanged DEF Types
<1>7. doubts' = doubts \/ doubts' = [doubts EXCEPT ![r] = @ \union {a}]
  BY DEF SendRow, SenderCrash
<1>8. doubts' \in Seq(SUBSET Nat) /\ Len(doubts') = Len(doubts)
  BY <1>1, <1>7, DoubtAdded DEF Types
<1>9. UNCHANGED <<pr, changes, sub, sequence, seen, poller, outbox>>
  BY DEF SendRow, SenderCrash
<1>10. outbox[r] \in Row
  BY <1>1, SameRows
<1> HIDE DEF r
<1>11. QED
  BY <1>1, <1>3, <1>6, <1>8, <1>9, <1>10, TypesOfRows

LEMMA TypesOfRowSteps ==
  ASSUME Parameters, Types,
         \/ \E s \in Senders : FinalizeRow(s)
         \/ \E s \in Senders, r \in DOMAIN outbox : ClaimRow(s, r)
         \/ \E r \in DOMAIN outbox : RowComesDue(r)
  PROVE  Types'
<1>1. ASSUME NEW s \in Senders, FinalizeRow(s) PROVE Types'
  <2> DEFINE r == sender[s].row
             row == Answered(outbox[r], sender[s].answer)
  <2>1. r \in DOMAIN outbox /\ sender[s].answer \in Answers
    BY <1>1 DEF Types, FinalizeRow, SenderState
  <2>2. row \in Row
    BY <2>1, SameRows, AnsweredRow
  <2>3. outbox' = outbox \/ outbox' = [outbox EXCEPT ![r] = row]
    BY <1>1 DEF FinalizeRow
  <2>4. sender' = [sender EXCEPT ![s] = SenderIdle] /\ SenderIdle.row = 0 /\ SenderIdle.pc = "idle"
    BY <1>1 DEF FinalizeRow, SenderIdle
  <2>5. UNCHANGED <<pr, changes, sub, sequence, seen, poller, arrived, doubts>>
    BY <1>1 DEF FinalizeRow
  <2>6. /\ sender' \in [Senders -> SenderState]
        /\ \A t \in Senders : /\ sender'[t].row \in 0..Len(outbox)
                              /\ sender'[t].pc # "idle" => sender'[t].row \in DOMAIN outbox
    <3>1. 0 \in 0..Len(outbox)
      BY SameRows
    <3>2. QED
      BY <2>4, <3>1, SenderChanged, IdleType
  <2>7. arrived' \in Seq(Nat) /\ Len(arrived') = Len(arrived)
        /\ doubts' \in Seq(SUBSET Nat) /\ Len(doubts') = Len(doubts)
    BY <2>5 DEF Types
  <2> HIDE DEF r, row
  <2>8. QED
    BY <2>1, <2>2, <2>3, <2>5, <2>6, <2>7, TypesOfRows
<1>2. ASSUME NEW s \in Senders, NEW r \in DOMAIN outbox, ClaimRow(s, r) PROVE Types'
  <2>1. PICK row \in Row : outbox' = [outbox EXCEPT ![r] = row]
    BY <1>2, ClaimedRow
  <2>2. /\ sender' \in [Senders -> SenderState]
        /\ \A t \in Senders : /\ sender'[t].row \in 0..Len(outbox)
                              /\ sender'[t].pc # "idle" => sender'[t].row \in DOMAIN outbox
    <3>1. CASE sender' = sender
      BY <3>1 DEF Types, TypeOK
    <3>2. CASE sender' # sender
      <4> DEFINE next == [pc |-> "sending", row |-> r, answer |-> "none",
                          attempt |-> outbox[r].attempt + 1]
      <4>1. sender' = [sender EXCEPT ![s] = next] /\ outbox[r].attempt + 1 \in 0..MaxAttempts
        BY <1>2, <3>2, ClaimedRow
      <4>2. r \in Nat /\ r \in 0..Len(outbox)
        BY SameRows
      <4>3. next \in SenderState /\ next.row = r
        BY <4>1, <4>2 DEF SenderState, Answers
      <4> HIDE DEF next
      <4>4. QED
        BY <4>1, <4>2, <4>3, SenderChanged
    <3>3. QED
      BY <3>1, <3>2
  <2>3. UNCHANGED <<pr, changes, sub, sequence, seen, poller, arrived, doubts>>
    BY <1>2 DEF ClaimRow
  <2>4. arrived' \in Seq(Nat) /\ Len(arrived') = Len(arrived)
        /\ doubts' \in Seq(SUBSET Nat) /\ Len(doubts') = Len(doubts)
    BY <2>3 DEF Types
  <2>5. QED
    BY <2>1, <2>2, <2>3, <2>4, TypesOfRows
<1>3. ASSUME NEW r \in DOMAIN outbox, RowComesDue(r) PROVE Types'
  <2>1. outbox[r] \in Row /\ outbox[r].attempt \in Nat
    BY SameRows DEF Row, Parameters
  <2>2. [outbox[r] EXCEPT !.due = TRUE] \in Row
    BY <2>1 DEF Row
  <2>3. outbox' = [outbox EXCEPT ![r] = [outbox[r] EXCEPT !.due = TRUE]]
    BY <1>3 DEF RowComesDue
  <2>4. doubts' = doubts \/ doubts' = [doubts EXCEPT ![r] = @ \union {outbox[r].attempt}]
    BY <1>3 DEF RowComesDue
  <2>5. doubts' \in Seq(SUBSET Nat) /\ Len(doubts') = Len(doubts)
    BY <2>1, <2>4, DoubtAdded DEF Types
  <2>6. UNCHANGED <<pr, changes, sub, sequence, seen, poller, sender, arrived>>
    BY <1>3 DEF RowComesDue
  <2>7. QED
    BY <2>2, <2>3, <2>5, <2>6, TypesOfRows DEF Types, TypeOK
<1>4. QED
  BY <1>1, <1>2, <1>3

\* _record_success with a transition: one more row, and an entry of each
\* history for it.
LEMMA RecordedRow ==
  ASSUME Parameters, Types, NEW w \in Pollers, RecordSuccess(w)
  PROVE  /\ poller' = [poller EXCEPT ![w] = PollerIdle]
         /\ UNCHANGED <<pr, changes, sender>>
         /\ \/ UNCHANGED <<outbox, arrived, doubts>>
            \/ \E row \in Row : /\ row.state = "pending" /\ row.attempt = 0
                                /\ outbox' = Append(outbox, row)
                                /\ arrived' = Append(arrived, 0) /\ doubts' = Append(doubts, {})
<1>1. poller[w].got \in States
  BY DEF RecordSuccess, Types
<1> DEFINE row == [state |-> "pending", shows |-> poller[w].got, entry |-> sequence + 1,
                   attempt |-> 0, due |-> TRUE]
<1>2. row \in Row /\ row.state = "pending" /\ row.attempt = 0
  BY <1>1 DEF Row, Types, TypeOK, Parameters
<1>3. \/ UNCHANGED <<outbox, arrived, doubts>>
      \/ outbox' = Append(outbox, row) /\ arrived' = Append(arrived, 0) /\ doubts' = Append(doubts, {})
  BY DEF RecordSuccess
<1>4. poller' = [poller EXCEPT ![w] = PollerIdle] /\ UNCHANGED <<pr, changes, sender>>
  BY DEF RecordSuccess
<1> HIDE DEF row
<1>5. QED
  BY <1>2, <1>3, <1>4

LEMMA TypesOfRecording ==
  ASSUME Parameters, Types, NEW w \in Pollers, RecordSuccess(w)
  PROVE  Types'
<1>1. sub' \in Subscription /\ sequence' \in Nat /\ seen' \in 0..MaxChanges
  <2>1. poller[w].got \in States /\ poller[w].at \in 0..MaxChanges
    BY DEF RecordSuccess, Types, PollerState
  <2>2. sub \in Subscription /\ sequence \in Nat /\ seen \in 0..MaxChanges
    BY DEF Types, TypeOK
  <2>3. Released(sub) \in Subscription
    BY <2>2 DEF Released, Subscription
  <2>4. [Released(sub) EXCEPT !.last = poller[w].got] \in Subscription
    BY <2>1, <2>3 DEF Subscription
  <2>5. \/ sub' = [Released(sub) EXCEPT !.last = poller[w].got] \/ sub' = sub
    BY DEF RecordSuccess
  <2>6. sequence' \in Nat /\ seen' \in 0..MaxChanges
    BY <2>1, <2>2 DEF RecordSuccess
  <2>7. QED
    BY <2>2, <2>4, <2>5, <2>6
<1>2. /\ poller' \in [Pollers -> PollerState]
      /\ \A v \in Pollers : poller'[v].pc = "answered" => poller'[v].got \in States \union {Error}
  BY IdleType, RecordedRow DEF Types, PollerIdle
<1>3. /\ outbox' \in Seq(Row) /\ arrived' \in Seq(Nat) /\ doubts' \in Seq(SUBSET Nat)
      /\ Len(arrived') = Len(outbox') /\ Len(doubts') = Len(outbox')
      /\ Len(outbox') >= Len(outbox) /\ DOMAIN outbox \subseteq DOMAIN outbox'
      /\ Len(outbox') \in Nat
  <2>1. /\ outbox \in Seq(Row) /\ arrived \in Seq(Nat) /\ doubts \in Seq(SUBSET Nat)
        /\ Len(arrived) = Len(outbox) /\ Len(doubts) = Len(outbox)
    BY DEF Types, TypeOK
  <2>2. CASE UNCHANGED <<outbox, arrived, doubts>>
    BY <2>1, <2>2
  <2>3. CASE ~UNCHANGED <<outbox, arrived, doubts>>
    <3>1. PICK row \in Row : outbox' = Append(outbox, row)
                             /\ arrived' = Append(arrived, 0) /\ doubts' = Append(doubts, {})
      BY <2>3, RecordedRow
    <3>2. outbox' \in Seq(Row) /\ Len(outbox') = Len(outbox) + 1
      BY <2>1, <3>1
    <3>3. arrived' \in Seq(Nat) /\ Len(arrived') = Len(arrived) + 1
      BY <2>1, <3>1
    <3>4. doubts' \in Seq(SUBSET Nat) /\ Len(doubts') = Len(doubts) + 1
      <4>1. {} \in SUBSET Nat
        OBVIOUS
      <4> HIDE DEF Types
      <4>2. QED
        BY <2>1, <3>1, <4>1
    <3>5. QED
      BY <2>1, <3>2, <3>3, <3>4
  <2>4. QED
    BY <2>2, <2>3
<1>4. /\ pr' \in PullRequests /\ changes' \in 0..MaxChanges
      /\ sender' \in [Senders -> SenderState]
      /\ \A s \in Senders : /\ sender'[s].pc # "idle" => sender'[s].row \in DOMAIN outbox'
                            /\ sender'[s].row \in 0..Len(outbox')
  <2>1. UNCHANGED <<pr, changes, sender>>
    BY RecordedRow
  <2>2. 0..Len(outbox) \subseteq 0..Len(outbox')
    BY <1>3, SameRows
  <2>3. QED
    BY <1>3, <2>1, <2>2 DEF Types, TypeOK
<1>5. \A v \in Pollers : /\ poller'[v].pc \in {"idle", "claimed", "calling", "answered"}
                         /\ poller'[v].got \in States \union {Null, Error}
                         /\ poller'[v].at \in 0..MaxChanges
  BY <1>2 DEF PollerState
<1>6. \A s \in Senders : /\ sender'[s].pc \in {"idle", "sending", "answered"}
                         /\ sender'[s].attempt \in 0..MaxAttempts
                         /\ sender'[s].answer \in Answers
  BY <1>4 DEF SenderState
<1>7. TypeOK'
  BY <1>1, <1>3, <1>4, <1>5, <1>6 DEF TypeOK
<1>8. QED
  BY <1>2, <1>3, <1>4, <1>7 DEF Types

\* The clock and the pull request change nothing else.
LEMMA TypesOfWorld ==
  ASSUME Parameters, Types, Change \/ PollComesDue \/ PollLeaseEnds \/ UNCHANGED vars
  PROVE  Types'
<1>1. pr' \in PullRequests /\ changes' \in 0..MaxChanges
  BY DEF Types, TypeOK, Change, PollComesDue, PollLeaseEnds, vars, Parameters
<1>5. sub' \in Subscription
  BY DEF Types, TypeOK, Change, PollComesDue, PollLeaseEnds, vars, Subscription
<1>2. UNCHANGED <<sequence, seen, poller, outbox, sender, arrived, doubts>>
  BY DEF Change, PollComesDue, PollLeaseEnds, vars
<1>3. TypeOK'
  BY <1>1, <1>2, <1>5 DEF Types, TypeOK
<1>4. QED
  BY <1>2, <1>3 DEF Types

LEMMA StepTypes ==
  ASSUME Parameters, Types, [Next]_vars
  PROVE  Types'
<1>1. ASSUME NEW w \in Pollers, PollStep(w) \/ PollerCrash(w) PROVE Types'
  BY <1>1, TypesOfPolling, TypesOfRecording DEF PollStep
<1>2. ASSUME NEW s \in Senders, SendStep(s) \/ SenderCrash(s) PROVE Types'
  BY <1>2, TypesOfSending, TypesOfRowSteps DEF SendStep
<1>3. ASSUME NEW r \in DOMAIN outbox, RowComesDue(r) PROVE Types'
  BY <1>3, TypesOfRowSteps
<1>4. CASE Change \/ PollComesDue \/ PollLeaseEnds \/ UNCHANGED vars
  BY <1>4, TypesOfWorld
<1>5. QED
  BY <1>1, <1>2, <1>3, <1>4 DEF Next

LEMMA SpecSteps == Spec => Init /\ [][Next]_vars
BY PTL DEF Spec

\* The types of Conditions hold for any number of pollers, senders, attempts
\* and changes of the pull request.
THEOREM TypeCorrect ==
  ASSUME Parameters
  PROVE  Spec => []TypeOK
<1>1. Init => Types
  BY InitTypes
<1>2. Types /\ [Next]_vars => Types'
  BY StepTypes
<1>3. Types => TypeOK
  BY DEF Types
<1>4. QED
  BY <1>1, <1>2, <1>3, SpecSteps, PTL

-----------------------------------------------------------------------------
(* Observations are recorded in order                                       *)

\* The poller that holds the claim observed the pull request no earlier than
\* the poll that was recorded last.
AnswersCurrent ==
  \A w \in Pollers : poller[w].pc = "answered" /\ sub.token = w => poller[w].at >= seen

PollInv ==
  /\ Types /\ AnswersCurrent
  /\ seen <= changes
  /\ \A w \in Pollers : poller[w].at <= changes

LEMMA PollStepInv ==
  ASSUME Parameters, PollInv, [Next]_vars
  PROVE  PollInv'
<1> USE DEF PollInv
<1>1. Types'
  BY StepTypes
<1>2. /\ poller \in [Pollers -> PollerState] /\ seen \in Nat /\ changes \in Nat /\ sub \in Subscription
      /\ \A w \in Pollers : poller[w].at \in Nat
      /\ PollerIdle.pc = "idle" /\ Null \notin Pollers
  BY DEF Types, TypeOK, PollerState, Parameters, PollerIdle
<1>10. \A w \in Pollers : poller[w].at <= changes + 1
  BY <1>2
<1>3. ASSUME UNCHANGED <<sub, seen, poller>>, changes' \in {changes, changes + 1} PROVE PollInv'
  BY <1>1, <1>2, <1>3, <1>10 DEF AnswersCurrent
<1>4. CASE Change \/ UNCHANGED vars
  BY <1>3, <1>4 DEF Change, vars
<1>5. CASE PollComesDue \/ PollLeaseEnds
  <2>1. sub'.token = sub.token /\ UNCHANGED <<changes, seen, poller>>
    BY <1>2, <1>5 DEF PollComesDue, PollLeaseEnds, Subscription
  <2>2. QED
    BY <1>1, <2>1 DEF AnswersCurrent
<1>6. ASSUME NEW r \in DOMAIN outbox, RowComesDue(r) PROVE PollInv'
  BY <1>3, <1>6 DEF RowComesDue
<1>7. ASSUME NEW s \in Senders, SendStep(s) \/ SenderCrash(s) PROVE PollInv'
  <2>1. UNCHANGED <<changes, sub, seen, poller>>
    BY <1>7 DEF SendStep, SenderCrash, ClaimRow, SendRow, FinalizeRow
  <2>2. QED
    BY <1>3, <2>1
<1>8. ASSUME NEW w \in Pollers, PollStep(w) \/ PollerCrash(w) PROVE PollInv'
  <2>1. \A v \in Pollers : v # w => poller'[v] = poller[v]
    BY <1>2, <1>8 DEF PollStep, PollerCrash, ClaimPoll, RenewPoll, Observe, RecordSuccess, RecordFailure
  <2>2. CASE ClaimPoll(w)
    <3>1. sub'.token = w /\ UNCHANGED <<changes, seen>>
      BY <1>2, <2>2 DEF ClaimPoll, Subscription
    <3>2. poller'[w].pc = "claimed" /\ poller'[w].at = 0
      BY <1>2, <2>2 DEF ClaimPoll, PollerIdle
    <3>3. QED
      BY <1>1, <1>2, <2>1, <3>1, <3>2 DEF AnswersCurrent
  <2>3. CASE Observe(w)
    <3>1. poller'[w].at = changes /\ UNCHANGED <<changes, seen, sub>>
      BY <1>2, <2>3 DEF Observe, PollerState
    <3>2. poller'[w].at >= seen
      BY <1>2, <3>1
    <3>3. QED
      BY <1>1, <1>2, <2>1, <3>1, <3>2 DEF AnswersCurrent
  <2>4. CASE RenewPoll(w) \/ PollerCrash(w)
    <3>1. UNCHANGED <<changes, seen, sub>>
      BY <2>4 DEF RenewPoll, PollerCrash
    <3>2. poller'[w].pc # "answered" /\ poller'[w].at \in {0, poller[w].at}
      BY <1>2, <2>4 DEF RenewPoll, PollerCrash, PollerState, PollerIdle
    <3>3. QED
      BY <1>1, <1>2, <2>1, <3>1, <3>2 DEF AnswersCurrent
  <2>5. CASE RecordSuccess(w) \/ RecordFailure(w)
    <3>1. poller'[w].pc # "answered" /\ poller'[w].at = 0 /\ UNCHANGED changes
      BY <1>2, <2>5 DEF RecordSuccess, RecordFailure, PollerIdle
    <3>2. CASE Holds(w)
      <4>1. Released(sub).token = Null
        BY <1>2 DEF Released, Subscription
      <4>2. [Released(sub) EXCEPT !.last = poller[w].got].token = Null
        BY <1>2 DEF Released, Subscription
      <4>3. sub'.token = Null
        BY <2>5, <3>2, <4>1, <4>2 DEF RecordSuccess, RecordFailure
      <4>4. seen' \in {seen, poller[w].at} /\ poller[w].at <= changes
        BY <2>5 DEF RecordSuccess, RecordFailure
      <4>5. QED
        BY <1>1, <1>2, <2>1, <3>1, <4>3, <4>4 DEF AnswersCurrent
    <3>3. CASE ~Holds(w)
      <4>1. UNCHANGED <<sub, seen>>
        BY <2>5, <3>3 DEF RecordSuccess, RecordFailure
      <4>2. QED
        BY <1>1, <1>2, <2>1, <3>1, <4>1 DEF AnswersCurrent
    <3>4. QED
      BY <3>2, <3>3
  <2>6. QED
    BY <1>8, <2>2, <2>3, <2>4, <2>5 DEF PollStep
<1>9. QED
  BY <1>4, <1>5, <1>6, <1>7, <1>8 DEF Next

LEMMA InitPolls ==
  ASSUME Parameters, Init
  PROVE  PollInv
<1>1. poller = [w \in Pollers |-> PollerIdle] /\ seen = 0 /\ changes = 0
  BY DEF Init
<1>2. \A w \in Pollers : poller[w].pc = "idle" /\ poller[w].at = 0
  BY <1>1 DEF PollerIdle
<1>3. QED
  BY <1>1, <1>2, InitTypes DEF PollInv, AnswersCurrent

LEMMA PollInvariant ==
  ASSUME Parameters
  PROVE  Spec => []PollInv
<1>1. Init => PollInv
  BY InitPolls
<1>2. PollInv /\ [Next]_vars => PollInv'
  BY PollStepInv
<1>3. QED
  BY <1>1, <1>2, SpecSteps, PTL

LEMMA SeenGrows ==
  ASSUME Parameters, PollInv, [Next]_vars
  PROVE  seen' >= seen
<1>1. seen \in Nat /\ \A w \in Pollers : poller[w].at \in Nat
  BY DEF PollInv, Types, TypeOK, Parameters
<1>2. ASSUME NEW w \in Pollers, PollStep(w) PROVE seen' >= seen
  <2>1. CASE RecordSuccess(w)
    BY <1>1, <2>1 DEF RecordSuccess, Holds, PollInv, AnswersCurrent
  <2>2. CASE ~RecordSuccess(w)
    BY <1>1, <1>2, <2>2 DEF PollStep, ClaimPoll, RenewPoll, Observe, RecordFailure
  <2>3. QED
    BY <2>1, <2>2
<1>3. CASE ~(\E w \in Pollers : PollStep(w))
  <2>1. UNCHANGED seen
    BY <1>3 DEF Next, vars, Change, PollComesDue, PollLeaseEnds, RowComesDue, PollerCrash,
                SendStep, ClaimRow, SendRow, FinalizeRow, SenderCrash
  <2>2. QED
    BY <1>1, <2>1
<1>4. QED
  BY <1>2, <1>3

\* What _record_success writes is never older than what was written before:
\* whichever leases end while pollers wait for the provider, a poll that lost
\* its claim to a later one records nothing (the fence on lease_token).
THEOREM PollsRecordInOrder ==
  ASSUME Parameters
  PROVE  Spec => ObservationsInOrder
<1>1. PollInv /\ [Next]_vars => [seen' >= seen]_vars
  BY SeenGrows
<1>2. QED
  BY <1>1, PollInvariant, SpecSteps, PTL DEF ObservationsInOrder

-----------------------------------------------------------------------------
(* The attempt under way is not disturbed                                   *)

Busy(s) == sender[s].pc # "idle"

\* A sender works on an attempt that was made.
AttemptsMade ==
  \A s \in Senders : Busy(s) => sender[s].attempt <= outbox[sender[s].row].attempt

\* No two senders work on the same attempt of a row.
AttemptsUnshared ==
  \A s, t \in Senders :
    s # t /\ Busy(s) /\ Busy(t) /\ sender[s].row = sender[t].row
      => sender[s].attempt # sender[t].attempt

\* Only an attempt that was made is in doubt.
DoubtsPast == \A r \in DOMAIN outbox : \A a \in doubts[r] : a <= outbox[r].attempt

\* A sender holds its row, or its lease ended and the attempt is in doubt.
LateDoubted ==
  \A s \in Senders : Busy(s) =>
    LET r == sender[s].row
    IN \/ sender[s].attempt \in doubts[r]
       \/ /\ outbox[r].attempt = sender[s].attempt
          /\ outbox[r].state = "processing" /\ ~outbox[r].due

\* A row whose lease ended has its attempt in doubt.
ExpiredDoubted ==
  \A r \in DOMAIN outbox :
    outbox[r].state = "processing" /\ outbox[r].due => outbox[r].attempt \in doubts[r]

SendInv ==
  /\ Types /\ AttemptsMade /\ AttemptsUnshared /\ DoubtsPast
  /\ LateDoubted /\ ExpiredDoubted /\ HeldWhileSending

\* What the fields of a row and of a sender are.
LEMMA FieldTypes ==
  ASSUME Parameters, Types
  PROVE  /\ \A r \in DOMAIN outbox : outbox[r] \in Row /\ outbox[r].attempt \in Nat /\ r \in Nat
         /\ \A r \in DOMAIN outbox : doubts[r] \subseteq Nat
         /\ \A s \in Senders : sender[s] \in SenderState /\ sender[s].attempt \in Nat
         /\ \A s \in Senders : Busy(s) => sender[s].row \in DOMAIN outbox
<1>1. \A r \in DOMAIN outbox : outbox[r] \in Row /\ doubts[r] \subseteq Nat /\ r \in Nat
  BY SameRows
<1>2. \A s \in Senders : sender[s] \in SenderState
  BY DEF Types
<1>3. \A s \in Senders : Busy(s) => sender[s].row \in DOMAIN outbox
  BY DEF Types, Busy
<1>4. QED
  BY <1>1, <1>2, <1>3 DEF Row, SenderState, Parameters

\* The row of a delay that passes.
LEMMA DueRow ==
  ASSUME Parameters, Types, NEW r \in DOMAIN outbox, RowComesDue(r)
  PROVE  /\ DOMAIN outbox' = DOMAIN outbox /\ UNCHANGED <<sender, arrived>>
         /\ \A q \in DOMAIN outbox : /\ outbox'[q].state = outbox[q].state
                                     /\ outbox'[q].attempt = outbox[q].attempt
                                     /\ q # r => outbox'[q] = outbox[q] /\ doubts'[q] = doubts[q]
         /\ outbox'[r].due
         /\ doubts'[r] = IF outbox[r].state = "processing"
                         THEN doubts[r] \union {outbox[r].attempt} ELSE doubts[r]
<1> DEFINE row == [outbox[r] EXCEPT !.due = TRUE]
<1>1. outbox[r] \in Row /\ outbox[r].attempt \in Nat
  BY FieldTypes
<1>2. row \in Row /\ row.state = outbox[r].state /\ row.attempt = outbox[r].attempt /\ row.due
  BY <1>1 DEF Row
<1>3. outbox' = [outbox EXCEPT ![r] = row]
  BY DEF RowComesDue
<1> HIDE DEF row
<1>4. /\ DOMAIN outbox' = DOMAIN outbox /\ outbox'[r] = row
      /\ \A q \in DOMAIN outbox : q # r => outbox'[q] = outbox[q]
  BY <1>2, <1>3, RowChanged
<1>5. CASE outbox[r].state = "processing"
  <2>1. doubts' = [doubts EXCEPT ![r] = @ \union {outbox[r].attempt}]
    BY <1>5 DEF RowComesDue
  <2>2. QED
    BY <1>1, <1>2, <1>4, <1>5, <2>1, DoubtAdded DEF RowComesDue
<1>6. CASE outbox[r].state # "processing"
  <2>1. doubts' = doubts
    BY <1>6 DEF RowComesDue
  <2>2. QED
    BY <1>2, <1>4, <1>6, <2>1 DEF RowComesDue
<1>7. QED
  BY <1>5, <1>6

LEMMA SendInvDue ==
  ASSUME Parameters, SendInv, NEW r \in DOMAIN outbox, RowComesDue(r), Types'
  PROVE  SendInv'
<1>1. Types
  BY DEF SendInv
<1>2. /\ DOMAIN outbox' = DOMAIN outbox /\ sender' = sender
      /\ \A q \in DOMAIN outbox : /\ outbox'[q].state = outbox[q].state
                                  /\ outbox'[q].attempt = outbox[q].attempt
                                  /\ doubts[q] \subseteq doubts'[q]
                                  /\ q # r => outbox'[q] = outbox[q] /\ doubts'[q] = doubts[q]
      /\ \A a \in doubts'[r] : a \in doubts[r] \/ a = outbox[r].attempt
      /\ outbox[r].state = "processing" => outbox[r].attempt \in doubts'[r]
  BY <1>1, DueRow
<1>3. AttemptsMade'
  BY <1>1, <1>2, FieldTypes DEF SendInv, AttemptsMade, Busy
<1>4. AttemptsUnshared'
  BY <1>2 DEF SendInv, AttemptsUnshared, Busy
<1>5. DoubtsPast'
  BY <1>1, <1>2, FieldTypes DEF SendInv, DoubtsPast
<1>6. LateDoubted'
  <2>1. SUFFICES ASSUME NEW s \in Senders, Busy(s)
                 PROVE  LET q == sender[s].row
                        IN \/ sender[s].attempt \in doubts'[q]
                           \/ /\ outbox'[q].attempt = sender[s].attempt
                              /\ outbox'[q].state = "processing" /\ ~outbox'[q].due
    BY <1>2 DEF LateDoubted, Busy
  <2>2. sender[s].row \in DOMAIN outbox
    BY <1>1, <2>1, FieldTypes
  <2>3. QED
    BY <1>2, <2>1, <2>2 DEF SendInv, LateDoubted
<1>7. ExpiredDoubted'
  BY <1>2 DEF SendInv, ExpiredDoubted
<1>8. HeldWhileSending'
  BY <1>2 DEF SendInv, HeldWhileSending
<1>9. QED
  BY <1>3, <1>4, <1>5, <1>6, <1>7, <1>8 DEF SendInv

\* A candidate is in the hands of no sender but late ones, whose attempts are
\* in doubt.
LEMMA CandidateDoubted ==
  ASSUME Parameters, SendInv, NEW r \in DOMAIN outbox, Candidate(r),
         NEW s \in Senders, Busy(s), sender[s].row = r
  PROVE  sender[s].attempt \in doubts[r]
BY DEF SendInv, LateDoubted, Candidate

\* claim_action_delivery, by the fields of its row and of its sender.
LEMMA ClaimedFields ==
  ASSUME Parameters, Types, NEW s \in Senders, NEW r \in DOMAIN outbox, ClaimRow(s, r)
  PROVE  /\ Candidate(r) /\ ~Busy(s)
         /\ DOMAIN outbox' = DOMAIN outbox /\ UNCHANGED <<arrived, doubts>>
         /\ \A q \in DOMAIN outbox : q # r => outbox'[q] = outbox[q]
         /\ \A t \in Senders : t # s => sender'[t] = sender[t]
         /\ \/ /\ outbox'[r].state = "failed" /\ outbox'[r].attempt = outbox[r].attempt
               /\ sender' = sender
            \/ /\ outbox'[r].state = "processing" /\ ~outbox'[r].due
               /\ outbox'[r].attempt = outbox[r].attempt + 1
               /\ sender'[s].pc = "sending" /\ sender'[s].row = r
               /\ sender'[s].attempt = outbox[r].attempt + 1
<1> DEFINE q == outbox[r]
           failed == [q EXCEPT !.state = "failed", !.due = TRUE]
           taken == [q EXCEPT !.state = "processing", !.due = FALSE, !.attempt = @ + 1]
           next == [pc |-> "sending", row |-> r, answer |-> "none", attempt |-> q.attempt + 1]
<1>1. q \in Row /\ q.attempt \in Nat
  BY FieldTypes
<1>2. /\ failed.state = "failed" /\ failed.attempt = q.attempt
      /\ taken.state = "processing" /\ ~taken.due /\ taken.attempt = q.attempt + 1
      /\ next.pc = "sending" /\ next.row = r /\ next.attempt = q.attempt + 1
  BY <1>1 DEF Row
<1>3. /\ failed \in Row
      /\ \/ outbox' = [outbox EXCEPT ![r] = failed] /\ sender' = sender
         \/ /\ outbox' = [outbox EXCEPT ![r] = taken] /\ taken \in Row
            /\ sender' = [sender EXCEPT ![s] = next]
  BY ClaimedRow
<1>4. Candidate(r) /\ ~Busy(s) /\ UNCHANGED <<arrived, doubts>>
  BY DEF ClaimRow, FirstCandidate, Busy
<1>5. sender \in [Senders -> SenderState]
  BY DEF Types
<1> HIDE DEF failed, taken, next
<1>6. CASE outbox' = [outbox EXCEPT ![r] = failed] /\ sender' = sender
  BY <1>2, <1>3, <1>4, <1>6, RowChanged
<1>7. CASE /\ outbox' = [outbox EXCEPT ![r] = taken] /\ taken \in Row
           /\ sender' = [sender EXCEPT ![s] = next]
  <2>1. /\ DOMAIN outbox' = DOMAIN outbox /\ outbox'[r] = taken
        /\ \A p \in DOMAIN outbox : p # r => outbox'[p] = outbox[p]
    BY <1>7, RowChanged
  <2>2. sender'[s] = next /\ \A t \in Senders : t # s => sender'[t] = sender[t]
    BY <1>5, <1>7
  <2>3. QED
    BY <1>2, <1>4, <2>1, <2>2
<1>8. QED
  BY <1>3, <1>6, <1>7

LEMMA SendInvClaim ==
  ASSUME Parameters, SendInv, NEW s \in Senders, NEW r \in DOMAIN outbox, ClaimRow(s, r), Types'
  PROVE  SendInv'
<1> USE DEF SendInv
<1>1. \A t \in Senders : Busy(t) /\ sender[t].row = r => sender[t].attempt \in doubts[r]
  BY ClaimedFields, CandidateDoubted
<1>2. \A t \in Senders : t # s => (Busy(t)' <=> Busy(t))
  BY ClaimedFields DEF Busy
<1>3. doubts' = doubts /\ DOMAIN outbox' = DOMAIN outbox
  BY ClaimedFields
<1>4. CASE /\ outbox'[r].state = "failed" /\ outbox'[r].attempt = outbox[r].attempt
           /\ sender' = sender
  <2>1. \A t \in Senders : Busy(t)' <=> Busy(t)
    BY <1>4 DEF Busy
  <2>2. AttemptsMade' /\ AttemptsUnshared' /\ DoubtsPast'
    BY <1>3, <1>4, <2>1, ClaimedFields, FieldTypes DEF AttemptsMade, AttemptsUnshared, DoubtsPast
  <2>3. LateDoubted'
    BY <1>1, <1>3, <1>4, <2>1, ClaimedFields, FieldTypes DEF LateDoubted
  <2>4. ExpiredDoubted' /\ HeldWhileSending'
    BY <1>3, <1>4, ClaimedFields DEF ExpiredDoubted, HeldWhileSending
  <2>5. QED
    BY <2>2, <2>3, <2>4
<1>5. CASE /\ outbox'[r].state = "processing" /\ ~outbox'[r].due
           /\ outbox'[r].attempt = outbox[r].attempt + 1
           /\ sender'[s].pc = "sending" /\ sender'[s].row = r
           /\ sender'[s].attempt = outbox[r].attempt + 1
  <2> DEFINE n == outbox[r].attempt + 1
  <2>1. outbox[r].attempt \in Nat /\ n \in Nat /\ n > outbox[r].attempt
    BY FieldTypes
  <2>2. \A t \in Senders : Busy(t) /\ sender[t].row = r => sender[t].attempt < n
    BY <2>1, FieldTypes DEF AttemptsMade
  <2>3. AttemptsMade'
    BY <1>2, <1>3, <1>5, <2>1, <2>2, ClaimedFields, FieldTypes DEF AttemptsMade
  <2>4. AttemptsUnshared'
    BY <1>2, <1>5, <2>1, <2>2, ClaimedFields, FieldTypes DEF AttemptsUnshared
  <2>5. DoubtsPast'
    BY <1>3, <1>5, <2>1, ClaimedFields, FieldTypes DEF DoubtsPast
  <2>6. LateDoubted'
    BY <1>1, <1>2, <1>3, <1>5, ClaimedFields, FieldTypes DEF LateDoubted
  <2>7. ExpiredDoubted'
    BY <1>3, <1>5, ClaimedFields DEF ExpiredDoubted
  <2>8. HeldWhileSending'
    BY <1>2, <1>3, <1>5, <2>1, <2>2, ClaimedFields, FieldTypes DEF HeldWhileSending, Busy
  <2>9. QED
    BY <2>3, <2>4, <2>5, <2>6, <2>7, <2>8
<1>6. QED
  BY <1>4, <1>5, ClaimedFields

\* bot.send_message, by the fields of its row and of its sender.
LEMMA SentFields ==
  ASSUME Parameters, Types, NEW s \in Senders, SendRow(s)
  PROVE  \E reached \in BOOLEAN, answer \in Answers \ {"none"} :
           LET r == sender[s].row
               a == sender[s].attempt
           IN /\ answer = "ok" => reached
              /\ r \in DOMAIN outbox /\ a \in Nat
              /\ sender[s].pc = "sending" /\ sender'[s].pc = "answered" /\ sender'[s].answer = answer
              /\ sender'[s].row = r /\ sender'[s].attempt = a
              /\ \A t \in Senders : t # s => sender'[t] = sender[t]
              /\ outbox' = outbox
              /\ \A q \in DOMAIN outbox : q # r => arrived'[q] = arrived[q] /\ doubts'[q] = doubts[q]
              /\ arrived'[r] = IF reached THEN arrived[r] + 1 ELSE arrived[r]
              /\ doubts'[r] = IF reached /\ answer # "ok" THEN doubts[r] \union {a} ELSE doubts[r]
<1>1. PICK reached \in BOOLEAN, answer \in Answers \ {"none"} :
           LET r == sender[s].row
               next == [sender[s] EXCEPT !.pc = "answered", !.answer = answer]
           IN /\ answer = "ok" => reached
              /\ r \in DOMAIN outbox /\ sender[s].attempt \in Nat /\ sender[s] \in SenderState
              /\ next \in SenderState
              /\ sender' = [sender EXCEPT ![s] = next]
              /\ arrived' = IF reached THEN [arrived EXCEPT ![r] = @ + 1] ELSE arrived
              /\ doubts' = IF reached /\ answer # "ok"
                           THEN [doubts EXCEPT ![r] = @ \union {sender[s].attempt}] ELSE doubts
  BY SentRow
<1> DEFINE r == sender[s].row
           a == sender[s].attempt
           next == [sender[s] EXCEPT !.pc = "answered", !.answer = answer]
<1>2. next.pc = "answered" /\ next.answer = answer /\ next.row = r /\ next.attempt = a
  BY <1>1 DEF SenderState
<1>3. sender[s].pc = "sending" /\ outbox' = outbox
  BY DEF SendRow
<1>4. sender' = [sender EXCEPT ![s] = next] /\ sender \in [Senders -> SenderState]
  BY <1>1 DEF Types
<1> HIDE DEF next
<1>5. sender'[s] = next /\ \A t \in Senders : t # s => sender'[t] = sender[t]
  BY <1>4
<1>6. /\ r \in DOMAIN outbox /\ a \in Nat
      /\ arrived' = IF reached THEN [arrived EXCEPT ![r] = @ + 1] ELSE arrived
      /\ doubts' = IF reached /\ answer # "ok" THEN [doubts EXCEPT ![r] = @ \union {a}] ELSE doubts
  BY <1>1
<1> HIDE DEF r, a
<1>7. /\ \A q \in DOMAIN outbox : q # r => arrived'[q] = arrived[q]
      /\ arrived'[r] = IF reached THEN arrived[r] + 1 ELSE arrived[r]
  <2>1. arrived[r] + 1 \in Nat
    BY <1>6, SameRows
  <2>2. QED
    BY <1>6, <2>1, CountChanged
<1>8. /\ \A q \in DOMAIN outbox : q # r => doubts'[q] = doubts[q]
      /\ doubts'[r] = IF reached /\ answer # "ok" THEN doubts[r] \union {a} ELSE doubts[r]
  BY <1>6, DoubtAdded
<1>9. QED
  BY <1>1, <1>2, <1>3, <1>5, <1>6, <1>7, <1>8 DEF r, a

\* finalize_action_delivery, and the end of the process, free the sender.
LEMMA FreedFields ==
  ASSUME Parameters, Types, NEW s \in Senders, FinalizeRow(s) \/ SenderCrash(s)
  PROVE  /\ Busy(s) /\ ~Busy(s)' /\ arrived' = arrived
         /\ sender'[s].pc = "idle"
         /\ sender[s].row \in DOMAIN outbox /\ sender[s].attempt \in Nat
         /\ \A t \in Senders : t # s => sender'[t] = sender[t]
<1>1. sender' = [sender EXCEPT ![s] = SenderIdle] /\ SenderIdle.pc = "idle"
  BY DEF FinalizeRow, SenderCrash, SenderIdle
<1>2. sender'[s] = SenderIdle /\ \A t \in Senders : t # s => sender'[t] = sender[t]
  BY <1>1 DEF Types
<1>3. Busy(s) /\ arrived' = arrived
  BY DEF FinalizeRow, SenderCrash, Busy
<1>4. QED
  BY <1>1, <1>2, <1>3, FieldTypes DEF Busy

LEMMA FinalizedRow ==
  ASSUME Parameters, Types, NEW s \in Senders, FinalizeRow(s)
  PROVE  LET r == sender[s].row
         IN /\ doubts' = doubts /\ DOMAIN outbox' = DOMAIN outbox
            /\ \A q \in DOMAIN outbox : q # r => outbox'[q] = outbox[q]
            /\ outbox'[r].attempt = outbox[r].attempt
            /\ ~OwnsAttempt(s) => outbox' = outbox
            /\ OwnsAttempt(s) => /\ outbox'[r].state # "processing"
                                 /\ outbox'[r].state = "sent" <=> sender[s].answer = "ok"
<1> DEFINE r == sender[s].row
           row == Answered(outbox[r], sender[s].answer)
<1>1. r \in DOMAIN outbox /\ outbox[r] \in Row /\ sender[s].answer \in Answers
  BY FieldTypes, FreedFields DEF SenderState
<1>2. /\ row \in Row /\ row.attempt = outbox[r].attempt /\ row.state # "processing"
      /\ row.state = "sent" <=> sender[s].answer = "ok"
  BY <1>1, AnsweredRow
<1>3. doubts' = doubts
  BY DEF FinalizeRow
<1>4. CASE OwnsAttempt(s)
  <2>1. outbox' = [outbox EXCEPT ![r] = row]
    BY <1>4 DEF FinalizeRow
  <2> HIDE DEF row, r
  <2>2. /\ DOMAIN outbox' = DOMAIN outbox /\ outbox'[r] = row
        /\ \A q \in DOMAIN outbox : q # r => outbox'[q] = outbox[q]
    BY <1>1, <1>2, <2>1, RowChanged
  <2>3. QED
    BY <1>2, <1>3, <1>4, <2>2 DEF r
<1>5. CASE ~OwnsAttempt(s)
  <2>1. outbox' = outbox
    BY <1>5 DEF FinalizeRow
  <2>2. QED
    BY <1>3, <1>5, <2>1
<1>6. QED
  BY <1>4, <1>5

\* The end of the process leaves the row, and doubts what was sent.
LEMMA CrashedRow ==
  ASSUME Parameters, Types, NEW s \in Senders, SenderCrash(s)
  PROVE  LET r == sender[s].row
         IN /\ outbox' = outbox
            /\ \A q \in DOMAIN outbox : q # r => doubts'[q] = doubts[q]
            /\ doubts'[r] = IF sender[s].answer = "ok"
                            THEN doubts[r] \union {sender[s].attempt} ELSE doubts[r]
<1> DEFINE r == sender[s].row
           a == sender[s].attempt
<1>1. r \in DOMAIN outbox /\ a \in Nat
  BY FreedFields
<1>2. /\ doubts' = IF sender[s].answer = "ok" THEN [doubts EXCEPT ![r] = @ \union {a}] ELSE doubts
      /\ outbox' = outbox
  BY DEF SenderCrash
<1> HIDE DEF r, a
<1>3. /\ \A q \in DOMAIN outbox : q # r => doubts'[q] = doubts[q]
      /\ doubts'[r] = IF sender[s].answer = "ok" THEN doubts[r] \union {a} ELSE doubts[r]
  <2>1. CASE sender[s].answer = "ok"
    <3>1. doubts' = [doubts EXCEPT ![r] = @ \union {a}]
      BY <1>2, <2>1
    <3>2. QED
      BY <1>1, <2>1, <3>1, DoubtAdded
  <2>2. CASE sender[s].answer # "ok"
    BY <1>2, <2>2
  <2>3. QED
    BY <2>1, <2>2
<1>4. QED
  BY <1>2, <1>3 DEF r, a

\* A send that ends leaves the rows, and doubts at most its own attempt.
LEMMA SendInvKeptRows ==
  ASSUME Parameters, SendInv, Types', NEW s \in Senders, SendRow(s) \/ SenderCrash(s)
  PROVE  SendInv'
<1> DEFINE r == sender[s].row
           a == sender[s].attempt
<1>1. Types
  BY DEF SendInv
<1>2. /\ r \in DOMAIN outbox /\ a \in Nat /\ a <= outbox[r].attempt /\ Busy(s) /\ outbox' = outbox
      /\ \A t \in Senders : t # s => sender'[t] = sender[t]
      /\ Busy(s)' => sender'[s].row = r /\ sender'[s].attempt = a
      /\ \A q \in DOMAIN outbox : q # r => doubts'[q] = doubts[q]
      /\ doubts'[r] = doubts[r] \/ doubts'[r] = doubts[r] \union {a}
  <2>1. CASE SendRow(s)
    BY <1>1, <2>1, SentFields DEF Busy, SendInv, AttemptsMade
  <2>2. CASE SenderCrash(s)
    BY <1>1, <2>2, FreedFields, CrashedRow DEF SendInv, AttemptsMade
  <2>3. QED
    BY <2>1, <2>2
<1> HIDE DEF r, a
<1>3. \A q \in DOMAIN outbox : doubts[q] \subseteq doubts'[q]
  BY <1>2
<1>4. \A t \in Senders : Busy(t)' => /\ Busy(t) /\ sender'[t].row = sender[t].row
                                     /\ sender'[t].attempt = sender[t].attempt
  BY <1>2 DEF Busy, r, a
<1>5. AttemptsMade' /\ AttemptsUnshared'
  BY <1>2, <1>4 DEF SendInv, AttemptsMade, AttemptsUnshared
<1>6. DoubtsPast'
  BY <1>2 DEF SendInv, DoubtsPast
<1>7. LateDoubted'
  <2>1. SUFFICES ASSUME NEW t \in Senders, Busy(t)'
                 PROVE  LET q == sender'[t].row
                        IN \/ sender'[t].attempt \in doubts'[q]
                           \/ /\ outbox'[q].attempt = sender'[t].attempt
                              /\ outbox'[q].state = "processing" /\ ~outbox'[q].due
    BY DEF LateDoubted
  <2>2. sender[t].row \in DOMAIN outbox /\ Busy(t)
    BY <1>1, <1>4, <2>1, FieldTypes
  <2>3. QED
    BY <1>2, <1>3, <1>4, <2>1, <2>2 DEF SendInv, LateDoubted
<1>8. ExpiredDoubted'
  BY <1>2, <1>3 DEF SendInv, ExpiredDoubted
<1>9. HeldWhileSending'
  BY <1>2, <1>4 DEF SendInv, HeldWhileSending, Busy
<1>10. QED
  BY <1>5, <1>6, <1>7, <1>8, <1>9 DEF SendInv

LEMMA SendInvFinalize ==
  ASSUME Parameters, SendInv, Types', NEW s \in Senders, FinalizeRow(s)
  PROVE  SendInv'
<1> DEFINE r == sender[s].row
<1>1. Types
  BY DEF SendInv
<1>2. /\ r \in DOMAIN outbox /\ Busy(s) /\ ~Busy(s)'
      /\ \A t \in Senders : t # s => sender'[t] = sender[t]
      /\ doubts' = doubts /\ DOMAIN outbox' = DOMAIN outbox
      /\ \A q \in DOMAIN outbox : q # r => outbox'[q] = outbox[q]
      /\ \A q \in DOMAIN outbox : outbox'[q].attempt = outbox[q].attempt
      /\ OwnsAttempt(s) => outbox'[r].state # "processing"
      /\ ~OwnsAttempt(s) => outbox' = outbox
  BY <1>1, FreedFields, FinalizedRow
<1> HIDE DEF r
<1>3. \A t \in Senders : Busy(t)' => Busy(t) /\ t # s /\ sender'[t] = sender[t]
  BY <1>2 DEF Busy
<1>4. AttemptsMade'
  BY <1>1, <1>2, <1>3, FieldTypes DEF SendInv, AttemptsMade
<1>5. AttemptsUnshared' /\ DoubtsPast'
  BY <1>2, <1>3 DEF SendInv, AttemptsUnshared, DoubtsPast
<1>6. ASSUME OwnsAttempt(s), NEW t \in Senders, t # s, Busy(t), sender[t].row = r
      PROVE  sender[t].attempt # outbox[r].attempt
  BY <1>2, <1>6 DEF OwnsAttempt, SendInv, AttemptsUnshared, r
<1>7. LateDoubted'
  <2>1. SUFFICES ASSUME NEW t \in Senders, Busy(t)'
                 PROVE  LET q == sender'[t].row
                        IN \/ sender'[t].attempt \in doubts'[q]
                           \/ /\ outbox'[q].attempt = sender'[t].attempt
                              /\ outbox'[q].state = "processing" /\ ~outbox'[q].due
    BY DEF LateDoubted
  <2>2. sender[t].row \in DOMAIN outbox /\ Busy(t) /\ t # s /\ sender'[t] = sender[t]
    BY <1>1, <1>3, <2>1, FieldTypes
  <2>3. \/ sender[t].attempt \in doubts[sender[t].row]
        \/ /\ outbox[sender[t].row].attempt = sender[t].attempt
           /\ outbox[sender[t].row].state = "processing" /\ ~outbox[sender[t].row].due
    BY <2>2 DEF SendInv, LateDoubted
  <2>4. QED
    BY <1>2, <1>6, <2>2, <2>3
<1>8. ExpiredDoubted'
  BY <1>2 DEF SendInv, ExpiredDoubted
<1>9. HeldWhileSending'
  <2>1. SUFFICES ASSUME NEW t \in Senders, NEW q \in DOMAIN outbox,
                        Busy(t)', sender'[t].row = q, sender'[t].attempt = outbox'[q].attempt
                 PROVE  outbox'[q].state \in {"processing", "failed"}
    BY <1>2 DEF HeldWhileSending, Busy
  <2>2. /\ t # s /\ Busy(t) /\ sender[t].row = q /\ sender[t].attempt = outbox[q].attempt
        /\ outbox[q].state \in {"processing", "failed"}
    BY <1>2, <1>3, <2>1 DEF SendInv, HeldWhileSending, Busy
  <2>3. QED
    BY <1>2, <1>6, <2>2
<1>10. QED
  BY <1>4, <1>5, <1>7, <1>8, <1>9 DEF SendInv

\* A recorded poll adds at most a row nobody has sent.
LEMMA RecordedFields ==
  ASSUME Parameters, Types, NEW w \in Pollers, RecordSuccess(w)
  PROVE  /\ sender' = sender /\ DOMAIN outbox \subseteq DOMAIN outbox'
         /\ \A r \in DOMAIN outbox : /\ outbox'[r] = outbox[r] /\ arrived'[r] = arrived[r]
                                     /\ doubts'[r] = doubts[r]
         /\ \A r \in DOMAIN outbox' \ DOMAIN outbox :
              /\ outbox'[r].state = "pending" /\ arrived'[r] = 0 /\ doubts'[r] = {}
<1>1. /\ outbox \in Seq(Row) /\ arrived \in Seq(Nat) /\ doubts \in Seq(SUBSET Nat)
      /\ Len(arrived) = Len(outbox) /\ Len(doubts) = Len(outbox)
  BY DEF Types, TypeOK
<1>2. sender' = sender
  BY RecordedRow
<1>3. CASE UNCHANGED <<outbox, arrived, doubts>>
  BY <1>2, <1>3
<1>4. CASE ~UNCHANGED <<outbox, arrived, doubts>>
  <2>1. PICK row \in Row : row.state = "pending" /\ outbox' = Append(outbox, row)
                           /\ arrived' = Append(arrived, 0) /\ doubts' = Append(doubts, {})
    BY <1>4, RecordedRow
  <2>2. /\ DOMAIN outbox' = 1..(Len(outbox) + 1) /\ DOMAIN outbox = 1..Len(outbox)
        /\ Len(outbox) \in Nat /\ outbox'[Len(outbox) + 1] = row
        /\ \A r \in 1..Len(outbox) : outbox'[r] = outbox[r]
    <3>1. outbox \in Seq(Row) /\ outbox' = Append(outbox, row) /\ row \in Row
      BY <1>1, <2>1
    <3>2. QED
      BY <3>1, AppendProperties, LenProperties
  <2>3. /\ arrived'[Len(outbox) + 1] = 0
        /\ \A r \in 1..Len(outbox) : arrived'[r] = arrived[r]
    BY <1>1, <2>1
  <2>4. /\ doubts'[Len(outbox) + 1] = {}
        /\ \A r \in 1..Len(outbox) : doubts'[r] = doubts[r]
    <3>1. {} \in SUBSET Nat
      OBVIOUS
    <3>2. QED
      BY <1>1, <2>1, <3>1
  <2>5. \A r \in DOMAIN outbox' \ DOMAIN outbox : r = Len(outbox) + 1
    BY <2>2
  <2>6. DOMAIN outbox \subseteq DOMAIN outbox'
    BY <2>2
  <2>7. \A r \in DOMAIN outbox' \ DOMAIN outbox :
           outbox'[r].state = "pending" /\ arrived'[r] = 0 /\ doubts'[r] = {}
    BY <2>1, <2>2, <2>3, <2>4, <2>5
  <2>8. QED
    BY <1>2, <2>2, <2>3, <2>4, <2>6, <2>7
<1>5. QED
  BY <1>3, <1>4

LEMMA SendInvRecord ==
  ASSUME Parameters, SendInv, Types', NEW w \in Pollers, RecordSuccess(w)
  PROVE  SendInv'
<1>1. Types
  BY DEF SendInv
<1>2. /\ sender' = sender /\ DOMAIN outbox \subseteq DOMAIN outbox'
      /\ \A r \in DOMAIN outbox : outbox'[r] = outbox[r] /\ doubts'[r] = doubts[r]
      /\ \A r \in DOMAIN outbox' \ DOMAIN outbox : outbox'[r].state = "pending" /\ doubts'[r] = {}
  BY <1>1, RecordedFields
<1>3. \A s \in Senders : Busy(s) => sender[s].row \in DOMAIN outbox
  BY <1>1, FieldTypes
<1>4. AttemptsMade' /\ AttemptsUnshared'
  BY <1>2, <1>3 DEF SendInv, AttemptsMade, AttemptsUnshared, Busy
<1>5. DoubtsPast' /\ ExpiredDoubted'
  BY <1>2 DEF SendInv, DoubtsPast, ExpiredDoubted
<1>6. LateDoubted'
  BY <1>2, <1>3 DEF SendInv, LateDoubted, Busy
<1>7. HeldWhileSending'
  BY <1>2, <1>3 DEF SendInv, HeldWhileSending, Busy
<1>8. QED
  BY <1>4, <1>5, <1>6, <1>7 DEF SendInv

\* Every other step leaves the outbox alone.
LEMMA OtherSteps ==
  ASSUME [Next]_vars,
         ~\E r \in DOMAIN outbox : RowComesDue(r),
         ~\E w \in Pollers : RecordSuccess(w),
         ~\E s \in Senders : SendStep(s) \/ SenderCrash(s)
  PROVE  UNCHANGED <<outbox, sender, arrived, doubts>>
<1>1. CASE \E w \in Pollers : PollStep(w) \/ PollerCrash(w)
  BY <1>1 DEF PollStep, PollerCrash, ClaimPoll, RenewPoll, Observe, RecordFailure
<1>2. CASE Change \/ PollComesDue \/ PollLeaseEnds \/ UNCHANGED vars
  BY <1>2 DEF Change, PollComesDue, PollLeaseEnds, vars
<1>3. QED
  BY <1>1, <1>2 DEF Next

LEMMA SendStepInv ==
  ASSUME Parameters, SendInv, [Next]_vars
  PROVE  SendInv'
<1>1. Types'
  BY StepTypes DEF SendInv
<1>2. ASSUME UNCHANGED <<outbox, sender, arrived, doubts>> PROVE SendInv'
  BY <1>1, <1>2 DEF SendInv, AttemptsMade, AttemptsUnshared, DoubtsPast, LateDoubted,
                    ExpiredDoubted, HeldWhileSending, Busy
<1>3. ASSUME NEW s \in Senders, SendStep(s) \/ SenderCrash(s) PROVE SendInv'
  BY <1>1, <1>3, SendInvClaim, SendInvKeptRows, SendInvFinalize DEF SendStep
<1>4. QED
  BY <1>1, <1>2, <1>3, SendInvDue, SendInvRecord, OtherSteps

LEMMA InitSends ==
  ASSUME Parameters, Init
  PROVE  SendInv /\ DOMAIN outbox = {}
<1>1. sender = [s \in Senders |-> SenderIdle] /\ outbox = <<>>
  BY DEF Init
<1>2. DOMAIN outbox = {} /\ \A s \in Senders : ~Busy(s)
  BY <1>1 DEF SenderIdle, Busy
<1>3. QED
  BY <1>2, InitTypes DEF SendInv, AttemptsMade, AttemptsUnshared, DoubtsPast, LateDoubted,
                         ExpiredDoubted, HeldWhileSending

LEMMA SendInvariant ==
  ASSUME Parameters
  PROVE  Spec => []SendInv
<1>1. Init => SendInv
  BY InitSends
<1>2. SendInv /\ [Next]_vars => SendInv'
  BY SendStepInv
<1>3. QED
  BY <1>1, <1>2, SpecSteps, PTL

\* While the current attempt of a row is under way, no answer to an earlier
\* attempt puts the row back into the queue or marks it sent, however late that
\* answer comes (the fence on attempt_count in finalize_action_delivery).
THEOREM AttemptIsHeld ==
  ASSUME Parameters
  PROVE  Spec => []HeldWhileSending
<1>1. SendInv => HeldWhileSending
  BY DEF SendInv
<1>2. QED
  BY <1>1, SendInvariant, PTL

-----------------------------------------------------------------------------
(* An alert that comes twice had an attempt in doubt                        *)

\* The attempts whose message is on its way.
Underway(r) ==
  {sender[s].attempt : s \in {t \in Senders : sender[t].pc = "sending" /\ sender[t].row = r}}

\* The attempts in doubt that will bring no message any more.
Spent(r) == doubts[r] \ Underway(r)

\* A sender knows that its message arrived, and nothing has put that in doubt.
KnownBy(s, r) ==
  /\ sender[s].pc = "answered" /\ sender[s].answer = "ok"
  /\ sender[s].row = r /\ sender[s].attempt \notin doubts[r]

Known(r) == outbox[r].state = "sent" \/ \E s \in Senders : KnownBy(s, r)

\* Every message that arrived is the one that is known or has a spent doubt.
ArrivalsCounted ==
  \A r \in DOMAIN outbox : arrived[r] <= Cardinality(Spent(r)) + (IF Known(r) THEN 1 ELSE 0)

CountInv == SendInv /\ ArrivalsCounted

\* Arrivals stay counted when no attempt stops being spent, and what is lost
\* of the known message or gained in arrivals is made up for.
LEMMA CountStep ==
  ASSUME NEW S, NEW T, IsFiniteSet(T), S \subseteq T,
         NEW m \in Nat, NEW n \in Nat, NEW j \in {0, 1}, NEW k \in {0, 1},
         m <= Cardinality(S) + j,
         \/ n <= m /\ j <= k
         \/ n <= m + 1 /\ j = 0 /\ k = 1
         \/ S # T /\ (n <= m \/ (n <= m + 1 /\ j <= k))
  PROVE  n <= Cardinality(T) + k
<1>1. /\ IsFiniteSet(S) /\ Cardinality(S) \in Nat /\ Cardinality(T) \in Nat
      /\ Cardinality(S) <= Cardinality(T)
      /\ S # T => Cardinality(S) < Cardinality(T)
  BY FS_Subset, FS_CardinalityType
<1>2. QED
  BY <1>1

\* The doubts about a row are finitely many.
LEMMA DoubtsFinite ==
  ASSUME Parameters, SendInv, NEW r \in DOMAIN outbox
  PROVE  IsFiniteSet(doubts[r]) /\ IsFiniteSet(Spent(r)) /\ arrived[r] \in Nat
<1>1. Types
  BY DEF SendInv
<1>2. doubts[r] \subseteq 0..outbox[r].attempt
  BY <1>1, FieldTypes DEF SendInv, DoubtsPast
<1>3. IsFiniteSet(0..outbox[r].attempt)
  BY <1>1, FieldTypes, FS_Interval
<1>4. IsFiniteSet(doubts[r]) /\ IsFiniteSet(Spent(r))
  BY <1>2, <1>3, FS_Subset DEF Spent
<1>5. QED
  BY <1>1, <1>4, SameRows

LEMMA CountedRow ==
  ASSUME Parameters, CountInv, SendInv', NEW r \in DOMAIN outbox, r \in DOMAIN outbox',
         Spent(r) \subseteq Spent(r)',
         \/ arrived'[r] <= arrived[r] /\ (Known(r) => Known(r)')
         \/ arrived'[r] <= arrived[r] + 1 /\ ~Known(r) /\ Known(r)'
         \/ /\ Spent(r) # Spent(r)'
            /\ \/ arrived'[r] <= arrived[r]
               \/ arrived'[r] <= arrived[r] + 1 /\ (Known(r) => Known(r)')
  PROVE  arrived'[r] <= Cardinality(Spent(r)') + (IF Known(r)' THEN 1 ELSE 0)
<1> DEFINE j == IF Known(r) THEN 1 ELSE 0
           k == IF Known(r)' THEN 1 ELSE 0
           S == Spent(r)
           T == Spent(r)'
<1>1. IsFiniteSet(T) /\ arrived'[r] \in Nat
  <2>1. /\ outbox' \in Seq(Row) /\ doubts' \in Seq(SUBSET Nat) /\ arrived' \in Seq(Nat)
        /\ Len(doubts') = Len(outbox') /\ Len(arrived') = Len(outbox')
    BY DEF SendInv, Types, TypeOK
  <2>2. outbox'[r] \in Row /\ doubts'[r] \subseteq Nat /\ arrived'[r] \in Nat
    BY <2>1
  <2>3. outbox'[r].attempt \in Nat
    BY <2>2 DEF Row, Parameters
  <2>4. doubts'[r] \subseteq 0..outbox'[r].attempt
    BY <2>2, <2>3 DEF SendInv, DoubtsPast
  <2>7. IsFiniteSet(0..outbox'[r].attempt)
    BY <2>3, FS_Interval
  <2>5. IsFiniteSet(doubts'[r]) /\ T \subseteq doubts'[r]
    BY <2>4, <2>7, FS_Subset DEF Spent
  <2>6. QED
    BY <2>2, <2>5, FS_Subset
<1>2. arrived[r] \in Nat /\ arrived[r] <= Cardinality(S) + j
  BY DoubtsFinite DEF CountInv, ArrivalsCounted
<1>3. j \in {0, 1} /\ k \in {0, 1} /\ S \subseteq T
  OBVIOUS
<1>4. \/ arrived'[r] <= arrived[r] /\ j <= k
      \/ arrived'[r] <= arrived[r] + 1 /\ j = 0 /\ k = 1
      \/ S # T /\ (arrived'[r] <= arrived[r] \/ (arrived'[r] <= arrived[r] + 1 /\ j <= k))
  OBVIOUS
<1> HIDE DEF j, k, S, T
<1>5. arrived'[r] <= Cardinality(T) + k
  BY <1>1, <1>2, <1>3, <1>4, CountStep
<1>6. QED
  BY <1>5 DEF k, T

\* A delay that passes, or a lease: the doubt it adds makes up for the message
\* that is no longer known.
LEMMA CountDue ==
  ASSUME Parameters, CountInv, SendInv', NEW p \in DOMAIN outbox, RowComesDue(p)
  PROVE  ArrivalsCounted'
<1>1. Types
  BY DEF CountInv, SendInv
<1>2. /\ DOMAIN outbox' = DOMAIN outbox /\ sender' = sender /\ arrived' = arrived
      /\ \A q \in DOMAIN outbox : /\ outbox'[q].state = outbox[q].state
                                  /\ doubts[q] \subseteq doubts'[q]
                                  /\ q # p => doubts'[q] = doubts[q]
      /\ \A a \in doubts'[p] : a \in doubts[p] \/ a = outbox[p].attempt
  BY <1>1, DueRow
<1>3. SUFFICES ASSUME NEW r \in DOMAIN outbox
               PROVE  arrived'[r] <= Cardinality(Spent(r)') + (IF Known(r)' THEN 1 ELSE 0)
  BY <1>2 DEF ArrivalsCounted
<1>4. Underway(r)' = Underway(r)
  BY <1>2 DEF Underway
<1>5. Spent(r) \subseteq Spent(r)'
  BY <1>2, <1>4 DEF Spent
<1>6. arrived[r] \in Nat
  BY DoubtsFinite DEF CountInv
<1>7. CASE Known(r) => Known(r)'
  BY <1>2, <1>5, <1>6, <1>7, CountedRow
<1>8. CASE Known(r) /\ ~Known(r)'
  <2>1. PICK s \in Senders : KnownBy(s, r) /\ ~KnownBy(s, r)'
    BY <1>2, <1>8 DEF Known
  <2> DEFINE a == sender[s].attempt
  <2>2. a \in doubts'[r] /\ a \notin doubts[r]
    BY <1>2, <2>1 DEF KnownBy
  <2>3. a \notin Underway(r)
    BY <2>1 DEF Underway, KnownBy, CountInv, SendInv, AttemptsUnshared, Busy
  <2>4. Spent(r) # Spent(r)'
    BY <1>4, <2>2, <2>3 DEF Spent
  <2>5. QED
    BY <1>2, <1>5, <1>6, <2>4, CountedRow
<1>9. QED
  BY <1>7, <1>8

\* A claim begins an attempt nobody doubts, of a row that is not known to have
\* arrived, or gives the row up.
LEMMA CountClaim ==
  ASSUME Parameters, CountInv, SendInv', NEW s \in Senders, NEW p \in DOMAIN outbox, ClaimRow(s, p)
  PROVE  ArrivalsCounted'
<1>1. Types
  BY DEF CountInv, SendInv
<1>2. /\ Candidate(p) /\ ~Busy(s) /\ DOMAIN outbox' = DOMAIN outbox
      /\ arrived' = arrived /\ doubts' = doubts
      /\ \A q \in DOMAIN outbox : q # p => outbox'[q] = outbox[q]
      /\ \A t \in Senders : t # s => sender'[t] = sender[t]
      /\ \/ sender'[s] = sender[s]
         \/ /\ sender'[s].pc = "sending" /\ sender'[s].row = p
            /\ sender'[s].attempt = outbox[p].attempt + 1
  BY <1>1, ClaimedFields
<1>3. SUFFICES ASSUME NEW r \in DOMAIN outbox
               PROVE  arrived'[r] <= Cardinality(Spent(r)') + (IF Known(r)' THEN 1 ELSE 0)
  BY <1>2 DEF ArrivalsCounted
<1>4. \A a \in Underway(r)' : a \in Underway(r) \/ (r = p /\ a = outbox[p].attempt + 1)
  <2>1. SUFFICES ASSUME NEW t \in Senders, sender'[t].pc = "sending", sender'[t].row = r,
                        sender'[t].attempt \notin Underway(r)
                 PROVE  r = p /\ sender'[t].attempt = outbox[p].attempt + 1
    BY DEF Underway
  <2>2. sender'[t] # sender[t]
    BY <2>1 DEF Underway
  <2>3. QED
    BY <1>2, <2>1, <2>2
<1>5. outbox[p].attempt + 1 \notin doubts[p]
  <2>1. outbox[p].attempt \in Nat
    BY <1>1, FieldTypes
  <2>2. QED
    BY <2>1 DEF CountInv, SendInv, DoubtsPast
<1>6. Spent(r) \subseteq Spent(r)'
  BY <1>2, <1>4, <1>5 DEF Spent
<1>7. Known(r) => Known(r)'
  <2>1. \A t \in Senders : KnownBy(t, r) => KnownBy(t, r)'
    BY <1>2 DEF KnownBy, Busy
  <2>2. outbox[r].state = "sent" => r # p
    BY <1>2 DEF Candidate
  <2>3. QED
    BY <1>2, <2>1, <2>2 DEF Known
<1>8. arrived[r] \in Nat
  BY DoubtsFinite DEF CountInv
<1>9. QED
  BY <1>2, <1>6, <1>7, <1>8, CountedRow

\* The last answer counts: it is known, or its doubt is spent.
LEMMA CountSend ==
  ASSUME Parameters, CountInv, SendInv', NEW s \in Senders, SendRow(s)
  PROVE  ArrivalsCounted'
<1>1. Types /\ Types'
  BY DEF CountInv, SendInv
<1> DEFINE p == sender[s].row
           a == sender[s].attempt
<1>2. PICK reached \in BOOLEAN, answer \in Answers \ {"none"} :
        /\ answer = "ok" => reached
        /\ p \in DOMAIN outbox /\ a \in Nat
        /\ sender[s].pc = "sending" /\ sender'[s].pc = "answered" /\ sender'[s].answer = answer
        /\ sender'[s].row = p /\ sender'[s].attempt = a
        /\ \A t \in Senders : t # s => sender'[t] = sender[t]
        /\ outbox' = outbox
        /\ \A q \in DOMAIN outbox : q # p => arrived'[q] = arrived[q] /\ doubts'[q] = doubts[q]
        /\ arrived'[p] = IF reached THEN arrived[p] + 1 ELSE arrived[p]
        /\ doubts'[p] = IF reached /\ answer # "ok" THEN doubts[p] \union {a} ELSE doubts[p]
  BY <1>1, SentFields
<1> HIDE DEF p, a
<1>3. SUFFICES ASSUME NEW r \in DOMAIN outbox
               PROVE  arrived'[r] <= Cardinality(Spent(r)') + (IF Known(r)' THEN 1 ELSE 0)
  BY <1>2 DEF ArrivalsCounted
<1>4. arrived[r] \in Nat /\ r \in DOMAIN outbox'
  BY <1>2, DoubtsFinite DEF CountInv
<1>5. \A t \in Senders : t # s /\ Busy(t) /\ sender[t].row = p => sender[t].attempt # a
  BY <1>2 DEF CountInv, SendInv, AttemptsUnshared, Busy, p, a
<1>6. Underway(r)' \subseteq Underway(r)
  BY <1>2 DEF Underway, p, a
<1>7. Spent(r) \subseteq Spent(r)'
  BY <1>2, <1>6 DEF Spent
<1>8. \A t \in Senders : KnownBy(t, r) => KnownBy(t, r)'
  BY <1>2, <1>5 DEF KnownBy, Busy
<1>9. Known(r) => Known(r)'
  BY <1>2, <1>8 DEF Known
<1>10. CASE r # p \/ ~reached
  <2>1. arrived'[r] = arrived[r]
    BY <1>2, <1>10
  <2>2. QED
    BY <1>4, <1>7, <1>9, <2>1, CountedRow
<1>11. CASE r = p /\ reached
  <2>1. arrived'[r] = arrived[r] + 1
    BY <1>2, <1>11
  <2>2. CASE a \in doubts'[p]
    <3>1. a \in Underway(r)
      BY <1>2, <1>11 DEF Underway, p, a
    <3>2. a \notin Underway(r)'
      BY <1>2, <1>5, <1>11 DEF Underway, Busy
    <3>3. Spent(r) # Spent(r)'
      BY <1>11, <2>2, <3>1, <3>2 DEF Spent
    <3>4. QED
      BY <1>4, <1>7, <1>9, <2>1, <3>3, CountedRow
  <2>3. CASE a \notin doubts'[p]
    <3>1. answer = "ok" /\ a \notin doubts[p]
      BY <1>2, <1>11, <2>3
    <3>2. Known(r)'
      BY <1>2, <1>11, <2>3, <3>1 DEF Known, KnownBy
    <3>3. outbox[p].attempt = a /\ outbox[p].state = "processing"
      BY <1>2, <3>1 DEF CountInv, SendInv, LateDoubted, Busy, p, a
    <3>4. ASSUME NEW t \in Senders, KnownBy(t, p) PROVE FALSE
      <4>1. Busy(t) /\ sender[t].row = p /\ sender[t].attempt \notin doubts[p] /\ t # s
        BY <1>2, <3>4 DEF KnownBy, Busy
      <4>2. outbox[p].attempt = sender[t].attempt
        BY <4>1 DEF CountInv, SendInv, LateDoubted
      <4>3. QED
        BY <1>5, <3>3, <4>1, <4>2
    <3>5. ~Known(r)
      BY <1>11, <3>3, <3>4 DEF Known
    <3>6. QED
      BY <1>4, <1>7, <2>1, <3>2, <3>5, CountedRow
  <2>4. QED
    BY <2>2, <2>3
<1>12. QED
  BY <1>10, <1>11

\* What a sender knew, its row says once the answer is recorded.
LEMMA CountFinalize ==
  ASSUME Parameters, CountInv, SendInv', NEW s \in Senders, FinalizeRow(s)
  PROVE  ArrivalsCounted'
<1>1. Types
  BY DEF CountInv, SendInv
<1> DEFINE p == sender[s].row
<1>2. /\ p \in DOMAIN outbox /\ sender'[s].pc = "idle" /\ arrived' = arrived
      /\ \A t \in Senders : t # s => sender'[t] = sender[t]
      /\ doubts' = doubts /\ DOMAIN outbox' = DOMAIN outbox
      /\ \A q \in DOMAIN outbox : q # p => outbox'[q] = outbox[q]
      /\ ~OwnsAttempt(s) => outbox' = outbox
      /\ OwnsAttempt(s) => (outbox'[p].state = "sent" <=> sender[s].answer = "ok")
  BY <1>1, FreedFields, FinalizedRow
<1>3. sender[s].pc = "answered"
  BY DEF FinalizeRow
<1>4. SUFFICES ASSUME NEW r \in DOMAIN outbox
               PROVE  arrived'[r] <= Cardinality(Spent(r)') + (IF Known(r)' THEN 1 ELSE 0)
  BY <1>2 DEF ArrivalsCounted
<1>5. Underway(r)' \subseteq Underway(r)
  BY <1>2 DEF Underway
<1>6. Spent(r) \subseteq Spent(r)'
  BY <1>2, <1>5 DEF Spent
<1>7. \A t \in Senders : t # s /\ KnownBy(t, r) => KnownBy(t, r)'
  BY <1>2 DEF KnownBy
<1>8. outbox[r].state = "sent" => outbox'[r].state = "sent"
  BY <1>2 DEF OwnsAttempt
<1>9. KnownBy(s, r) => outbox'[r].state = "sent"
  <2>1. SUFFICES ASSUME KnownBy(s, r) PROVE outbox'[r].state = "sent"
    OBVIOUS
  <2>2. r = p /\ sender[s].answer = "ok" /\ sender[s].attempt \notin doubts[r] /\ Busy(s)
    BY <2>1 DEF KnownBy, Busy
  <2>3. OwnsAttempt(s)
    BY <2>2 DEF OwnsAttempt, CountInv, SendInv, LateDoubted
  <2>4. QED
    BY <1>2, <2>2, <2>3
<1>10. Known(r) => Known(r)'
  BY <1>7, <1>8, <1>9 DEF Known
<1>11. arrived[r] \in Nat
  BY DoubtsFinite DEF CountInv
<1>12. QED
  BY <1>2, <1>6, <1>10, <1>11, CountedRow

\* A process that ends after its message arrived leaves a spent doubt.
LEMMA CountCrash ==
  ASSUME Parameters, CountInv, SendInv', NEW s \in Senders, SenderCrash(s)
  PROVE  ArrivalsCounted'
<1>1. Types
  BY DEF CountInv, SendInv
<1> DEFINE p == sender[s].row
           a == sender[s].attempt
<1>2. /\ p \in DOMAIN outbox /\ sender'[s].pc = "idle" /\ arrived' = arrived /\ outbox' = outbox
      /\ Busy(s)
      /\ \A t \in Senders : t # s => sender'[t] = sender[t]
      /\ \A q \in DOMAIN outbox : q # p => doubts'[q] = doubts[q]
      /\ doubts'[p] = IF sender[s].answer = "ok" THEN doubts[p] \union {a} ELSE doubts[p]
  BY <1>1, FreedFields, CrashedRow
<1>3. SUFFICES ASSUME NEW r \in DOMAIN outbox
               PROVE  arrived'[r] <= Cardinality(Spent(r)') + (IF Known(r)' THEN 1 ELSE 0)
  BY <1>2 DEF ArrivalsCounted
<1>4. \A t \in Senders : t # s /\ Busy(t) /\ sender[t].row = p => sender[t].attempt # a
  BY <1>2 DEF CountInv, SendInv, AttemptsUnshared
<1>5. Underway(r)' \subseteq Underway(r)
  BY <1>2 DEF Underway
<1> HIDE DEF p, a
<1>6. Spent(r) \subseteq Spent(r)'
  BY <1>2, <1>5 DEF Spent
<1>7. \A t \in Senders : t # s /\ KnownBy(t, r) => KnownBy(t, r)'
  BY <1>2, <1>4 DEF KnownBy, Busy
<1>8. arrived[r] \in Nat
  BY DoubtsFinite DEF CountInv
<1>9. CASE ~KnownBy(s, r)
  <2>1. Known(r) => Known(r)'
    BY <1>2, <1>7, <1>9 DEF Known
  <2>2. QED
    BY <1>2, <1>6, <1>8, <2>1, CountedRow
<1>10. CASE KnownBy(s, r)
  <2>1. r = p /\ sender[s].answer = "ok" /\ a \notin doubts[r]
    BY <1>10 DEF KnownBy, p, a
  <2>2. a \in doubts'[r]
    BY <1>2, <2>1
  <2>3. a \notin Underway(r)'
    BY <1>2, <1>4, <2>1 DEF Underway, Busy
  <2>4. Spent(r) # Spent(r)'
    BY <2>1, <2>2, <2>3 DEF Spent
  <2>5. QED
    BY <1>2, <1>6, <1>8, <2>4, CountedRow
<1>11. QED
  BY <1>9, <1>10

\* A new row has no message yet.
LEMMA CountRecord ==
  ASSUME Parameters, CountInv, SendInv', NEW w \in Pollers, RecordSuccess(w)
  PROVE  ArrivalsCounted'
<1>1. Types
  BY DEF CountInv, SendInv
<1>2. /\ sender' = sender /\ DOMAIN outbox \subseteq DOMAIN outbox'
      /\ \A r \in DOMAIN outbox : /\ outbox'[r] = outbox[r] /\ arrived'[r] = arrived[r]
                                  /\ doubts'[r] = doubts[r]
      /\ \A r \in DOMAIN outbox' \ DOMAIN outbox : arrived'[r] = 0 /\ doubts'[r] = {}
  BY <1>1, RecordedFields
<1>3. ASSUME NEW r \in DOMAIN outbox
      PROVE  arrived'[r] <= Cardinality(Spent(r)') + (IF Known(r)' THEN 1 ELSE 0)
  <2>1. Spent(r)' = Spent(r) /\ (Known(r) => Known(r)')
    BY <1>2 DEF Spent, Underway, Known, KnownBy
  <2>2. arrived[r] \in Nat
    BY DoubtsFinite DEF CountInv
  <2>3. QED
    BY <1>2, <2>1, <2>2, CountedRow
<1>4. ASSUME NEW r \in DOMAIN outbox' \ DOMAIN outbox
      PROVE  arrived'[r] <= Cardinality(Spent(r)') + (IF Known(r)' THEN 1 ELSE 0)
  <2>1. Spent(r)' = {} /\ arrived'[r] = 0
    BY <1>2 DEF Spent
  <2>2. QED
    BY <2>1, FS_EmptySet
<1>5. QED
  BY <1>3, <1>4 DEF ArrivalsCounted

LEMMA CountStepInv ==
  ASSUME Parameters, CountInv, [Next]_vars
  PROVE  CountInv'
<1>1. SendInv'
  BY SendStepInv DEF CountInv
<1>2. ASSUME UNCHANGED <<outbox, sender, arrived, doubts>> PROVE CountInv'
  BY <1>1, <1>2 DEF CountInv, ArrivalsCounted, Spent, Underway, Known, KnownBy
<1>3. ASSUME NEW s \in Senders, SendStep(s) \/ SenderCrash(s) PROVE CountInv'
  BY <1>1, <1>3, CountClaim, CountSend, CountFinalize, CountCrash DEF SendStep, CountInv
<1>4. QED
  BY <1>1, <1>2, <1>3, CountDue, CountRecord, OtherSteps DEF CountInv

LEMMA InitCounts ==
  ASSUME Parameters, Init
  PROVE  CountInv
BY InitSends DEF CountInv, ArrivalsCounted

LEMMA CountedDoubts ==
  ASSUME Parameters, CountInv
  PROVE  DuplicateNeedsDoubt
<1>1. SUFFICES ASSUME NEW r \in DOMAIN outbox
               PROVE  arrived[r] <= 1 + Cardinality(doubts[r])
  BY DEF DuplicateNeedsDoubt
<1>2. IsFiniteSet(doubts[r]) /\ arrived[r] \in Nat /\ Spent(r) \subseteq doubts[r]
  BY DoubtsFinite DEF CountInv, Spent
<1>3. /\ Cardinality(Spent(r)) <= Cardinality(doubts[r])
      /\ Cardinality(Spent(r)) \in Nat /\ Cardinality(doubts[r]) \in Nat
  BY <1>2, FS_Subset, FS_CardinalityType
<1>4. arrived[r] <= Cardinality(Spent(r)) + 1
  BY <1>2, <1>3 DEF CountInv, ArrivalsCounted
<1>5. QED
  BY <1>2, <1>3, <1>4

\* An alert reaches the chat a second time only for an attempt whose end the
\* outbox never learnt: no answer, a crash after the send, or a lease that ended
\* before the answer came.  The count holds for any number of attempts.
THEOREM DuplicatesAreDoubted ==
  ASSUME Parameters
  PROVE  Spec => []DuplicateNeedsDoubt
<1>1. Init => CountInv
  BY InitCounts
<1>2. CountInv /\ [Next]_vars => CountInv'
  BY CountStepInv
<1>3. CountInv => DuplicateNeedsDoubt
  BY CountedDoubts
<1>4. QED
  BY <1>1, <1>2, <1>3, SpecSteps, PTL
=============================================================================
