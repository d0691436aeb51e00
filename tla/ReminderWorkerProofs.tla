------------------------- MODULE ReminderWorkerProofs -------------------------
(***************************************************************************)
(* The delivery protocol, for any number of workers and reminders and any  *)
(* timing that satisfies the assumptions of ReminderWorker: no two workers *)
(* send the same reminder, duplicates need a lost acknowledgement, the     *)
(* message identities in the table are real, /cancel stops sends, and the  *)
(* worker implements DeliveryContract.                                     *)
(*                                                                         *)
(* Send exclusion is not inductive: that two workers are never sending the *)
(* same reminder rests on the lease, on the time each step may take, and   *)
(* on lease tokens that are never shared.  SendInv says so.  What users    *)
(* receive has three more layers, each an inductive invariant relative to  *)
(* the ones before it: who holds a row (FenceInv), what became of each     *)
(* message (MessageInv), and how many copies the attempts allow            *)
(* (BudgetInv).                                                            *)
(***************************************************************************)
EXTENDS ReminderWorker, FiniteSetTheorems, TLAPS

\* The claims worker w may still act on.
Held(w) == batch[w] \union (IF step[w] \in {"idle", "claim"} THEN {} ELSE {job[w]})

\* The longest time from step s to the end of the Telegram call.
TimeLeft(s) ==
  CASE s = "prepare" -> 2 * StepBound + SendTimeout
    [] s = "compose" -> StepBound + SendTimeout
    [] OTHER         -> SendTimeout

\* No worker overstays its step: Tick waits for it.
OnTime == \A w \in Workers : now[w] <= clock /\ clock <= now[w] + Patience(step[w])

TokensIssued == \A w \in Workers : \A c \in Held(w) : c.token <= row[c.id].issued

TokensUnshared ==
  \A v, w \in Workers : v # w =>
    \A c \in Held(v) : \A d \in Held(w) : ~(c.id = d.id /\ c.token = d.token)

\* While a worker is on its way to Telegram, its row is its own for the rest
\* of the way, unless the user cancelled the reminder.
LeaseCovers(w) ==
  LET q == row[job[w].id]
  IN \/ q.state = "cancelled"
     \/ /\ q.status = "processing"
        /\ q.state \in Live
        /\ q.token = job[w].token
        /\ q.lease > now[w] + TimeLeft(step[w])

SendInv ==
  /\ TypeOK
  /\ OnTime
  /\ TokensIssued
  /\ TokensUnshared
  /\ \A w \in Workers : step[w] \in Sending => LeaseCovers(w)
  /\ SendExclusion

-----------------------------------------------------------------------------
(* The operators that build rows                                            *)

LEMMA PatienceType == \A s \in Steps : Patience(s) \in Nat
  BY LeaseAssumption DEF Patience

LEMMA RetryDelayType ==
  ASSUME NEW f \in Nat, NEW a \in Nat
  PROVE  RetryDelay(f, a) \in Nat
<1> DEFINE e == IF f <= 1 THEN 0 ELSE IF f > 31 THEN 30 ELSE f - 1
<1>1. e \in 0..30
  OBVIOUS
<1> DEFINE power == 2^e
<1>2. power \in Nat
  BY <1>1, PowersAssumption
<1>3. RetryBase \in Nat /\ RetryMax \in Nat
  BY DataAssumption
<1>4. RetryDelay(f, a) =
        LET doubled == RetryBase * power
            capped == IF doubled < RetryMax THEN doubled ELSE RetryMax
            delay == IF capped < a THEN a ELSE capped
        IN IF delay < 1 THEN 1 ELSE delay
  BY DEF RetryDelay
<1> HIDE DEF power
<1>5. QED
  BY <1>2, <1>3, <1>4

LEMMA FailureDelayType == \A f \in Failure : f.retryAfter \in Nat
<1>1. RetryAfters \union {0} \subseteq Nat
  BY DataAssumption
<1> DEFINE delays == RetryAfters \union {0}
<1> HIDE DEF delays
<1>2. ASSUME NEW f \in [terminal : BOOLEAN, retryAfter : delays]
      PROVE  f.retryAfter \in delays
  OBVIOUS
<1>3. QED
  BY <1>1, <1>2 DEF Failure, delays

LEMMA ClaimedType ==
  ASSUME NEW q \in Row, NEW t \in Nat
  PROVE  Claimed(q, t) \in Row /\ Claimed(q, t).issued = q.issued + 1
<1>1. LeaseDuration \in Nat
  BY LeaseAssumption
<1>2. t + LeaseDuration \in Nat /\ q.issued + 1 \in Nat /\ q.attempts + 1 \in Nat
  BY <1>1 DEF Row
<1> DEFINE lease == t + LeaseDuration
           token == q.issued + 1
           attempts == q.attempts + 1
<1> HIDE DEF lease, token, attempts
<1>3. LET c == [q EXCEPT !.status = "processing", !.lease = lease, !.token = token,
                         !.issued = token, !.nextRetry = 0, !.lastMsg = 0,
                         !.lastOcc = 0, !.attempts = attempts]
      IN c \in Row /\ c.issued = token
  BY <1>2 DEF Row, lease, token, attempts
<1>4. QED
  BY <1>3 DEF Claimed, Null, lease, token, attempts

LEMMA ExhaustedType ==
  ASSUME NEW q \in Row
  PROVE  Exhausted(q) \in Row /\ Exhausted(q).issued = q.issued
  BY DEF Exhausted, ClearProcessingState, Row, Null

LEMMA SucceededType ==
  ASSUME NEW q \in Row, NEW n \in Nat
  PROVE  /\ DeliveredRow(q) \in Row /\ DeliveredRow(q).issued = q.issued
         /\ AdvancedRow(q, n) \in Row /\ AdvancedRow(q, n).issued = q.issued
<1>1. Succeeded(q) \in Row /\ Succeeded(q).issued = q.issued
  BY DEF Succeeded, ClearProcessingState, Row, Null
<1> DEFINE s == Succeeded(q)
<1> HIDE DEF s
<1>2. s \in Row /\ s.issued = q.issued
  BY <1>1 DEF s
<1>3. /\ [s EXCEPT !.status = "sent", !.state = "delivered", !.deliverAt = Null] \in Row
      /\ [s EXCEPT !.status = "sent", !.state = "delivered",
                   !.deliverAt = Null].issued = q.issued
  BY <1>2 DEF Row, Null
<1>4. /\ [s EXCEPT !.status = "pending", !.state = "scheduled",
                   !.remindAt = n, !.deliverAt = n, !.occ = "absent"] \in Row
      /\ [s EXCEPT !.status = "pending", !.state = "scheduled",
                   !.remindAt = n, !.deliverAt = n, !.occ = "absent"].issued = q.issued
  BY <1>2 DEF Row, Live
<1>5. QED
  BY <1>3, <1>4 DEF s, DeliveredRow, AdvancedRow

LEMMA CancelledType ==
  ASSUME NEW q \in Row, NEW t \in Nat
  PROVE  /\ Cancelled(q, t) \in Row
         /\ Cancelled(q, t).state = "cancelled"
         /\ Cancelled(q, t).issued = q.issued
  BY DEF Cancelled, Row, Null

LEMMA FailedType ==
  ASSUME NEW q \in Row, NEW t \in Nat
  PROVE  LET a == [FailedRow(q) EXCEPT !.status = "failed", !.state = "failed"]
             b == [FailedRow(q) EXCEPT !.status = "pending", !.state = "scheduled",
                                       !.nextRetry = t]
         IN a \in Row /\ a.issued = q.issued /\ b \in Row /\ b.issued = q.issued
<1> DEFINE retries == q.retries + 1
<1>1. FailedRow(q) \in Row /\ FailedRow(q).issued = q.issued
  <2>1. retries \in Nat
    BY DEF Row
  <2> HIDE DEF retries
  <2>2. LET f == [q EXCEPT !.retries = retries, !.occ = "failed", !.lastMsg = 0,
                           !.lastOcc = 0, !.lease = 0, !.token = 0, !.nextRetry = 0]
        IN f \in Row /\ f.issued = q.issued
    BY <2>1 DEF Row
  <2>3. FailedRow(q) = [q EXCEPT !.retries = retries, !.occ = "failed", !.lastMsg = 0,
                           !.lastOcc = 0, !.lease = 0, !.token = 0, !.nextRetry = 0]
    BY DEF FailedRow, ClearProcessingState, Row, Null, retries
  <2>4. QED
    BY <2>2, <2>3
<1> DEFINE s == FailedRow(q)
<1> HIDE DEF s
<1>2. s \in Row /\ s.issued = q.issued
  BY <1>1 DEF s
<1>3. LET a == [s EXCEPT !.status = "failed", !.state = "failed"]
          b == [s EXCEPT !.status = "pending", !.state = "scheduled", !.nextRetry = t]
      IN a \in Row /\ a.issued = q.issued /\ b \in Row /\ b.issued = q.issued
  BY <1>2 DEF Row, Live
<1>4. QED
  BY <1>3 DEF s

-----------------------------------------------------------------------------
(* Moving from one claim to the next                                        *)

\* What is left alone when only worker w moves.
OnlyMoves(w) ==
  \A v \in Workers \ {w} :
    /\ step'[v] = step[v]
    /\ now'[v] = now[v]
    /\ job'[v] = job[v]
    /\ batch'[v] = batch[v]

\* The variables of the workers keep their types.
WorkersType ==
  /\ step \in [Workers -> Steps]
  /\ now \in [Workers -> Nat]
  /\ job \in [Workers -> Claim \union {NoClaim}]
  /\ \A w \in Workers : step[w] \notin {"idle", "claim"} => job[w] \in Claim
  /\ batch \in [Workers -> SUBSET Claim]
  /\ failure \in [Workers -> Failure]

LEMMA NoFailureType == NoFailure \in Failure
  BY DEF NoFailure, Failure

LEMMA TakeNextMoves ==
  ASSUME WorkersType, clock \in Nat, NEW w \in Workers,
         NEW S \in SUBSET Claim, TakeNext(w, S)
  PROVE  /\ WorkersType'
         /\ OnlyMoves(w)
         /\ Held(w)' \subseteq S
         /\ step'[w] \in {"idle", "renew"}
         /\ now'[w] = clock
<1>1. failure' \in [Workers -> Failure]
  BY NoFailureType DEF TakeNext, WorkersType
<1>2. CASE /\ job' = [job EXCEPT ![w] = NoClaim]
           /\ batch' = [batch EXCEPT ![w] = {}]
           /\ Enter(w, "idle")
  BY <1>1, <1>2 DEF WorkersType, OnlyMoves, Held, Enter, Steps
<1>3. ASSUME NEW c \in S,
             job' = [job EXCEPT ![w] = c],
             batch' = [batch EXCEPT ![w] = S \ {c}],
             Enter(w, "renew")
      PROVE  /\ WorkersType'
             /\ OnlyMoves(w)
             /\ Held(w)' \subseteq S
             /\ step'[w] \in {"idle", "renew"}
             /\ now'[w] = clock
  BY <1>1, <1>3 DEF WorkersType, OnlyMoves, Held, Enter, Steps
<1>4. QED
  BY <1>2, <1>3 DEF TakeNext

LEMMA ContinueMoves ==
  ASSUME WorkersType, clock \in Nat, NEW w \in Workers, NEW s \in Steps,
         Continue(w, s), s \in {"idle", "claim"} \/ step[w] \notin {"idle", "claim"}
  PROVE  /\ WorkersType'
         /\ OnlyMoves(w)
         /\ Held(w)' \subseteq Held(w)
         /\ step' = [step EXCEPT ![w] = s]
         /\ now'[w] = clock
         /\ job' = job
  BY DEF WorkersType, OnlyMoves, Held, Enter, Continue

LEMMA FailsMoves ==
  ASSUME WorkersType, clock \in Nat, NEW w \in Workers, NEW f \in Failure,
         Fails(w, f), step[w] \notin {"idle", "claim"}
  PROVE  /\ WorkersType'
         /\ OnlyMoves(w)
         /\ Held(w)' \subseteq Held(w)
         /\ step'[w] = "fail"
         /\ now'[w] = clock
  BY DEF WorkersType, OnlyMoves, Held, Enter, Fails, Steps

LEMMA DropBatchMoves ==
  ASSUME WorkersType, clock \in Nat, NEW w \in Workers, DropBatch(w)
  PROVE  /\ WorkersType'
         /\ OnlyMoves(w)
         /\ Held(w)' \subseteq {}
         /\ step'[w] = "idle"
         /\ now'[w] = clock
  BY NoFailureType DEF WorkersType, OnlyMoves, Held, Enter, DropBatch, Steps

-----------------------------------------------------------------------------
(* What one worker's step leaves true of the others                         *)

LEMMA TypeParts == TypeOK => WorkersType /\ clock \in Nat /\ row \in [Reminders -> Row]
  BY DEF TypeOK, WorkersType

LEMMA HeldType ==
  ASSUME WorkersType, NEW w \in Workers
  PROVE  Held(w) \subseteq Claim
  BY DEF WorkersType, Held

LEMMA HeldKept ==
  ASSUME NEW w \in Workers, OnlyMoves(w), NEW v \in Workers, v # w
  PROVE  Held(v)' = Held(v)
  BY DEF OnlyMoves, Held

LEMMA OnTimeKept ==
  ASSUME SendInv, NEW w \in Workers, OnlyMoves(w), clock' = clock, now'[w] = clock,
         step'[w] \in Steps
  PROVE  OnTime'
<1>1. clock \in Nat
  BY DEF SendInv, TypeOK
<1>2. now'[w] <= clock' /\ clock' <= now'[w] + Patience(step'[w])
  BY <1>1, PatienceType
<1>3. ASSUME NEW v \in Workers, v # w
      PROVE  now'[v] <= clock' /\ clock' <= now'[v] + Patience(step'[v])
  <2>1. now[v] <= clock /\ clock <= now[v] + Patience(step[v])
    BY DEF SendInv, OnTime
  <2>2. now'[v] = now[v] /\ step'[v] = step[v]
    BY <1>3 DEF OnlyMoves
  <2>3. QED
    BY <2>1, <2>2
<1>4. QED
  BY <1>2, <1>3 DEF OnTime

LEMMA TokensKept ==
  ASSUME SendInv, NEW w \in Workers, OnlyMoves(w), WorkersType',
         Held(w)' \subseteq Held(w),
         \A r \in Reminders : row'[r].issued = row[r].issued
  PROVE  TokensIssued' /\ TokensUnshared'
<1>1. \A v \in Workers : Held(v)' \subseteq Held(v)
  BY HeldKept
<1>2. \A v \in Workers : Held(v) \subseteq Claim
  BY TypeParts, HeldType DEF SendInv
<1>3. TokensIssued'
  BY <1>1, <1>2 DEF SendInv, TokensIssued, Claim
<1>4. TokensUnshared'
  BY <1>1 DEF SendInv, TokensUnshared
<1>5. QED
  BY <1>3, <1>4

\* A worker that passes the fence is the only one on its way to Telegram for
\* that reminder, so its write takes no other worker's lease away.
LEMMA FenceExcludes ==
  ASSUME SendInv, NEW w \in Workers, step[w] \notin {"idle", "claim"}, OwnsLease(w),
         NEW v \in Workers, v # w, step[v] \in Sending
  PROVE  job[v].id # job[w].id
<1> SUFFICES ASSUME job[v].id = job[w].id PROVE FALSE
  OBVIOUS
<1>1. LeaseCovers(v)
  BY DEF SendInv
<1>2. row[job[v].id].state # "cancelled"
  BY DEF OwnsLease, Live
<1>3. job[v].token = job[w].token
  BY <1>1, <1>2 DEF LeaseCovers, OwnsLease
<1>4. job[v] \in Held(v) /\ job[w] \in Held(w)
  BY DEF Held, Sending
<1>5. QED
  BY <1>3, <1>4 DEF SendInv, TokensUnshared

LEMMA OwnedWrite ==
  ASSUME SendInv, NEW w \in Workers, step[w] \notin {"idle", "claim"}, OwnsLease(w),
         NEW q \in Row, q.issued = row[job[w].id].issued, Write(w, q), OnlyMoves(w)
  PROVE  /\ row' \in [Reminders -> Row]
         /\ \A r \in Reminders : row'[r].issued = row[r].issued
         /\ \A v \in Workers \ {w} : step'[v] \in Sending => LeaseCovers(v)'
<1>1. row \in [Reminders -> Row] /\ \A v \in Workers : step[v] \in Sending => job[v].id \in Reminders
  BY DEF SendInv, TypeOK, Sending, Claim
<1>2. /\ row' \in [Reminders -> Row]
      /\ \A r \in Reminders : row'[r].issued = row[r].issued
  BY <1>1 DEF Write
<1>3. ASSUME NEW v \in Workers \ {w}, step'[v] \in Sending
      PROVE  LeaseCovers(v)'
  <2>1. step[v] \in Sending /\ step'[v] = step[v] /\ now'[v] = now[v] /\ job'[v] = job[v]
    BY <1>3 DEF OnlyMoves
  <2>2. job[v].id # job[w].id
    BY <2>1, FenceExcludes
  <2>3. row'[job[v].id] = row[job[v].id]
    BY <1>1, <2>1, <2>2 DEF Write
  <2>4. LeaseCovers(v)
    BY <2>1 DEF SendInv
  <2>5. QED
    BY <2>1, <2>3, <2>4 DEF LeaseCovers
<1>4. QED
  BY <1>2, <1>3

LEMMA RowsKept ==
  ASSUME SendInv, NEW w \in Workers, OnlyMoves(w), row' = row
  PROVE  /\ row' \in [Reminders -> Row]
         /\ \A r \in Reminders : row'[r].issued = row[r].issued
         /\ \A v \in Workers \ {w} : step'[v] \in Sending => LeaseCovers(v)'
<1>1. row' \in [Reminders -> Row]
  BY DEF SendInv, TypeOK
<1>2. ASSUME NEW v \in Workers \ {w}, step'[v] \in Sending
      PROVE  LeaseCovers(v)'
  <2>1. step[v] \in Sending /\ step'[v] = step[v] /\ now'[v] = now[v] /\ job'[v] = job[v]
    BY <1>2 DEF OnlyMoves
  <2>2. LeaseCovers(v)
    BY <2>1 DEF SendInv
  <2>3. QED
    BY <2>1, <2>2 DEF LeaseCovers
<1>3. QED
  BY <1>1, <1>2

\* A step of worker w that ends off the way to Telegram keeps the invariant.
LEMMA AwayFromTelegram ==
  ASSUME SendInv, NEW w \in Workers, OnlyMoves(w), clock' = clock, now'[w] = clock,
         WorkersType', Held(w)' \subseteq Held(w), step'[w] \notin Sending,
         row' \in [Reminders -> Row],
         \A r \in Reminders : row'[r].issued = row[r].issued,
         \A v \in Workers \ {w} : step'[v] \in Sending => LeaseCovers(v)',
         inbox' \subseteq Message, lost' \subseteq Message, faults' \in Nat
  PROVE  SendInv'
<1>1. TypeOK'
  BY DEF TypeOK, WorkersType, SendInv
<1>2. OnTime'
  BY OnTimeKept DEF WorkersType
<1>3. TokensIssued' /\ TokensUnshared'
  BY TokensKept
<1>4. SendExclusion'
  BY DEF SendInv, SendExclusion, OnlyMoves
<1>5. QED
  BY <1>1, <1>2, <1>3, <1>4 DEF SendInv

-----------------------------------------------------------------------------
(* One lemma per group of actions                                           *)

LEMMA JobMessageType ==
  ASSUME TypeOK, NEW w \in Workers, step[w] \notin {"idle", "claim"}
  PROVE  JobMessage(w) \in Message /\ job[w].id \in Reminders /\ job[w] \in Held(w)
  BY DEF TypeOK, JobMessage, Message, Claim, Held

LEMMA TickStep ==
  ASSUME SendInv, Tick
  PROVE  SendInv'
<1>1. clock' = clock + 1 /\ clock \in Nat /\ now \in [Workers -> Nat] /\ step \in [Workers -> Steps]
  BY DEF Tick, SendInv, TypeOK
<1>2. /\ step' = step /\ now' = now /\ job' = job /\ batch' = batch /\ failure' = failure
      /\ row' = row /\ inbox' = inbox /\ lost' = lost /\ faults' = faults
  BY DEF Tick, worker
<1>3. TypeOK'
  BY <1>1, <1>2 DEF SendInv, TypeOK
<1>4. OnTime'
  <2>1. ASSUME NEW w \in Workers
        PROVE  now[w] <= clock + 1 /\ clock + 1 <= now[w] + Patience(step[w])
    <3>1. now[w] \in Nat /\ Patience(step[w]) \in Nat
      BY <1>1, PatienceType
    <3>2. clock < now[w] + Patience(step[w]) /\ now[w] <= clock
      BY DEF Tick, SendInv, OnTime
    <3>3. QED
      BY <1>1, <3>1, <3>2
  <2>2. QED
    BY <1>1, <1>2, <2>1 DEF OnTime
<1>5. TokensIssued' /\ TokensUnshared'
  BY <1>2 DEF SendInv, TokensIssued, TokensUnshared, Held
<1>6. SendExclusion' /\ \A w \in Workers : step'[w] \in Sending => LeaseCovers(w)'
  BY <1>2 DEF SendInv, SendExclusion, LeaseCovers
<1>7. QED
  BY <1>3, <1>4, <1>5, <1>6 DEF SendInv

LEMMA CancelStep ==
  ASSUME SendInv, NEW r \in Reminders, CancelReminder(r)
  PROVE  SendInv'
<1>1. row \in [Reminders -> Row] /\ clock \in Nat
  BY DEF SendInv, TypeOK
<1>2. /\ step' = step /\ now' = now /\ job' = job /\ batch' = batch /\ failure' = failure
      /\ clock' = clock /\ inbox' = inbox /\ lost' = lost /\ faults' = faults
  BY DEF CancelReminder, worker
<1>3. PICK q \in Row : /\ row' = [row EXCEPT ![r] = q]
                       /\ q.state = "cancelled"
                       /\ q.issued = row[r].issued
  BY <1>1, CancelledType DEF CancelReminder
<1>4. row' \in [Reminders -> Row] /\ \A s \in Reminders : row'[s].issued = row[s].issued
  BY <1>1, <1>3
<1>5. TypeOK'
  BY <1>2, <1>4 DEF SendInv, TypeOK
<1>6. OnTime' /\ SendExclusion' /\ TokensUnshared'
  BY <1>2 DEF SendInv, OnTime, SendExclusion, TokensUnshared, Held
<1>7. TokensIssued'
  <2>1. \A w \in Workers : Held(w)' = Held(w) /\ Held(w) \subseteq Claim
    BY <1>2, TypeParts, HeldType DEF SendInv, Held
  <2>2. QED
    BY <1>4, <2>1 DEF SendInv, TokensIssued, Claim
<1>8. ASSUME NEW w \in Workers, step'[w] \in Sending
      PROVE  LeaseCovers(w)'
  <2>1. LeaseCovers(w) /\ job[w].id \in Reminders
    BY <1>2, <1>8 DEF SendInv, TypeOK, Sending, Claim
  <2>2. CASE job[w].id = r
    BY <1>1, <1>2, <1>3, <2>1, <2>2 DEF LeaseCovers
  <2>3. CASE job[w].id # r
    BY <1>1, <1>2, <1>3, <2>1, <2>3 DEF LeaseCovers
  <2>4. QED
    BY <2>2, <2>3
<1>9. QED
  BY <1>5, <1>6, <1>7, <1>8 DEF SendInv

LEMMA UnrecordedStep ==
  ASSUME SendInv, NEW w \in Workers,
         \/ Poll(w) \/ ContextFails(w) \/ StopRequested(w)
         \/ TelegramAccepts(w) \/ TelegramRefuses(w) \/ AnswerLost(w)
         \/ DatabaseError(w) \/ Crash(w)
  PROVE  SendInv'
<1> USE TypeParts DEF SendInv
<1>1. WorkersType /\ clock \in Nat /\ Held(w) \subseteq Claim
  BY HeldType
<1>2. inbox \subseteq Message /\ lost \subseteq Message /\ faults \in Nat
  BY DEF TypeOK
<1>3. CASE Poll(w)
  <2>1. Continue(w, "claim") /\ clock' = clock /\ row' = row
        /\ inbox' = inbox /\ lost' = lost /\ faults' = faults
    BY <1>3 DEF Poll
  <2>2. /\ WorkersType' /\ OnlyMoves(w) /\ Held(w)' \subseteq Held(w)
        /\ step' = [step EXCEPT ![w] = "claim"] /\ now'[w] = clock
    BY <1>1, <2>1, ContinueMoves DEF Steps
  <2>3. step'[w] \notin Sending
    BY <1>1, <2>2 DEF WorkersType, Sending
  <2>4. QED
    BY <1>2, <2>1, <2>2, <2>3, RowsKept, AwayFromTelegram
<1>4. CASE ContextFails(w)
  <2>1. Fails(w, NoFailure) /\ step[w] = "compose" /\ clock' = clock /\ row' = row
        /\ inbox' = inbox /\ lost' = lost /\ faults' = faults
    BY <1>4 DEF ContextFails
  <2>2. /\ WorkersType' /\ OnlyMoves(w) /\ Held(w)' \subseteq Held(w)
        /\ step'[w] = "fail" /\ now'[w] = clock
    BY <1>1, <2>1, FailsMoves, NoFailureType
  <2>3. QED
    BY <1>2, <2>1, <2>2, RowsKept, AwayFromTelegram DEF Sending
<1>5. CASE StopRequested(w)
  <2>1. DropBatch(w) /\ clock' = clock /\ row' = row
        /\ inbox' = inbox /\ lost' = lost /\ faults' = faults
    BY <1>5 DEF StopRequested
  <2>2. /\ WorkersType' /\ OnlyMoves(w) /\ Held(w)' \subseteq Held(w)
        /\ step'[w] = "idle" /\ now'[w] = clock
    BY <1>1, <2>1, DropBatchMoves
  <2>3. QED
    BY <1>2, <2>1, <2>2, RowsKept, AwayFromTelegram DEF Sending
<1>6. CASE TelegramAccepts(w)
  <2>1. Continue(w, "record") /\ step[w] = "send" /\ clock' = clock /\ row' = row
        /\ inbox' = inbox \union {JobMessage(w)} /\ lost' = lost /\ faults' = faults
    BY <1>6 DEF TelegramAccepts
  <2>2. /\ WorkersType' /\ OnlyMoves(w) /\ Held(w)' \subseteq Held(w)
        /\ step' = [step EXCEPT ![w] = "record"] /\ now'[w] = clock
    BY <1>1, <2>1, ContinueMoves DEF Steps
  <2>3. step'[w] \notin Sending
    BY <1>1, <2>2 DEF WorkersType, Sending
  <2>4. inbox' \subseteq Message
    BY <1>2, <2>1, JobMessageType
  <2>5. QED
    BY <1>2, <2>1, <2>2, <2>3, <2>4, RowsKept, AwayFromTelegram
<1>7. CASE TelegramRefuses(w)
  <2>1. PICK f \in Failure : Fails(w, f)
    BY <1>7 DEF TelegramRefuses
  <2>2. step[w] = "send" /\ clock' = clock /\ row' = row
        /\ inbox' = inbox /\ lost' = lost /\ faults' = faults
    BY <1>7 DEF TelegramRefuses
  <2>3. /\ WorkersType' /\ OnlyMoves(w) /\ Held(w)' \subseteq Held(w)
        /\ step'[w] = "fail" /\ now'[w] = clock
    BY <1>1, <2>1, <2>2, FailsMoves
  <2>4. QED
    BY <1>2, <2>2, <2>3, RowsKept, AwayFromTelegram DEF Sending
<1>8. CASE AnswerLost(w)
  <2>1. Fails(w, NoFailure) /\ step[w] = "send" /\ clock' = clock /\ row' = row
        /\ inbox' = inbox \union {JobMessage(w)} /\ lost' = lost \union {JobMessage(w)}
        /\ faults' = faults
    BY <1>8 DEF AnswerLost
  <2>2. /\ WorkersType' /\ OnlyMoves(w) /\ Held(w)' \subseteq Held(w)
        /\ step'[w] = "fail" /\ now'[w] = clock
    BY <1>1, <2>1, FailsMoves, NoFailureType
  <2>3. inbox' \subseteq Message /\ lost' \subseteq Message
    BY <1>2, <2>1, JobMessageType
  <2>4. QED
    BY <1>2, <2>1, <2>2, <2>3, RowsKept, AwayFromTelegram DEF Sending
<1>9. CASE DatabaseError(w)
  <2>1. clock' = clock /\ row' = row /\ inbox' = inbox /\ faults' = faults + 1
    BY <1>9 DEF DatabaseError
  <2>2. lost' \subseteq Message
    BY <1>2, <1>9, JobMessageType DEF DatabaseError
  <2>3. DropBatch(w) \/ (TakeNext(w, batch[w]) /\ batch[w] \in SUBSET Claim)
    BY <1>1, <1>9 DEF DatabaseError, WorkersType
  <2>4. /\ WorkersType' /\ OnlyMoves(w) /\ Held(w)' \subseteq Held(w)
        /\ step'[w] \in {"idle", "renew"} /\ now'[w] = clock
    BY <1>1, <2>3, DropBatchMoves, TakeNextMoves DEF Held
  <2>5. QED
    BY <1>2, <2>1, <2>2, <2>4, RowsKept, AwayFromTelegram DEF Sending
<1>10. CASE Crash(w)
  <2>1. DropBatch(w) /\ clock' = clock /\ row' = row /\ faults' = faults + 1
    BY <1>10 DEF Crash
  <2>2. inbox' \subseteq Message /\ lost' \subseteq Message
    BY <1>2, <1>10, JobMessageType DEF Crash
  <2>3. /\ WorkersType' /\ OnlyMoves(w) /\ Held(w)' \subseteq Held(w)
        /\ step'[w] = "idle" /\ now'[w] = clock
    BY <1>1, <2>1, DropBatchMoves
  <2>4. QED
    BY <1>2, <2>1, <2>2, <2>3, RowsKept, AwayFromTelegram DEF Sending
<1>11. QED
  BY <1>3, <1>4, <1>5, <1>6, <1>7, <1>8, <1>9, <1>10

\* A row whose lease covers a worker on its way to Telegram is not claimable.
LEMMA CoveredNotClaimable ==
  ASSUME SendInv, NEW v \in Workers, step[v] \in Sending, NEW w \in Workers
  PROVE  ~Claimable(row[job[v].id], now[w])
<1>1. /\ job[v].id \in Reminders /\ row[job[v].id] \in Row
      /\ now[v] \in Nat /\ now[w] \in Nat /\ clock \in Nat
  BY DEF SendInv, TypeOK, Sending, Claim
<1>2. LeaseCovers(v)
  BY DEF SendInv
<1>3. CASE row[job[v].id].state = "cancelled"
  BY <1>3 DEF Claimable, Live
<1>4. CASE row[job[v].id].state # "cancelled"
  <2>1. /\ row[job[v].id].status = "processing"
        /\ row[job[v].id].lease > now[v] + TimeLeft(step[v])
    BY <1>2, <1>4 DEF LeaseCovers
  <2>2. now[w] <= clock /\ clock <= now[v] + Patience(step[v])
    BY DEF SendInv, OnTime
  <2>3. StepBound \in Nat /\ SendTimeout \in Nat
    BY LeaseAssumption
  <2>4. /\ Patience(step[v]) \in Nat /\ TimeLeft(step[v]) \in Nat
        /\ Patience(step[v]) <= TimeLeft(step[v])
    BY <2>3 DEF Patience, TimeLeft, Sending
  <2>5. row[job[v].id].lease \in Nat
    BY <1>1 DEF Row
  <2>6. ~(row[job[v].id].lease <= now[w])
    BY <1>1, <2>1, <2>2, <2>4, <2>5
  <2>7. QED
    BY <2>1, <2>6 DEF Claimable
<1>5. QED
  BY <1>3, <1>4

LEMMA ClaimStep ==
  ASSUME SendInv, NEW w \in Workers, ClaimDueReminders(w)
  PROVE  SendInv'
<1>1. /\ TypeOK /\ WorkersType /\ clock \in Nat /\ row \in [Reminders -> Row]
      /\ now[w] \in Nat /\ clock' = clock
      /\ inbox' = inbox /\ lost' = lost /\ faults' = faults
  BY TypeParts DEF SendInv, WorkersType, ClaimDueReminders
<1>2. PICK taken, spent \in SUBSET { r \in Reminders : Claimable(row[r], now[w]) } :
        /\ row' = [r \in Reminders |->
                     CASE r \in spent -> Exhausted(row[r])
                       [] r \in taken -> Claimed(row[r], now[w])
                       [] OTHER       -> row[r]]
        /\ TakeNext(w, { [id |-> r, token |-> row[r].issued + 1,
                          occ |-> row[r].remindAt, due |-> row[r].deliverAt] :
                         r \in taken })
        /\ taken \intersect spent = {}
  <2> DEFINE due == { r \in Reminders : Claimable(row[r], now[w]) }
             Key(r) == [id |-> r, due |-> row[r].deliverAt]
             chosen == { r \in due :
               Cardinality({ q \in due : Precedes(Key(q), Key(r)) }) < BatchSize }
             sp == { r \in chosen : row[r].attempts >= MaxAttempts }
             tk == chosen \ sp
  <2>1. /\ row' = [r \in Reminders |->
                     CASE r \in sp -> Exhausted(row[r])
                       [] r \in tk -> Claimed(row[r], now[w])
                       [] OTHER    -> row[r]]
        /\ TakeNext(w, { [id |-> r, token |-> row[r].issued + 1,
                          occ |-> row[r].remindAt, due |-> row[r].deliverAt] :
                         r \in tk })
    BY DEF ClaimDueReminders
  <2>2. tk \in SUBSET due /\ sp \in SUBSET due /\ tk \intersect sp = {}
    OBVIOUS
  <2> HIDE DEF tk, sp
  <2>3. QED
    BY <2>1, <2>2
<1> DEFINE claims == { [id |-> r, token |-> row[r].issued + 1,
                        occ |-> row[r].remindAt, due |-> row[r].deliverAt] : r \in taken }
<1>3. \A r \in Reminders :
        /\ r \in spent => row'[r] = Exhausted(row[r])
        /\ r \in taken => row'[r] = Claimed(row[r], now[w])
        /\ r \notin spent /\ r \notin taken => row'[r] = row[r]
  BY <1>2
<1>4. \A r \in Reminders :
        /\ row'[r] \in Row
        /\ row'[r].issued = IF r \in taken THEN row[r].issued + 1 ELSE row[r].issued
  <2>1. SUFFICES ASSUME NEW r \in Reminders
                 PROVE  /\ row'[r] \in Row
                        /\ row'[r].issued = IF r \in taken THEN row[r].issued + 1
                                                          ELSE row[r].issued
    OBVIOUS
  <2>2. row[r] \in Row
    BY <1>1
  <2>3. /\ Exhausted(row[r]) \in Row /\ Exhausted(row[r]).issued = row[r].issued
        /\ Claimed(row[r], now[w]) \in Row
        /\ Claimed(row[r], now[w]).issued = row[r].issued + 1
    BY <1>1, <2>2, ExhaustedType, ClaimedType
  <2>4. QED
    BY <1>2, <1>3, <2>2, <2>3
<1>5. row' \in [Reminders -> Row]
  BY <1>2, <1>4
<1>6. claims \in SUBSET Claim
  <2>1. ASSUME NEW r \in taken
        PROVE  [id |-> r, token |-> row[r].issued + 1,
                occ |-> row[r].remindAt, due |-> row[r].deliverAt] \in Claim
    <3>1. r \in Reminders /\ row[r] \in Row
      BY <1>1, <1>2
    <3>2. row[r].issued + 1 \in Nat /\ row[r].remindAt \in Nat /\ row[r].deliverAt \in Nat
      BY <3>1 DEF Row
    <3>3. QED
      BY <3>1, <3>2 DEF Claim
  <2>2. QED
    BY <2>1
<1>7. /\ WorkersType' /\ OnlyMoves(w) /\ Held(w)' \subseteq claims
      /\ step'[w] \in {"idle", "renew"} /\ now'[w] = clock
  <2> HIDE DEF claims
  <2>1. TakeNext(w, claims)
    BY <1>2 DEF claims
  <2>2. QED
    BY <1>1, <1>6, <2>1, TakeNextMoves
<1>8. TypeOK'
  BY <1>1, <1>5, <1>7 DEF TypeOK, WorkersType
<1>9. OnTime'
  BY <1>1, <1>7, OnTimeKept DEF WorkersType
<1>10. \A c \in Held(w)' : c.id \in Reminders /\ c.token = row[c.id].issued + 1
                          /\ c.token = row'[c.id].issued
  BY <1>2, <1>4, <1>7
<1>11. \A v \in Workers \ {w} : Held(v)' = Held(v) /\ Held(v) \subseteq Claim
  BY <1>1, <1>7, HeldKept, HeldType
<1>12. \A v \in Workers \ {w} : \A c \in Held(v)' :
         c.id \in Reminders /\ c.token \in Nat /\ c.token <= row[c.id].issued
  BY <1>11 DEF SendInv, TokensIssued, Claim
<1>13. \A r \in Reminders : row[r].issued \in Nat /\ row[r].issued <= row'[r].issued
  BY <1>1, <1>4 DEF Row
<1>14. TokensIssued'
  <2>1. ASSUME NEW v \in Workers, NEW c \in Held(v)'
        PROVE  c.token <= row'[c.id].issued
    <3>1. CASE v = w
      <4>1. row'[c.id].issued \in Nat /\ c.token = row'[c.id].issued
        BY <1>4, <1>10, <3>1 DEF Row
      <4>2. QED
        BY <4>1
    <3>2. CASE v # w
      <4>1. c.id \in Reminders /\ c.token \in Nat /\ c.token <= row[c.id].issued
        BY <1>12, <3>2
      <4>2. row[c.id].issued <= row'[c.id].issued /\ row[c.id].issued \in Nat
            /\ row'[c.id].issued \in Nat
        BY <4>1, <1>4, <1>13 DEF Row
      <4>3. QED
        BY <4>1, <4>2
    <3>3. QED
      BY <3>1, <3>2
  <2>2. QED
    BY <2>1 DEF TokensIssued
<1>15. TokensUnshared'
  <2>1. ASSUME NEW v \in Workers \ {w}, NEW c \in Held(v)', NEW d \in Held(w)'
        PROVE  ~(c.id = d.id /\ c.token = d.token)
    <3>1. d.id \in Reminders /\ d.token = row[d.id].issued + 1
      BY <1>10
    <3>2. c.token \in Nat /\ c.token <= row[c.id].issued
      BY <1>12
    <3>3. row[d.id].issued \in Nat
      BY <1>13, <3>1
    <3>4. QED
      BY <3>1, <3>2, <3>3
  <2>2. ASSUME NEW u \in Workers \ {w}, NEW v \in Workers \ {w}, u # v,
               NEW c \in Held(u)', NEW d \in Held(v)'
        PROVE  ~(c.id = d.id /\ c.token = d.token)
    BY <1>11, <2>2 DEF SendInv, TokensUnshared
  <2>3. QED
    BY <2>1, <2>2 DEF TokensUnshared
<1>16. ASSUME NEW v \in Workers, step'[v] \in Sending
       PROVE  LeaseCovers(v)'
  <2>1. v # w
    BY <1>7, <1>16 DEF Sending
  <2>2. step[v] \in Sending /\ step'[v] = step[v] /\ now'[v] = now[v] /\ job'[v] = job[v]
    BY <1>7, <1>16, <2>1 DEF OnlyMoves
  <2>3. ~Claimable(row[job[v].id], now[w]) /\ job[v].id \in Reminders
    BY <2>2, CoveredNotClaimable DEF SendInv, TypeOK, Sending, Claim
  <2>4. row'[job[v].id] = row[job[v].id]
    BY <1>2, <1>3, <2>3
  <2>5. LeaseCovers(v)
    BY <2>2 DEF SendInv
  <2>6. QED
    BY <2>2, <2>4, <2>5 DEF LeaseCovers
<1>17. SendExclusion'
  BY <1>7 DEF SendInv, SendExclusion, OnlyMoves, Sending
<1>18. QED
  BY <1>8, <1>9, <1>14, <1>15, <1>16, <1>17 DEF SendInv

\* A step of worker w that ends on the way to Telegram keeps the invariant if
\* its lease covers the rest of the way and no other worker is on it.
LEMMA TowardsTelegram ==
  ASSUME SendInv, NEW w \in Workers, OnlyMoves(w), clock' = clock, now'[w] = clock,
         WorkersType', Held(w)' \subseteq Held(w),
         job'[w] = job[w],
         LeaseCovers(w)',
         \A v \in Workers \ {w} : step[v] \in Sending => job[v].id # job[w].id,
         row' \in [Reminders -> Row],
         \A r \in Reminders : row'[r].issued = row[r].issued,
         \A v \in Workers \ {w} : step'[v] \in Sending => LeaseCovers(v)',
         inbox' = inbox, lost' = lost, faults' = faults
  PROVE  SendInv'
<1>1. TypeOK'
  BY DEF TypeOK, WorkersType, SendInv
<1>2. OnTime'
  BY OnTimeKept DEF WorkersType
<1>3. TokensIssued' /\ TokensUnshared'
  BY TokensKept
<1>4. SendExclusion'
  <2>1. ASSUME NEW u \in Workers, NEW v \in Workers, u # v,
               step'[u] \in Sending, step'[v] \in Sending
        PROVE  job'[u].id # job'[v].id
    <3>1. CASE u = w
      BY <2>1, <3>1 DEF OnlyMoves
    <3>2. CASE v = w
      BY <2>1, <3>2 DEF OnlyMoves
    <3>3. CASE u # w /\ v # w
      BY <2>1, <3>3 DEF OnlyMoves, SendInv, SendExclusion
    <3>4. QED
      BY <3>1, <3>2, <3>3
  <2>2. QED
    BY <2>1 DEF SendExclusion
<1>5. QED
  BY <1>1, <1>2, <1>3, <1>4 DEF SendInv

\* What a fenced transaction of worker w finds in its row.
LEMMA OwnedRow ==
  ASSUME SendInv, NEW w \in Workers, step[w] \notin {"idle", "claim"}
  PROVE  /\ row[job[w].id] \in Row /\ job[w].id \in Reminders
         /\ batch[w] \in SUBSET Claim /\ batch[w] \subseteq Held(w)
         /\ now[w] \in Nat /\ clock \in Nat
         /\ now[w] <= clock /\ clock <= now[w] + Patience(step[w])
  BY DEF SendInv, TypeOK, OnTime, Claim, Held

\* A refused transaction leaves the row alone and goes to the next claim.
LEMMA RefusedStep ==
  ASSUME SendInv, NEW w \in Workers, step[w] \notin {"idle", "claim"},
         TakeNext(w, batch[w]), row' = row, clock' = clock,
         inbox' = inbox, lost' = lost, faults' = faults
  PROVE  SendInv'
<1>1. /\ WorkersType' /\ OnlyMoves(w) /\ Held(w)' \subseteq Held(w)
      /\ step'[w] \in {"idle", "renew"} /\ now'[w] = clock
  BY TypeParts, OwnedRow, TakeNextMoves DEF SendInv
<1>2. inbox' \subseteq Message /\ lost' \subseteq Message /\ faults' \in Nat
  BY DEF SendInv, TypeOK
<1>3. QED
  BY <1>1, <1>2, RowsKept, AwayFromTelegram DEF Sending

LEMMA RenewStep ==
  ASSUME SendInv, NEW w \in Workers, RenewClaimBeforeSend(w)
  PROVE  SendInv'
<1>1. /\ step[w] = "renew" /\ clock' = clock
      /\ inbox' = inbox /\ lost' = lost /\ faults' = faults
  BY DEF RenewClaimBeforeSend
<1>2. CASE ~OwnsLease(w) /\ TakeNext(w, batch[w]) /\ row' = row
  BY <1>1, <1>2, RefusedStep
<1>3. CASE /\ OwnsLease(w)
           /\ Write(w, [row[job[w].id] EXCEPT !.lease = now[w] + LeaseDuration])
           /\ Continue(w, "prepare")
  <2> DEFINE lease == now[w] + LeaseDuration
             q == [row[job[w].id] EXCEPT !.lease = lease]
  <2>1. /\ LeaseDuration \in Nat /\ StepBound \in Nat /\ SendTimeout \in Nat
        /\ LeaseDuration > SendTimeout + 5 * StepBound
    BY LeaseAssumption, MarginAssumption
  <2>2. lease \in Nat
    BY <1>1, <2>1, OwnedRow
  <2>3. /\ q \in Row /\ q.issued = row[job[w].id].issued
        /\ q.status = row[job[w].id].status /\ q.state = row[job[w].id].state
        /\ q.token = row[job[w].id].token /\ q.lease = lease
    <3> HIDE DEF lease
    <3>1. row[job[w].id] \in Row
      BY <1>1, OwnedRow
    <3>2. QED
      BY <2>2, <3>1 DEF Row
  <2>4. /\ WorkersType' /\ OnlyMoves(w) /\ Held(w)' \subseteq Held(w)
        /\ step' = [step EXCEPT ![w] = "prepare"] /\ now'[w] = clock /\ job' = job
    BY <1>1, <1>3, TypeParts, ContinueMoves DEF SendInv, Steps
  <2>5. step'[w] = "prepare"
    BY <2>4 DEF SendInv, TypeOK
  <2>6. /\ row' \in [Reminders -> Row]
        /\ \A r \in Reminders : row'[r].issued = row[r].issued
        /\ \A v \in Workers \ {w} : step'[v] \in Sending => LeaseCovers(v)'
    <3> HIDE DEF q
    <3>1. Write(w, q)
      BY <1>3 DEF q
    <3>2. QED
      BY <1>1, <1>3, <2>3, <2>4, <3>1, OwnedWrite
  <2>7. lease > clock + TimeLeft("prepare")
    BY <1>1, <2>1, OwnedRow DEF Patience, TimeLeft
  <2>8. row'[job[w].id] = q
    BY <1>1, <1>3, OwnedRow DEF Write, SendInv, TypeOK
  <2>9. LeaseCovers(w)'
    BY <1>3, <2>3, <2>4, <2>5, <2>7, <2>8 DEF LeaseCovers, OwnsLease
  <2>10. \A v \in Workers \ {w} : step[v] \in Sending => job[v].id # job[w].id
    BY <1>1, <1>3, FenceExcludes
  <2>11. QED
    BY <1>1, <2>4, <2>6, <2>9, <2>10, TowardsTelegram
<1>4. QED
  BY <1>2, <1>3 DEF RenewClaimBeforeSend

LEMMA PrepareStep ==
  ASSUME SendInv, NEW w \in Workers, PrepareDeliveryOccurrence(w)
  PROVE  SendInv'
<1>1. /\ step[w] = "prepare" /\ clock' = clock
      /\ inbox' = inbox /\ lost' = lost /\ faults' = faults
  BY DEF PrepareDeliveryOccurrence
<1>2. CASE ~OwnsLease(w) /\ TakeNext(w, batch[w]) /\ row' = row
  BY <1>1, <1>2, RefusedStep
<1>3. CASE /\ OwnsLease(w)
           /\ Write(w, [row[job[w].id] EXCEPT !.occ = "processing"])
           /\ Continue(w, "compose")
  <2> DEFINE q == [row[job[w].id] EXCEPT !.occ = "processing"]
  <2>1. StepBound \in Nat /\ SendTimeout \in Nat
    BY LeaseAssumption
  <2>2. /\ q \in Row /\ q.issued = row[job[w].id].issued
        /\ q.status = row[job[w].id].status /\ q.state = row[job[w].id].state
        /\ q.token = row[job[w].id].token /\ q.lease = row[job[w].id].lease
    <3>1. row[job[w].id] \in Row
      BY <1>1, OwnedRow
    <3>2. QED
      BY <3>1 DEF Row
  <2>3. /\ WorkersType' /\ OnlyMoves(w) /\ Held(w)' \subseteq Held(w)
        /\ step' = [step EXCEPT ![w] = "compose"] /\ now'[w] = clock /\ job' = job
    BY <1>1, <1>3, TypeParts, ContinueMoves DEF SendInv, Steps
  <2>4. step'[w] = "compose"
    BY <2>3 DEF SendInv, TypeOK
  <2>5. /\ row' \in [Reminders -> Row]
        /\ \A r \in Reminders : row'[r].issued = row[r].issued
        /\ \A v \in Workers \ {w} : step'[v] \in Sending => LeaseCovers(v)'
    <3> HIDE DEF q
    <3>1. Write(w, q)
      BY <1>3 DEF q
    <3>2. QED
      BY <1>1, <1>3, <2>2, <2>3, <3>1, OwnedWrite
  <2>6. LeaseCovers(w) /\ row[job[w].id].state # "cancelled"
    BY <1>1, <1>3 DEF SendInv, Sending, OwnsLease, Live
  <2>7. row[job[w].id].lease > clock + TimeLeft("compose")
    <3>1. row[job[w].id].lease > now[w] + TimeLeft("prepare")
      BY <1>1, <2>6 DEF LeaseCovers
    <3>2. row[job[w].id].lease \in Nat
      BY <1>1, OwnedRow DEF Row
    <3>3. QED
      BY <1>1, <2>1, <3>1, <3>2, OwnedRow DEF Patience, TimeLeft
  <2>8. row'[job[w].id] = q
    BY <1>1, <1>3, OwnedRow DEF Write, SendInv, TypeOK
  <2>9. LeaseCovers(w)'
    BY <1>3, <2>2, <2>3, <2>4, <2>7, <2>8 DEF LeaseCovers, OwnsLease
  <2>10. \A v \in Workers \ {w} : step[v] \in Sending => job[v].id # job[w].id
    BY <1>1, <1>3, FenceExcludes
  <2>11. QED
    BY <1>1, <2>3, <2>5, <2>9, <2>10, TowardsTelegram
<1>4. QED
  BY <1>2, <1>3 DEF PrepareDeliveryOccurrence

LEMMA StartSendStep ==
  ASSUME SendInv, NEW w \in Workers, StartSend(w)
  PROVE  SendInv'
<1>1. /\ step[w] = "compose" /\ Continue(w, "send") /\ clock' = clock /\ row' = row
      /\ inbox' = inbox /\ lost' = lost /\ faults' = faults
  BY DEF StartSend
<1>2. /\ WorkersType' /\ OnlyMoves(w) /\ Held(w)' \subseteq Held(w)
      /\ step' = [step EXCEPT ![w] = "send"] /\ now'[w] = clock /\ job' = job
  BY <1>1, TypeParts, ContinueMoves DEF SendInv, Steps
<1>3. step'[w] = "send"
  BY <1>2 DEF SendInv, TypeOK
<1>4. LeaseCovers(w)'
  <2>1. LeaseCovers(w)
    BY <1>1 DEF SendInv, Sending
  <2>2. CASE row[job[w].id].state = "cancelled"
    BY <1>1, <1>2, <2>2 DEF LeaseCovers
  <2>3. CASE row[job[w].id].lease > now[w] + TimeLeft("compose")
    <3>1. StepBound \in Nat /\ SendTimeout \in Nat
      BY LeaseAssumption
    <3>2. row[job[w].id].lease \in Nat
      BY <1>1, OwnedRow DEF Row
    <3>3. row[job[w].id].lease > clock + TimeLeft("send")
      BY <1>1, <2>3, <3>1, <3>2, OwnedRow DEF Patience, TimeLeft
    <3>4. QED
      BY <1>1, <1>2, <1>3, <2>1, <3>3 DEF LeaseCovers
  <2>4. QED
    BY <1>1, <2>1, <2>2, <2>3 DEF LeaseCovers
<1>5. \A v \in Workers \ {w} : step[v] \in Sending => job[v].id # job[w].id
  BY <1>1 DEF SendInv, SendExclusion, Sending
<1>6. QED
  BY <1>1, <1>2, <1>4, <1>5, RowsKept, TowardsTelegram

\* A fenced transaction that writes the row and ends off the way to Telegram.
LEMMA RecordedStep ==
  ASSUME SendInv, NEW w \in Workers, step[w] \notin {"idle", "claim"}, OwnsLease(w),
         NEW q \in Row, q.issued = row[job[w].id].issued, Write(w, q),
         TakeNext(w, batch[w]) \/ (Continue(w, "finalize") /\ step[w] = "record"),
         clock' = clock, inbox' = inbox, lost' = lost, faults' = faults
  PROVE  SendInv'
<1>1. /\ WorkersType' /\ OnlyMoves(w) /\ Held(w)' \subseteq Held(w)
      /\ step'[w] \notin Sending /\ now'[w] = clock
  <2>1. CASE TakeNext(w, batch[w])
    BY <2>1, TypeParts, OwnedRow, TakeNextMoves DEF SendInv, Sending
  <2>2. CASE Continue(w, "finalize") /\ step[w] = "record"
    <3>1. /\ WorkersType' /\ OnlyMoves(w) /\ Held(w)' \subseteq Held(w)
          /\ step' = [step EXCEPT ![w] = "finalize"] /\ now'[w] = clock
      BY <2>2, TypeParts, ContinueMoves DEF SendInv, Steps
    <3>2. QED
      BY <3>1 DEF SendInv, TypeOK, Sending
  <2>3. QED
    BY <2>1, <2>2
<1>2. inbox' \subseteq Message /\ lost' \subseteq Message /\ faults' \in Nat
  BY DEF SendInv, TypeOK
<1>3. QED
  BY <1>1, <1>2, OwnedWrite, AwayFromTelegram

LEMMA SetLastMessageStep ==
  ASSUME SendInv, NEW w \in Workers, SetLastMessageId(w)
  PROVE  SendInv'
<1>1. /\ step[w] = "record" /\ clock' = clock
      /\ inbox' = inbox /\ lost' = lost /\ faults' = faults
  BY DEF SetLastMessageId
<1>2. CASE ~OwnsLease(w) /\ TakeNext(w, batch[w]) /\ row' = row
  BY <1>1, <1>2, RefusedStep
<1>3. CASE /\ OwnsLease(w)
           /\ Write(w, [row[job[w].id] EXCEPT !.occ = "delivered",
                           !.lastMsg = job[w].token, !.lastOcc = job[w].occ])
           /\ Continue(w, "finalize")
  <2> DEFINE q == [row[job[w].id] EXCEPT !.occ = "delivered",
                     !.lastMsg = job[w].token, !.lastOcc = job[w].occ]
  <2>1. row[job[w].id] \in Row /\ job[w].token \in Nat /\ job[w].occ \in Nat
    BY <1>1, OwnedRow DEF SendInv, TypeOK, Claim
  <2>2. q \in Row /\ q.issued = row[job[w].id].issued
    BY <2>1 DEF Row
  <2>3. Write(w, q)
    BY <1>3
  <2> HIDE DEF q
  <2>4. QED
    BY <1>1, <1>3, <2>2, <2>3, RecordedStep
<1>4. QED
  BY <1>2, <1>3 DEF SetLastMessageId

LEMMA FinalizeSuccessStep ==
  ASSUME SendInv, NEW w \in Workers, FinalizeDeliverySuccess(w)
  PROVE  SendInv'
<1> DEFINE q == row[job[w].id]
           next == IF job[w].id \in Repeating
                     THEN NextOccurrence(row[job[w].id].remindAt, now[w]) ELSE {}
<1>1. /\ step[w] = "finalize" /\ clock' = clock /\ TakeNext(w, batch[w])
      /\ inbox' = inbox /\ lost' = lost /\ faults' = faults
  BY DEF FinalizeDeliverySuccess
<1>2. q \in Row
  BY <1>1, OwnedRow
<1>3. CASE ~OwnsLease(w) /\ row' = row
  BY <1>1, <1>3, RefusedStep
<1>4. CASE OwnsLease(w) /\ Write(w, DeliveredRow(q))
  <2>1. DeliveredRow(q) \in Row /\ DeliveredRow(q).issued = q.issued
    BY <1>2, SucceededType
  <2>2. QED
    BY <1>1, <1>4, <2>1, RecordedStep
<1>5. ASSUME OwnsLease(w), NEW n \in next, Write(w, AdvancedRow(q, n))
      PROVE  SendInv'
  <2>1. n \in Nat
    BY <1>5, DataAssumption DEF NextOccurrence
  <2>2. AdvancedRow(q, n) \in Row /\ AdvancedRow(q, n).issued = q.issued
    BY <1>2, <2>1, SucceededType
  <2>3. QED
    BY <1>1, <1>5, <2>2, RecordedStep
<1>6. QED
  BY <1>3, <1>4, <1>5 DEF FinalizeDeliverySuccess

LEMMA FinalizeFailureStep ==
  ASSUME SendInv, NEW w \in Workers, FinalizeDeliveryFailure(w)
  PROVE  SendInv'
<1> DEFINE q == row[job[w].id]
           retryAt == now[w] + RetryDelay(q.retries + 1, failure[w].retryAfter)
           failed == [FailedRow(q) EXCEPT !.status = "failed", !.state = "failed"]
           retried == [FailedRow(q) EXCEPT !.status = "pending", !.state = "scheduled",
                                           !.nextRetry = retryAt]
<1>1. /\ step[w] = "fail" /\ clock' = clock /\ TakeNext(w, batch[w])
      /\ inbox' = inbox /\ lost' = lost /\ faults' = faults
  BY DEF FinalizeDeliveryFailure
<1>2. q \in Row /\ now[w] \in Nat
  BY <1>1, OwnedRow
<1>3. retryAt \in Nat
  <2>1. q.retries + 1 \in Nat
    BY <1>2 DEF Row
  <2>2. failure[w].retryAfter \in Nat
    <3>1. failure[w] \in Failure
      BY DEF SendInv, TypeOK
    <3>2. QED
      BY <3>1, FailureDelayType
  <2>3. RetryDelay(q.retries + 1, failure[w].retryAfter) \in Nat
    BY <2>1, <2>2, RetryDelayType
  <2>4. QED
    BY <1>2, <2>3
<1>4. /\ failed \in Row /\ failed.issued = q.issued
      /\ retried \in Row /\ retried.issued = q.issued
  <2> HIDE DEF q, retryAt
  <2>1. QED
    BY <1>2, <1>3, FailedType
<1>5. CASE ~OwnsLease(w) /\ row' = row
  BY <1>1, <1>5, RefusedStep
<1>6. CASE OwnsLease(w) /\ Write(w, failed)
  BY <1>1, <1>4, <1>6, RecordedStep
<1>7. CASE OwnsLease(w) /\ Write(w, retried)
  BY <1>1, <1>4, <1>7, RecordedStep
<1>8. QED
  BY <1>5, <1>6, <1>7 DEF FinalizeDeliveryFailure

-----------------------------------------------------------------------------
(* The theorems                                                             *)

LEMMA InitSendInv == Init => SendInv
<1> SUFFICES ASSUME Init PROVE SendInv
  OBVIOUS
<1>1. InitialRows \subseteq Row
  <2>1. \A due, later \in DueTimes : NewRow(due, later) \in Row
    BY DataAssumption DEF NewRow, Row, Live, Null
  <2>2. QED
    BY <2>1 DEF InitialRows
<1>2. TypeOK
  BY <1>1, NoFailureType DEF Init, TypeOK, Steps
<1>3. OnTime
  <2>1. \A w \in Workers : Patience(step[w]) \in Nat
    BY <1>2, PatienceType DEF TypeOK
  <2>2. QED
    BY <2>1 DEF Init, OnTime
<1>4. TokensIssued /\ TokensUnshared
  BY DEF Init, TokensIssued, TokensUnshared, Held
<1>5. SendExclusion /\ \A w \in Workers : step[w] \in Sending => LeaseCovers(w)
  BY DEF Init, SendExclusion, Sending
<1>6. QED
  BY <1>2, <1>3, <1>4, <1>5 DEF SendInv

LEMMA NextSendInv == SendInv /\ [Next]_vars => SendInv'
<1> SUFFICES ASSUME SendInv, [Next]_vars PROVE SendInv'
  OBVIOUS
<1>1. CASE Tick
  BY <1>1, TickStep
<1>2. ASSUME NEW w \in Workers, WorkerStep(w) PROVE SendInv'
  BY <1>2, ClaimStep, RenewStep, PrepareStep, StartSendStep, UnrecordedStep,
     SetLastMessageStep, FinalizeSuccessStep, FinalizeFailureStep DEF WorkerStep
<1>3. ASSUME NEW w \in Workers, StopRequested(w) \/ DatabaseError(w) \/ Crash(w)
      PROVE  SendInv'
  BY <1>3, UnrecordedStep
<1>4. ASSUME NEW r \in Reminders, CancelReminder(r) PROVE SendInv'
  BY <1>4, CancelStep
<1>5. CASE UNCHANGED vars
  BY <1>5 DEF vars, worker, SendInv, TypeOK, OnTime, TokensIssued, TokensUnshared,
              LeaseCovers, SendExclusion, Held
<1>6. QED
  BY <1>1, <1>2, <1>3, <1>4, <1>5 DEF Next

\* The invariant the two theorems follow from.
LEMMA SendInvariant == Spec => []SendInv
<1>1. QED
  BY InitSendInv, NextSendInv, PTL DEF Spec

\* Every variable of the worker protocol keeps its type.
THEOREM TypeCorrect == Spec => []TypeOK
<1>1. SendInv => TypeOK
  BY DEF SendInv
<1>2. QED
  BY <1>1, SendInvariant, PTL

\* No two workers are ever on their way to Telegram for the same reminder, for
\* any number of workers and any lease the settings accept.
THEOREM SendsExclude == Spec => []SendExclusion
<1>1. SendInv => SendExclusion
  BY DEF SendInv
<1>2. QED
  BY <1>1, SendInvariant, PTL

-----------------------------------------------------------------------------
(* Layer 1: a row from the renewal of its lease to the end of its delivery  *)

\* The steps after a successful renewal.
Engaged == {"prepare", "compose", "send", "record", "finalize", "fail"}

\* The longest time from step s to the end of the delivery.
TimeNeeded(s) ==
  CASE s = "prepare" -> 4 * StepBound + SendTimeout
    [] s = "compose" -> 3 * StepBound + SendTimeout
    [] s = "send"    -> 2 * StepBound + SendTimeout
    [] s = "record"  -> 2 * StepBound
    [] OTHER         -> StepBound

\* From its renewal on, a worker has the last token issued for the row, and the
\* row is as it was claimed until the worker is through, unless the user
\* cancels it.
HoldsRow(w) ==
  LET q == row[job[w].id]
  IN /\ q.issued = job[w].token
     /\ q.remindAt = job[w].occ
     /\ \/ q.state = "cancelled"
        \/ /\ q.status = "processing"
           /\ q.state \in Live
           /\ q.token = job[w].token
           /\ q.lease > now[w] + TimeNeeded(step[w])

\* The claim's token is the one in the row.
Current(c) == row[c.id].status = "processing" /\ row[c.id].token = c.token

ProcessingRows ==
  \A r \in Reminders : row[r].status = "processing" =>
    row[r].state \in Live /\ row[r].token = row[r].issued

ClaimsCurrent ==
  \A w \in Workers : \A c \in Held(w) : Current(c) => row[c.id].remindAt = c.occ

ClaimsDistinct ==
  \A w \in Workers :
    /\ \A c, d \in Held(w) : c.id = d.id => c = d
    /\ step[w] \notin {"idle", "claim"} => job[w] \notin batch[w]

RowsHeld == \A w \in Workers : step[w] \in Engaged => HoldsRow(w)

FenceInv == ProcessingRows /\ ClaimsCurrent /\ ClaimsDistinct /\ RowsHeld

-----------------------------------------------------------------------------
(* Layer 2: messages                                                        *)

AsMessage(c) == [id |-> c.id, occ |-> c.occ, token |-> c.token]

\* The claims of worker w for which it has not called Telegram yet.
Unsent(w) ==
  batch[w] \union
    (IF step[w] \in {"renew", "prepare", "compose", "send"} THEN {job[w]} ELSE {})

\* What became of a message whose acknowledgement was not lost.
Accounted(m) ==
  \/ row[m.id].state \in {"cancelled", "delivered"}
  \/ row[m.id].remindAt > m.occ
  \/ \E w \in Workers : step[w] \in {"record", "finalize"} /\ AsMessage(job[w]) = m

UnsentClaims == \A w \in Workers : \A c \in Unsent(w) : AsMessage(c) \notin inbox

MessagesPast ==
  \A m \in inbox : m.token <= row[m.id].issued /\ m.occ <= row[m.id].remindAt

SentArrived ==
  \A w \in Workers : step[w] \in {"record", "finalize"} => AsMessage(job[w]) \in inbox

UnlostAccounted == \A m \in inbox : m \in lost \/ Accounted(m)

\* Every earlier message for the occurrence a worker is about to send is lost.
ResendsLost ==
  \A w \in Workers : step[w] \in Sending =>
    \A m \in inbox :
      m.id = job[w].id /\ m.occ = job[w].occ /\ m.token < job[w].token => m \in lost

\* What set_last_message_id wrote is still there when the success is finalized.
IdentityRecorded ==
  \A w \in Workers : step[w] = "finalize" =>
    row[job[w].id].lastMsg = job[w].token /\ row[job[w].id].lastOcc = job[w].occ

MessageInv ==
  /\ UnsentClaims /\ MessagesPast /\ SentArrived /\ UnlostAccounted
  /\ ResendsLost /\ IdentityRecorded
  /\ DuplicateNeedsLoss /\ IdentityIsReal

-----------------------------------------------------------------------------
(* Layer 3: copies and attempts                                             *)

CopiesOf(r) == { m \in inbox : m.id = r /\ m.occ = row[r].remindAt }
Copies(r) == Cardinality(CopiesOf(r))

CopiesCounted ==
  \A r \in Reminders :
    /\ Copies(r) <= MaxAttempts
    /\ row[r].attempts <= MaxAttempts
    /\ row[r].state \in Live => Copies(r) <= row[r].attempts

AttemptsSpare ==
  \A w \in Workers :
    /\ \A c \in Unsent(w) : Current(c) => Copies(c.id) < row[c.id].attempts
    /\ step[w] \in Sending => Copies(job[w].id) < MaxAttempts

BudgetInv == IsFiniteSet(inbox) /\ CopiesCounted /\ AttemptsSpare

-----------------------------------------------------------------------------
(* What the steps of a worker have in common                                *)

\* Worker w goes on with its job, at step s.
GoesOn(w, s) ==
  /\ OnlyMoves(w)
  /\ step'[w] = s /\ now'[w] = clock /\ job'[w] = job[w] /\ batch'[w] = batch[w]

\* It puts the job down, for the next claim of its batch or for none.
PutsDown(w) ==
  /\ OnlyMoves(w)
  /\ step'[w] \in {"idle", "renew"} /\ batch'[w] \subseteq batch[w]
  /\ step'[w] = "renew" => job'[w] \in batch[w] /\ job'[w] \notin batch'[w]

\* It puts down a job whose outcome it does not record.
GivesUp(w) ==
  /\ PutsDown(w)
  /\ row' = row /\ inbox' = inbox /\ lost \subseteq lost'
  /\ step[w] \in {"record", "finalize"} => ~OwnsLease(w) \/ AsMessage(job[w]) \in lost'

Proceeds(w) ==
  /\ \/ step[w] = "idle" /\ GoesOn(w, "claim")
     \/ step[w] = "compose" /\ GoesOn(w, "send")
     \/ step[w] \in {"compose", "send"} /\ GoesOn(w, "fail")
  /\ row' = row /\ inbox' = inbox /\ lost' = lost

Sends(w) ==
  /\ step[w] = "send"
  /\ row' = row /\ inbox' = inbox \union {AsMessage(job[w])}
  /\ \/ GoesOn(w, "record") /\ lost' = lost
     \/ (GoesOn(w, "fail") \/ PutsDown(w)) /\ lost' = lost \union {AsMessage(job[w])}

\* A transaction that passes the fence, and what it makes of row q.
Renewed(w, q) == [q EXCEPT !.lease = now[w] + LeaseDuration]
Prepared(q) == [q EXCEPT !.occ = "processing"]
Recorded(w, q) ==
  [q EXCEPT !.occ = "delivered", !.lastMsg = job[w].token, !.lastOcc = job[w].occ]
GivenUp(q) == [FailedRow(q) EXCEPT !.status = "failed", !.state = "failed"]
Retried(q, t) ==
  [FailedRow(q) EXCEPT !.status = "pending", !.state = "scheduled", !.nextRetry = t]

Writes(w, q) == OwnsLease(w) /\ Write(w, q) /\ inbox' = inbox /\ lost' = lost

Fenced(w) ==
  LET q == row[job[w].id]
  IN \/ step[w] = "renew" /\ GoesOn(w, "prepare") /\ Writes(w, Renewed(w, q))
     \/ step[w] = "prepare" /\ GoesOn(w, "compose") /\ Writes(w, Prepared(q))
     \/ step[w] = "record" /\ GoesOn(w, "finalize") /\ Writes(w, Recorded(w, q))
     \/ step[w] = "finalize" /\ PutsDown(w) /\ Writes(w, DeliveredRow(q))
     \/ /\ step[w] = "finalize" /\ PutsDown(w)
        /\ \E n \in Nat : n > q.remindAt /\ Writes(w, AdvancedRow(q, n))
     \/ step[w] = "fail" /\ PutsDown(w) /\ Writes(w, GivenUp(q))
     \/ step[w] = "fail" /\ PutsDown(w) /\ \E t \in Nat : Writes(w, Retried(q, t))

\* The claim transaction: it gives up the rows of spent and claims those of taken.
ClaimOf(r) == [id |-> r, token |-> row[r].issued + 1,
               occ |-> row[r].remindAt, due |-> row[r].deliverAt]

Claims(w, taken, spent) ==
  /\ step[w] = "claim"
  /\ \A r \in taken \union spent : r \in Reminders /\ Claimable(row[r], now[w])
  /\ taken \intersect spent = {}
  /\ \A r \in taken : row[r].attempts < MaxAttempts
  /\ \A r \in Reminders :
       row'[r] = IF r \in spent THEN Exhausted(row[r])
                 ELSE IF r \in taken THEN Claimed(row[r], now[w])
                 ELSE row[r]
  /\ OnlyMoves(w)
  /\ step'[w] \in {"idle", "renew"}
  /\ Held(w)' \subseteq { ClaimOf(r) : r \in taken }
  /\ step'[w] = "renew" => job'[w] \notin batch'[w]
  /\ inbox' = inbox /\ lost' = lost

LEMMA TakeNextPutsDown ==
  ASSUME WorkersType, NEW w \in Workers, TakeNext(w, batch[w])
  PROVE  PutsDown(w)
<1>1. CASE /\ job' = [job EXCEPT ![w] = NoClaim]
           /\ batch' = [batch EXCEPT ![w] = {}]
           /\ Enter(w, "idle")
  BY <1>1 DEF WorkersType, OnlyMoves, Enter, PutsDown
<1>2. ASSUME NEW c \in batch[w],
             job' = [job EXCEPT ![w] = c],
             batch' = [batch EXCEPT ![w] = batch[w] \ {c}],
             Enter(w, "renew")
      PROVE  PutsDown(w)
  BY <1>2 DEF WorkersType, OnlyMoves, Enter, PutsDown
<1>3. QED
  BY <1>1, <1>2 DEF TakeNext

LEMMA DropBatchPutsDown ==
  ASSUME WorkersType, NEW w \in Workers, DropBatch(w)
  PROVE  PutsDown(w)
  BY DEF WorkersType, OnlyMoves, Enter, DropBatch, PutsDown

LEMMA ContinueGoesOn ==
  ASSUME WorkersType, NEW w \in Workers, NEW s, Continue(w, s)
  PROVE  GoesOn(w, s)
  BY DEF WorkersType, OnlyMoves, Enter, Continue, GoesOn

LEMMA FailsGoesOn ==
  ASSUME WorkersType, NEW w \in Workers, NEW f, Fails(w, f)
  PROVE  GoesOn(w, "fail")
  BY DEF WorkersType, OnlyMoves, Enter, Fails, GoesOn

LEMMA JobMessageIs == \A w : JobMessage(w) = AsMessage(job[w])
  BY DEF JobMessage, AsMessage

\* Every step of a worker but its claim.
LEMMA WorkerCases ==
  ASSUME SendInv, NEW w \in Workers,
         \/ WorkerStep(w) /\ ~ClaimDueReminders(w)
         \/ StopRequested(w) \/ DatabaseError(w) \/ Crash(w)
  PROVE  GivesUp(w) \/ Proceeds(w) \/ Sends(w) \/ Fenced(w)
<1> USE JobMessageIs
<1>1. WorkersType
  BY TypeParts DEF SendInv
<1>2. ASSUME ~OwnsLease(w), TakeNext(w, batch[w]), row' = row, inbox' = inbox, lost' = lost
      PROVE  GivesUp(w)
  BY <1>1, <1>2, TakeNextPutsDown DEF GivesUp
<1>3. CASE Poll(w) \/ StartSend(w) \/ ContextFails(w)
  BY <1>1, <1>3, ContinueGoesOn, FailsGoesOn DEF Poll, StartSend, ContextFails, Proceeds
<1>4. CASE TelegramRefuses(w)
  BY <1>1, <1>4, FailsGoesOn DEF TelegramRefuses, Proceeds
<1>5. CASE TelegramAccepts(w) \/ AnswerLost(w)
  BY <1>1, <1>5, ContinueGoesOn, FailsGoesOn DEF TelegramAccepts, AnswerLost, Sends
<1>6. CASE RenewClaimBeforeSend(w)
  BY <1>1, <1>2, <1>6, ContinueGoesOn
     DEF RenewClaimBeforeSend, Fenced, Writes, Renewed
<1>7. CASE PrepareDeliveryOccurrence(w)
  BY <1>1, <1>2, <1>7, ContinueGoesOn
     DEF PrepareDeliveryOccurrence, Fenced, Writes, Prepared
<1>8. CASE SetLastMessageId(w)
  BY <1>1, <1>2, <1>8, ContinueGoesOn DEF SetLastMessageId, Fenced, Writes, Recorded
<1>9. CASE FinalizeDeliverySuccess(w)
  <2> DEFINE q == row[job[w].id]
             next == IF job[w].id \in Repeating
                       THEN NextOccurrence(row[job[w].id].remindAt, now[w]) ELSE {}
  <2>1. /\ step[w] = "finalize" /\ TakeNext(w, batch[w]) /\ PutsDown(w)
        /\ inbox' = inbox /\ lost' = lost
    BY <1>1, <1>9, TakeNextPutsDown DEF FinalizeDeliverySuccess
  <2>2. CASE ~OwnsLease(w) /\ row' = row
    BY <1>2, <2>1, <2>2
  <2>3. CASE OwnsLease(w) /\ Write(w, DeliveredRow(q))
    BY <2>1, <2>3 DEF Fenced, Writes
  <2>4. ASSUME OwnsLease(w), NEW n \in next, Write(w, AdvancedRow(q, n))
        PROVE  Fenced(w)
    <3>1. n \in Nat /\ n > q.remindAt
      BY <2>4, DataAssumption DEF NextOccurrence
    <3>2. QED
      BY <2>1, <2>4, <3>1 DEF Fenced, Writes
  <2>5. QED
    BY <1>9, <2>2, <2>3, <2>4 DEF FinalizeDeliverySuccess
<1>10. CASE FinalizeDeliveryFailure(w)
  <2> DEFINE q == row[job[w].id]
             retryAt == now[w] + RetryDelay(q.retries + 1, failure[w].retryAfter)
  <2>1. /\ step[w] = "fail" /\ TakeNext(w, batch[w]) /\ PutsDown(w)
        /\ inbox' = inbox /\ lost' = lost
    BY <1>1, <1>10, TakeNextPutsDown DEF FinalizeDeliveryFailure
  <2>2. retryAt \in Nat
    <3>1. now[w] \in Nat /\ failure[w] \in Failure /\ q.retries + 1 \in Nat
      BY <2>1, OwnedRow DEF SendInv, TypeOK, Row
    <3>2. RetryDelay(q.retries + 1, failure[w].retryAfter) \in Nat
      BY <3>1, FailureDelayType, RetryDelayType
    <3>3. QED
      BY <3>1, <3>2
  <2>3. CASE ~OwnsLease(w) /\ row' = row
    BY <1>2, <2>1, <2>3
  <2>4. CASE OwnsLease(w) /\ Write(w, GivenUp(q))
    BY <2>1, <2>4 DEF Fenced, Writes
  <2>5. CASE OwnsLease(w) /\ Write(w, Retried(q, retryAt))
    BY <2>1, <2>2, <2>5 DEF Fenced, Writes
  <2>6. QED
    BY <1>10, <2>3, <2>4, <2>5 DEF FinalizeDeliveryFailure, GivenUp, Retried
<1>11. CASE StopRequested(w)
  BY <1>1, <1>11, DropBatchPutsDown DEF StopRequested, GivesUp
<1>12. CASE DatabaseError(w)
  <2>1. row' = row /\ inbox' = inbox
    BY <1>12 DEF DatabaseError
  <2>2. PutsDown(w)
    BY <1>1, <1>12, DropBatchPutsDown, TakeNextPutsDown DEF DatabaseError
  <2>3. lost \subseteq lost'
        /\ (step[w] \in {"record", "finalize"} => AsMessage(job[w]) \in lost')
    BY <1>12 DEF DatabaseError
  <2>4. QED
    BY <2>1, <2>2, <2>3 DEF GivesUp
<1>13. CASE Crash(w)
  <2>1. row' = row /\ PutsDown(w)
    BY <1>1, <1>13, DropBatchPutsDown DEF Crash
  <2>2. QED
    BY <1>13, <2>1 DEF Crash, GivesUp, Sends
<1>14. QED
  BY <1>3, <1>4, <1>5, <1>6, <1>7, <1>8, <1>9, <1>10, <1>11, <1>12, <1>13 DEF WorkerStep

LEMMA ClaimCase ==
  ASSUME SendInv, NEW w \in Workers, ClaimDueReminders(w)
  PROVE  \E taken, spent \in SUBSET Reminders : Claims(w, taken, spent)
<1> DEFINE due == { r \in Reminders : Claimable(row[r], now[w]) }
           Key(r) == [id |-> r, due |-> row[r].deliverAt]
           chosen == { r \in due :
             Cardinality({ q \in due : Precedes(Key(q), Key(r)) }) < BatchSize }
           spent == { r \in chosen : row[r].attempts >= MaxAttempts }
           taken == chosen \ spent
           claims == { ClaimOf(r) : r \in taken }
<1>1. /\ WorkersType /\ clock \in Nat /\ row \in [Reminders -> Row]
      /\ inbox' = inbox /\ lost' = lost /\ step[w] = "claim"
  BY TypeParts DEF SendInv, ClaimDueReminders
<1>2. /\ row' = [r \in Reminders |->
                   CASE r \in spent -> Exhausted(row[r])
                     [] r \in taken -> Claimed(row[r], now[w])
                     [] OTHER       -> row[r]]
      /\ TakeNext(w, claims)
  BY DEF ClaimDueReminders, ClaimOf
<1>3. /\ taken \subseteq due /\ spent \subseteq due /\ taken \intersect spent = {}
      /\ \A r \in taken : ~(row[r].attempts >= MaxAttempts)
  OBVIOUS
<1>4. \A r \in taken : row[r].attempts < MaxAttempts
  <2>1. MaxAttempts \in Nat /\ \A r \in Reminders : row[r].attempts \in Nat
    BY <1>1, DataAssumption DEF Row
  <2>2. QED
    BY <1>3, <2>1
<1>5. claims \in SUBSET Claim
  <2>1. ASSUME NEW r \in Reminders
        PROVE  ClaimOf(r) \in Claim
    BY <1>1 DEF ClaimOf, Claim, Row
  <2>2. taken \subseteq Reminders
    OBVIOUS
  <2>3. QED
    BY <2>1, <2>2
<1>6. /\ OnlyMoves(w) /\ Held(w)' \subseteq claims /\ step'[w] \in {"idle", "renew"}
      /\ step'[w] = "renew" => job'[w] \notin batch'[w]
  <2> HIDE DEF claims
  <2>1. /\ OnlyMoves(w) /\ Held(w)' \subseteq claims /\ step'[w] \in {"idle", "renew"}
    BY <1>1, <1>2, <1>5, TakeNextMoves
  <2>2. step'[w] = "renew" => job'[w] \notin batch'[w]
    BY <1>1, <1>2 DEF TakeNext, Enter, WorkersType
  <2>3. QED
    BY <2>1, <2>2
<1> HIDE DEF taken, spent
<1>7. \A r \in Reminders :
        row'[r] = IF r \in spent THEN Exhausted(row[r])
                  ELSE IF r \in taken THEN Claimed(row[r], now[w])
                  ELSE row[r]
  BY <1>2, <1>3
<1>8. Claims(w, taken, spent)
  BY <1>1, <1>3, <1>4, <1>6, <1>7 DEF Claims
<1>9. QED
  BY <1>3, <1>8

-----------------------------------------------------------------------------
(* What the transactions make of a row                                      *)

LEMMA ClaimedFields ==
  ASSUME NEW q \in Row, NEW t \in Nat
  PROVE  LET p == Claimed(q, t)
         IN /\ p.status = "processing" /\ p.state = q.state
            /\ p.token = q.issued + 1 /\ p.issued = q.issued + 1
            /\ p.remindAt = q.remindAt /\ p.attempts = q.attempts + 1
            /\ p.lastMsg = Null
  BY DEF Claimed, Row

LEMMA ExhaustedFields ==
  ASSUME NEW q \in Row
  PROVE  LET p == Exhausted(q)
         IN /\ p.status = "failed" /\ p.state = "failed"
            /\ p.issued = q.issued /\ p.remindAt = q.remindAt
            /\ p.attempts = q.attempts /\ p.lastMsg = Null
  BY DEF Exhausted, ClearProcessingState, Row

LEMMA RenewedFields ==
  ASSUME NEW w, NEW q \in Row
  PROVE  LET p == Renewed(w, q)
         IN /\ p.status = q.status /\ p.state = q.state /\ p.token = q.token
            /\ p.lease = now[w] + LeaseDuration
            /\ p.issued = q.issued /\ p.remindAt = q.remindAt /\ p.attempts = q.attempts
            /\ p.lastMsg = q.lastMsg /\ p.lastOcc = q.lastOcc
  BY DEF Renewed, Row

LEMMA PreparedFields ==
  ASSUME NEW q \in Row
  PROVE  LET p == Prepared(q)
         IN /\ p.status = q.status /\ p.state = q.state /\ p.token = q.token
            /\ p.lease = q.lease
            /\ p.issued = q.issued /\ p.remindAt = q.remindAt /\ p.attempts = q.attempts
            /\ p.lastMsg = q.lastMsg /\ p.lastOcc = q.lastOcc
  BY DEF Prepared, Row

LEMMA RecordedFields ==
  ASSUME NEW w, NEW q \in Row
  PROVE  LET p == Recorded(w, q)
         IN /\ p.status = q.status /\ p.state = q.state /\ p.token = q.token
            /\ p.lease = q.lease
            /\ p.issued = q.issued /\ p.remindAt = q.remindAt /\ p.attempts = q.attempts
            /\ p.lastMsg = job[w].token /\ p.lastOcc = job[w].occ
  BY DEF Recorded, Row

LEMMA SucceededFields ==
  ASSUME NEW q \in Row
  PROVE  LET p == Succeeded(q)
         IN /\ p \in Row
            /\ p.issued = q.issued /\ p.remindAt = q.remindAt /\ p.attempts = 0
            /\ p.lastMsg = q.lastMsg
            /\ p.lastOcc = IF q.lastOcc = Null THEN q.remindAt ELSE q.lastOcc
  BY DEF Succeeded, ClearProcessingState, Row, Null

LEMMA DeliveredFields ==
  ASSUME NEW q \in Row
  PROVE  LET p == DeliveredRow(q)
         IN /\ p.status = "sent" /\ p.state = "delivered"
            /\ p.issued = q.issued /\ p.remindAt = q.remindAt /\ p.attempts = 0
            /\ p.lastMsg = q.lastMsg
            /\ p.lastOcc = IF q.lastOcc = Null THEN q.remindAt ELSE q.lastOcc
<1> DEFINE s == Succeeded(q)
<1> HIDE DEF s
<1>1. /\ s \in Row
      /\ s.issued = q.issued /\ s.remindAt = q.remindAt /\ s.attempts = 0
      /\ s.lastMsg = q.lastMsg
      /\ s.lastOcc = IF q.lastOcc = Null THEN q.remindAt ELSE q.lastOcc
  BY SucceededFields DEF s
<1>2. LET p == [s EXCEPT !.status = "sent", !.state = "delivered", !.deliverAt = Null]
      IN /\ p.status = "sent" /\ p.state = "delivered"
         /\ p.issued = s.issued /\ p.remindAt = s.remindAt /\ p.attempts = s.attempts
         /\ p.lastMsg = s.lastMsg /\ p.lastOcc = s.lastOcc
  BY <1>1 DEF Row
<1>3. QED
  BY <1>1, <1>2 DEF s, DeliveredRow

LEMMA AdvancedFields ==
  ASSUME NEW q \in Row, NEW n \in Nat
  PROVE  LET p == AdvancedRow(q, n)
         IN /\ p.status = "pending" /\ p.state = "scheduled"
            /\ p.issued = q.issued /\ p.remindAt = n /\ p.attempts = 0
            /\ p.lastMsg = q.lastMsg
            /\ p.lastOcc = IF q.lastOcc = Null THEN q.remindAt ELSE q.lastOcc
<1> DEFINE s == Succeeded(q)
<1> HIDE DEF s
<1>1. /\ s \in Row
      /\ s.issued = q.issued /\ s.remindAt = q.remindAt /\ s.attempts = 0
      /\ s.lastMsg = q.lastMsg
      /\ s.lastOcc = IF q.lastOcc = Null THEN q.remindAt ELSE q.lastOcc
  BY SucceededFields DEF s
<1>2. LET p == [s EXCEPT !.status = "pending", !.state = "scheduled",
                         !.remindAt = n, !.deliverAt = n, !.occ = "absent"]
      IN /\ p.status = "pending" /\ p.state = "scheduled"
         /\ p.issued = s.issued /\ p.remindAt = n /\ p.attempts = s.attempts
         /\ p.lastMsg = s.lastMsg /\ p.lastOcc = s.lastOcc
  BY <1>1 DEF Row
<1>3. QED
  BY <1>1, <1>2 DEF s, AdvancedRow

LEMMA FailedFields ==
  ASSUME NEW q \in Row, NEW t \in Nat
  PROVE  /\ LET p == GivenUp(q)
            IN /\ p.status = "failed" /\ p.state = "failed"
               /\ p.issued = q.issued /\ p.remindAt = q.remindAt
               /\ p.attempts = q.attempts /\ p.lastMsg = Null
         /\ LET p == Retried(q, t)
            IN /\ p.status = "pending" /\ p.state = "scheduled"
               /\ p.issued = q.issued /\ p.remindAt = q.remindAt
               /\ p.attempts = q.attempts /\ p.lastMsg = Null
<1> DEFINE retries == q.retries + 1
           f == [q EXCEPT !.retries = retries, !.occ = "failed", !.lastMsg = Null,
                          !.lastOcc = Null, !.lease = Null, !.token = Null,
                          !.nextRetry = Null]
<1>1. retries \in Nat
  BY DEF Row
<1>2. FailedRow(q) = f
  BY DEF FailedRow, ClearProcessingState, Row, Null
<1> HIDE DEF retries
<1>3. /\ f \in Row /\ f.issued = q.issued /\ f.remindAt = q.remindAt
      /\ f.attempts = q.attempts /\ f.lastMsg = Null
  BY <1>1 DEF Row, Null
<1> HIDE DEF f
<1>4. LET p == [f EXCEPT !.status = "failed", !.state = "failed"]
          r == [f EXCEPT !.status = "pending", !.state = "scheduled", !.nextRetry = t]
      IN /\ p.status = "failed" /\ p.state = "failed"
         /\ p.issued = f.issued /\ p.remindAt = f.remindAt
         /\ p.attempts = f.attempts /\ p.lastMsg = f.lastMsg
         /\ r.status = "pending" /\ r.state = "scheduled"
         /\ r.issued = f.issued /\ r.remindAt = f.remindAt
         /\ r.attempts = f.attempts /\ r.lastMsg = f.lastMsg
  BY <1>3 DEF Row
<1>5. QED
  BY <1>2, <1>3, <1>4 DEF GivenUp, Retried

LEMMA CancelledFields ==
  ASSUME NEW q \in Row, NEW t \in Nat
  PROVE  LET p == Cancelled(q, t)
         IN /\ p.status = "sent" /\ p.state = "cancelled" /\ p.cancelledAt = t
            /\ p.issued = q.issued /\ p.remindAt = q.remindAt /\ p.attempts = 0
            /\ p.lastMsg = q.lastMsg /\ p.lastOcc = q.lastOcc
  BY DEF Cancelled, Row

-----------------------------------------------------------------------------
(* FenceInv                                                                 *)

LEMMA MovesKeepClaims ==
  ASSUME SendInv, ClaimsDistinct, NEW w \in Workers,
         \/ PutsDown(w)
         \/ step[w] = "idle" /\ GoesOn(w, "claim")
         \/ step[w] \notin {"idle", "claim"} /\ \E s \in Engaged : GoesOn(w, s)
  PROVE  OnlyMoves(w) /\ Held(w)' \subseteq Held(w) /\ ClaimsDistinct'
<1>1. /\ OnlyMoves(w) /\ Held(w)' \subseteq Held(w)
      /\ step'[w] \notin {"idle", "claim"} => job'[w] \notin batch'[w]
  BY DEF PutsDown, GoesOn, Held, ClaimsDistinct, Engaged
<1>2. ASSUME NEW v \in Workers, v # w
      PROVE  Held(v)' = Held(v) /\ step'[v] = step[v] /\ job'[v] = job[v]
             /\ batch'[v] = batch[v]
  BY <1>1, <1>2, HeldKept DEF OnlyMoves
<1>3. ClaimsDistinct'
  BY <1>1, <1>2 DEF ClaimsDistinct
<1>4. QED
  BY <1>1, <1>3

\* Every step of a worker but its claim keeps or shrinks what it holds.
LEMMA CasesMove ==
  ASSUME SendInv, ClaimsDistinct, NEW w \in Workers,
         GivesUp(w) \/ Proceeds(w) \/ Sends(w) \/ Fenced(w)
  PROVE  OnlyMoves(w) /\ Held(w)' \subseteq Held(w) /\ ClaimsDistinct'
  BY MovesKeepClaims DEF GivesUp, Proceeds, Sends, Fenced, Engaged

LEMMA HeldRow ==
  ASSUME SendInv, NEW v \in Workers, NEW c \in Held(v)
  PROVE  /\ c \in Claim /\ c.id \in Reminders /\ row[c.id] \in Row
         /\ c.token \in Nat /\ c.token <= row[c.id].issued
<1>1. c \in Claim
  BY TypeParts, HeldType DEF SendInv
<1>2. QED
  BY <1>1 DEF SendInv, TypeOK, TokensIssued, Claim

LEMMA EngagedHolds ==
  ASSUME SendInv, NEW v \in Workers, step[v] \in Engaged
  PROVE  /\ job[v] \in Held(v) /\ job[v] \in Claim /\ job[v].id \in Reminders
         /\ row[job[v].id] \in Row
         /\ now[v] \in Nat /\ clock \in Nat
         /\ now[v] <= clock /\ clock <= now[v] + Patience(step[v])
<1>1. job[v] \in Held(v)
  BY DEF Held, Engaged
<1>2. QED
  BY <1>1, HeldRow DEF SendInv, TypeOK, OnTime

\* The time a step may take, and the time needed from the next one on.
LEMMA TimesAddUp ==
  /\ \A s \in Engaged :
       Patience(s) \in Nat /\ TimeNeeded(s) \in Nat /\ Patience(s) <= TimeNeeded(s)
  /\ \A p \in {<<"prepare", "compose">>, <<"compose", "send">>, <<"compose", "fail">>,
               <<"send", "record">>, <<"send", "fail">>, <<"record", "finalize">>} :
       TimeNeeded(p[2]) + Patience(p[1]) <= TimeNeeded(p[1])
<1>1. StepBound \in Nat /\ SendTimeout \in Nat
  BY LeaseAssumption
<1>2. QED
  BY <1>1 DEF Patience, TimeNeeded, Engaged

\* A row an engaged worker holds is not claimable, and its fence is open to that
\* worker, unless the row is cancelled.
LEMMA HeldRowFenced ==
  ASSUME SendInv, RowsHeld, NEW v \in Workers, step[v] \in Engaged, NEW w \in Workers
  PROVE  /\ ~Claimable(row[job[v].id], now[w])
         /\ row[job[v].id].state # "cancelled" => OwnsLease(v)
<1>1. HoldsRow(v)
  BY DEF RowsHeld
<1>2. CASE row[job[v].id].state = "cancelled"
  BY <1>2 DEF Claimable, Live
<1>3. CASE row[job[v].id].state # "cancelled"
  <2>1. row[job[v].id].lease \in Nat /\ now[w] \in Nat /\ now[w] <= clock
    BY EngagedHolds DEF Row, SendInv, TypeOK, OnTime
  <2>2. row[job[v].id].lease > now[v] + TimeNeeded(step[v])
    BY <1>1, <1>3 DEF HoldsRow
  <2>3. row[job[v].id].lease > clock
    BY <2>1, <2>2, EngagedHolds, TimesAddUp
  <2>4. ~(row[job[v].id].lease <= now[w]) /\ row[job[v].id].lease > now[v]
    BY <2>1, <2>3, EngagedHolds
  <2>5. QED
    BY <1>1, <1>3, <2>4 DEF HoldsRow, OwnsLease, Claimable
<1>4. QED
  BY <1>2, <1>3

\* No other engaged worker has the reminder of a worker that passes the fence.
LEMMA FenceAlone ==
  ASSUME SendInv, FenceInv, NEW w \in Workers, step[w] \notin {"idle", "claim"},
         OwnsLease(w), NEW v \in Workers, v # w, step[v] \in Engaged
  PROVE  job[v].id # job[w].id
<1> SUFFICES ASSUME job[v].id = job[w].id PROVE FALSE
  OBVIOUS
<1>1. job[v] \in Held(v) /\ job[w] \in Held(w) /\ job[w].id \in Reminders
  BY EngagedHolds, OwnedRow DEF Held
<1>2. row[job[w].id].token = row[job[w].id].issued
  BY <1>1 DEF FenceInv, ProcessingRows, OwnsLease
<1>3. job[v].token = job[w].token
  BY <1>2 DEF FenceInv, RowsHeld, HoldsRow, OwnsLease
<1>4. QED
  BY <1>1, <1>3 DEF SendInv, TokensUnshared

\* A worker that is not disturbed holds its row as before if the row is as before.
LEMMA HoldsRowKept ==
  ASSUME FenceInv, NEW w \in Workers, OnlyMoves(w), NEW v \in Workers, v # w,
         step'[v] \in Engaged, row'[job[v].id] = row[job[v].id]
  PROVE  HoldsRow(v)'
<1>1. step'[v] = step[v] /\ now'[v] = now[v] /\ job'[v] = job[v]
  BY DEF OnlyMoves
<1>2. HoldsRow(v)
  BY <1>1 DEF FenceInv, RowsHeld
<1>3. QED
  BY <1>1, <1>2 DEF HoldsRow

LEMMA FenceRest ==
  ASSUME SendInv, FenceInv, NEW w \in Workers,
         OnlyMoves(w), Held(w)' \subseteq Held(w), ClaimsDistinct', row' = row,
         step'[w] \in Engaged => HoldsRow(w)'
  PROVE  FenceInv'
<1>1. ProcessingRows'
  BY DEF FenceInv, ProcessingRows
<1>2. ClaimsCurrent'
  <2>1. \A v \in Workers : Held(v)' \subseteq Held(v)
    BY HeldKept
  <2>2. QED
    BY <2>1 DEF FenceInv, ClaimsCurrent, Current
<1>3. RowsHeld'
  BY HoldsRowKept DEF RowsHeld
<1>4. QED
  BY <1>1, <1>2, <1>3 DEF FenceInv

\* A fenced write of row q.
LEMMA FenceWrite ==
  ASSUME SendInv, FenceInv, NEW w \in Workers, step[w] \notin {"idle", "claim"},
         OnlyMoves(w), Held(w)' \subseteq Held(w), ClaimsDistinct',
         NEW q, Writes(w, q),
         q.issued = row[job[w].id].issued,
         q.status = "processing" =>
           /\ q.state = row[job[w].id].state
           /\ q.token = row[job[w].id].token
           /\ q.remindAt = row[job[w].id].remindAt,
         step'[w] \in Engaged => HoldsRow(w)'
  PROVE  FenceInv'
<1>1. /\ row \in [Reminders -> Row] /\ job[w].id \in Reminders /\ job[w] \in Held(w)
      /\ OwnsLease(w)
      /\ row'[job[w].id] = q
      /\ \A r \in Reminders : r # job[w].id => row'[r] = row[r]
  BY OwnedRow DEF SendInv, TypeOK, Writes, Write, Held
<1>2. ProcessingRows'
  BY <1>1 DEF FenceInv, ProcessingRows, OwnsLease
<1>3. ClaimsCurrent'
  <2>1. ASSUME NEW v \in Workers, NEW c \in Held(v)', Current(c)'
        PROVE  row'[c.id].remindAt = c.occ
    <3>1. c \in Held(v) /\ c.id \in Reminders
      BY <2>1, HeldKept, HeldRow
    <3>2. CASE c.id # job[w].id
      BY <1>1, <2>1, <3>1, <3>2 DEF FenceInv, ClaimsCurrent, Current
    <3>3. CASE c.id = job[w].id
      <4>1. q.status = "processing" /\ c.token = job[w].token /\ Current(c)
        BY <1>1, <2>1, <3>3 DEF Current, OwnsLease
      <4>2. QED
        BY <1>1, <3>1, <3>3, <4>1 DEF FenceInv, ClaimsCurrent
    <3>4. QED
      BY <3>2, <3>3
  <2>2. QED
    BY <2>1 DEF ClaimsCurrent
<1>4. ASSUME NEW v \in Workers, v # w, step'[v] \in Engaged
      PROVE  HoldsRow(v)'
  <2>1. step[v] \in Engaged
    BY <1>4 DEF OnlyMoves
  <2>2. job[v].id # job[w].id /\ job[v].id \in Reminders
    BY <1>1, <1>4, <2>1, FenceAlone, EngagedHolds
  <2>3. QED
    BY <1>1, <1>4, <2>2, HoldsRowKept
<1>5. QED
  BY <1>2, <1>3, <1>4 DEF FenceInv, RowsHeld

LEMMA FenceTickCancel ==
  ASSUME SendInv, FenceInv, Tick \/ \E r \in Reminders : CancelReminder(r)
  PROVE  FenceInv'
<1>1. /\ row \in [Reminders -> Row] /\ clock \in Nat
      /\ step' = step /\ now' = now /\ job' = job /\ batch' = batch
  BY DEF SendInv, TypeOK, Tick, CancelReminder, worker
<1>2. CASE Tick
  BY <1>1, <1>2
     DEF Tick, FenceInv, ProcessingRows, ClaimsCurrent, ClaimsDistinct, RowsHeld,
         HoldsRow, Current, Held
<1>3. ASSUME NEW r \in Reminders, CancelReminder(r)
      PROVE  FenceInv'
  <2> DEFINE q == Cancelled(row[r], clock)
  <2> HIDE DEF q
  <2>1. /\ row' = [row EXCEPT ![r] = q]
        /\ q.status = "sent" /\ q.state = "cancelled"
        /\ q.issued = row[r].issued /\ q.remindAt = row[r].remindAt
    BY <1>1, <1>3, CancelledFields DEF CancelReminder, q
  <2>2. ProcessingRows' /\ ClaimsDistinct'
    BY <1>1, <2>1 DEF FenceInv, ProcessingRows, ClaimsDistinct, Held
  <2>3. ClaimsCurrent'
    <3>1. \A w \in Workers : Held(w)' = Held(w)
      BY <1>1 DEF Held
    <3>2. \A w \in Workers : \A c \in Held(w) : c.id \in Reminders
      BY HeldRow
    <3>3. QED
      BY <1>1, <2>1, <3>1, <3>2 DEF FenceInv, ClaimsCurrent, Current
  <2>4. ASSUME NEW w \in Workers, step[w] \in Engaged
        PROVE  HoldsRow(w)'
    <3>1. HoldsRow(w) /\ job[w].id \in Reminders
      BY <2>4, EngagedHolds DEF FenceInv, RowsHeld
    <3>2. CASE job[w].id = r
      BY <1>1, <2>1, <3>1, <3>2 DEF HoldsRow
    <3>3. CASE job[w].id # r
      BY <1>1, <2>1, <3>1, <3>3 DEF HoldsRow
    <3>4. QED
      BY <3>2, <3>3
  <2>5. QED
    BY <1>1, <2>2, <2>3, <2>4 DEF FenceInv, RowsHeld
<1>4. QED
  BY <1>2, <1>3

\* A token that was held before is not the one a claim issues.
LEMMA ClaimsAreNew ==
  ASSUME SendInv, NEW w \in Workers, NEW taken \in SUBSET Reminders,
         NEW spent \in SUBSET Reminders, Claims(w, taken, spent),
         NEW v \in Workers, NEW c \in Held(v), Current(c)'
  PROVE  c.id \in Reminders \ (taken \union spent) /\ row'[c.id] = row[c.id] /\ Current(c)
<1>1. c.id \in Reminders /\ row[c.id] \in Row /\ c.token \in Nat /\ c.token <= row[c.id].issued
      /\ now[w] \in Nat
  BY HeldRow DEF SendInv, TypeOK
<1>2. c.id \notin spent
  BY <1>1, ExhaustedFields DEF Claims, Current
<1>3. c.id \notin taken
  <2>1. SUFFICES ASSUME c.id \in taken PROVE FALSE
    OBVIOUS
  <2>2. row'[c.id].token = row[c.id].issued + 1
    BY <1>1, <1>2, <2>1, ClaimedFields DEF Claims
  <2>3. QED
    BY <1>1, <2>2 DEF Current, Row
<1>4. QED
  BY <1>1, <1>2, <1>3 DEF Claims, Current

LEMMA FenceClaim ==
  ASSUME SendInv, FenceInv, NEW w \in Workers, NEW taken \in SUBSET Reminders,
         NEW spent \in SUBSET Reminders, Claims(w, taken, spent)
  PROVE  FenceInv'
<1>1. /\ row \in [Reminders -> Row] /\ now[w] \in Nat /\ OnlyMoves(w)
      /\ step[w] = "claim" /\ step'[w] \in {"idle", "renew"}
  BY DEF SendInv, TypeOK, Claims
<1>2. ProcessingRows'
  <2>1. ASSUME NEW r \in Reminders, row'[r].status = "processing"
        PROVE  row'[r].state \in Live /\ row'[r].token = row'[r].issued
    <3>1. CASE r \in taken
      <4>1. row'[r] = Claimed(row[r], now[w]) /\ row[r].state \in Live
        BY <3>1 DEF Claims, Claimable
      <4>2. QED
        BY <1>1, <4>1, ClaimedFields
    <3>2. CASE r \in spent
      BY <1>1, <2>1, <3>2, ExhaustedFields DEF Claims
    <3>3. CASE r \notin taken /\ r \notin spent
      BY <2>1, <3>3 DEF Claims, FenceInv, ProcessingRows
    <3>4. QED
      BY <3>1, <3>2, <3>3
  <2>2. QED
    BY <2>1 DEF ProcessingRows
<1>3. \A v \in Workers : v # w => Held(v)' = Held(v)
  BY <1>1, HeldKept
<1>4. ClaimsCurrent'
  <2>1. ASSUME NEW v \in Workers, v # w, NEW c \in Held(v)', Current(c)'
        PROVE  row'[c.id].remindAt = c.occ
    BY <1>3, <2>1, ClaimsAreNew DEF FenceInv, ClaimsCurrent
  <2>2. ASSUME NEW c \in Held(w)'
        PROVE  row'[c.id].remindAt = c.occ
    <3>1. PICK r \in taken : c = ClaimOf(r)
      BY <2>2 DEF Claims
    <3>2. row'[r] = Claimed(row[r], now[w]) /\ c.id = r /\ c.occ = row[r].remindAt
      BY <3>1 DEF Claims, ClaimOf
    <3>3. QED
      BY <1>1, <3>2, ClaimedFields
  <2>3. QED
    BY <2>1, <2>2 DEF ClaimsCurrent
<1>5. ClaimsDistinct'
  <2>1. \A c, d \in Held(w)' : c.id = d.id => c = d
    BY DEF Claims, ClaimOf
  <2>2. step'[w] \notin {"idle", "claim"} => job'[w] \notin batch'[w]
    BY DEF Claims
  <2>3. QED
    BY <1>1, <1>3, <2>1, <2>2 DEF FenceInv, ClaimsDistinct, OnlyMoves
<1>6. ASSUME NEW v \in Workers, step'[v] \in Engaged
      PROVE  HoldsRow(v)'
  <2>1. v # w /\ step[v] \in Engaged
    BY <1>1, <1>6 DEF Engaged, OnlyMoves
  <2>2. ~Claimable(row[job[v].id], now[w]) /\ job[v].id \in Reminders
    BY <2>1, HeldRowFenced, EngagedHolds DEF FenceInv
  <2>3. row'[job[v].id] = row[job[v].id]
    BY <2>2 DEF Claims
  <2>4. QED
    BY <1>1, <1>6, <2>1, <2>3, HoldsRowKept
<1>7. QED
  BY <1>2, <1>4, <1>5, <1>6 DEF FenceInv, RowsHeld

\* A worker that goes on with its job has not used more time than its step may
\* take, so that what is left of the lease still covers the rest.
LEMMA HoldsRowOn ==
  ASSUME SendInv, FenceInv, NEW w \in Workers, NEW s,
         <<step[w], s>> \in
           {<<"prepare", "compose">>, <<"compose", "send">>, <<"compose", "fail">>,
            <<"send", "record">>, <<"send", "fail">>, <<"record", "finalize">>},
         GoesOn(w, s),
         LET q == row[job[w].id]
             p == row'[job[w].id]
         IN /\ p.status = q.status /\ p.state = q.state /\ p.token = q.token
            /\ p.lease = q.lease /\ p.issued = q.issued /\ p.remindAt = q.remindAt
  PROVE  HoldsRow(w)'
<1> DEFINE q == row[job[w].id]
<1>1. step[w] \in Engaged /\ s \in Engaged
  BY DEF Engaged
<1>2. /\ now[w] \in Nat /\ clock \in Nat /\ clock <= now[w] + Patience(step[w])
      /\ q.lease \in Nat
  BY <1>1, EngagedHolds DEF Row
<1>3. /\ TimeNeeded(s) \in Nat /\ TimeNeeded(step[w]) \in Nat /\ Patience(step[w]) \in Nat
      /\ TimeNeeded(s) + Patience(step[w]) <= TimeNeeded(step[w])
  <2> DEFINE p == <<step[w], s>>
  <2>1. p[1] = step[w] /\ p[2] = s
    OBVIOUS
  <2>2. TimeNeeded(p[2]) + Patience(p[1]) <= TimeNeeded(p[1])
    BY TimesAddUp
  <2>3. QED
    BY <1>1, <2>1, <2>2, TimesAddUp
<1>4. q.lease > now[w] + TimeNeeded(step[w]) => q.lease > clock + TimeNeeded(s)
  BY <1>2, <1>3
<1>5. step'[w] = s /\ now'[w] = clock /\ job'[w] = job[w]
  BY DEF GoesOn
<1>6. HoldsRow(w)
  BY <1>1 DEF FenceInv, RowsHeld
<1>7. QED
  BY <1>4, <1>5, <1>6 DEF HoldsRow

\* A renewal is granted for the longest time the delivery may take.
LEMMA RenewedHolds ==
  ASSUME SendInv, FenceInv, NEW w \in Workers, step[w] = "renew",
         GoesOn(w, "prepare"), Writes(w, Renewed(w, row[job[w].id]))
  PROVE  HoldsRow(w)'
<1> DEFINE q == row[job[w].id]
           p == Renewed(w, q)
<1> HIDE DEF p
<1>1. /\ job[w] \in Held(w) /\ job[w].id \in Reminders /\ q \in Row
      /\ row \in [Reminders -> Row] /\ row' = [row EXCEPT ![job[w].id] = p]
      /\ OwnsLease(w)
  BY OwnedRow DEF SendInv, TypeOK, Held, Writes, Write, p
<1>2. /\ p.status = q.status /\ p.state = q.state /\ p.token = q.token
      /\ p.lease = now[w] + LeaseDuration
      /\ p.issued = q.issued /\ p.remindAt = q.remindAt
  BY <1>1, RenewedFields DEF p
<1>3. q.token = q.issued /\ q.remindAt = job[w].occ
  BY <1>1 DEF FenceInv, ProcessingRows, ClaimsCurrent, Current, OwnsLease
<1>4. now[w] + LeaseDuration > clock + TimeNeeded("prepare")
  <2>1. now[w] \in Nat /\ clock \in Nat /\ clock <= now[w] + StepBound
    BY DEF SendInv, TypeOK, OnTime, Patience
  <2>2. QED
    BY <2>1, LeaseAssumption, MarginAssumption DEF TimeNeeded
<1>5. step'[w] = "prepare" /\ now'[w] = clock /\ job'[w] = job[w]
  BY DEF GoesOn
<1>6. row'[job[w].id] = p
  BY <1>1
<1>7. QED
  BY <1>1, <1>2, <1>3, <1>4, <1>5, <1>6 DEF HoldsRow, OwnsLease

LEMMA FenceUnwritten ==
  ASSUME SendInv, FenceInv, NEW w \in Workers, GivesUp(w) \/ Proceeds(w) \/ Sends(w)
  PROVE  FenceInv'
<1>1. OnlyMoves(w) /\ Held(w)' \subseteq Held(w) /\ ClaimsDistinct'
  BY CasesMove DEF FenceInv
<1>2. row' = row
  BY DEF GivesUp, Proceeds, Sends
<1>3. step'[w] \in Engaged => HoldsRow(w)'
  <2>1. ASSUME NEW s,
               \/ step[w] = "compose" /\ s \in {"send", "fail"}
               \/ step[w] = "send" /\ s \in {"record", "fail"},
               GoesOn(w, s)
        PROVE  HoldsRow(w)'
    BY <1>2, <2>1, HoldsRowOn
  <2>2. QED
    BY <2>1 DEF GivesUp, Proceeds, Sends, PutsDown, GoesOn, Engaged
<1>4. QED
  BY <1>1, <1>2, <1>3, FenceRest

LEMMA FenceWritten ==
  ASSUME SendInv, FenceInv, NEW w \in Workers, Fenced(w)
  PROVE  FenceInv'
<1> DEFINE q == row[job[w].id]
<1>1. OnlyMoves(w) /\ Held(w)' \subseteq Held(w) /\ ClaimsDistinct'
  BY CasesMove DEF FenceInv
<1>2. step[w] \notin {"idle", "claim"}
  BY DEF Fenced
<1>3. q \in Row /\ row \in [Reminders -> Row] /\ job[w].id \in Reminders
  BY <1>2, OwnedRow DEF SendInv, TypeOK
<1>4. PutsDown(w) => step'[w] \notin Engaged
  BY DEF PutsDown, Engaged
<1>5. ASSUME NEW p, Writes(w, p)
      PROVE  row'[job[w].id] = p
  BY <1>3, <1>5 DEF Writes, Write
<1>6. CASE step[w] = "renew" /\ GoesOn(w, "prepare") /\ Writes(w, Renewed(w, q))
  <2> DEFINE p == Renewed(w, q)
  <2> HIDE DEF p
  <2>1. /\ p.status = q.status /\ p.state = q.state /\ p.token = q.token
        /\ p.issued = q.issued /\ p.remindAt = q.remindAt
    BY <1>3, RenewedFields DEF p
  <2>2. HoldsRow(w)'
    BY <1>6, RenewedHolds
  <2>3. Writes(w, p)
    BY <1>6 DEF p
  <2>4. QED
    BY <1>1, <1>2, <2>1, <2>2, <2>3, FenceWrite
<1>7. CASE step[w] = "prepare" /\ GoesOn(w, "compose") /\ Writes(w, Prepared(q))
  <2> DEFINE p == Prepared(q)
  <2> HIDE DEF p
  <2>1. /\ p.status = q.status /\ p.state = q.state /\ p.token = q.token
        /\ p.lease = q.lease /\ p.issued = q.issued /\ p.remindAt = q.remindAt
    BY <1>3, PreparedFields DEF p
  <2>2. Writes(w, p) /\ row'[job[w].id] = p
    BY <1>5, <1>7 DEF p
  <2>3. HoldsRow(w)'
    BY <1>7, <2>1, <2>2, HoldsRowOn
  <2>4. QED
    BY <1>1, <1>2, <2>1, <2>2, <2>3, FenceWrite
<1>8. CASE step[w] = "record" /\ GoesOn(w, "finalize") /\ Writes(w, Recorded(w, q))
  <2> DEFINE p == Recorded(w, q)
  <2> HIDE DEF p
  <2>1. /\ p.status = q.status /\ p.state = q.state /\ p.token = q.token
        /\ p.lease = q.lease /\ p.issued = q.issued /\ p.remindAt = q.remindAt
    BY <1>3, RecordedFields DEF p
  <2>2. Writes(w, p) /\ row'[job[w].id] = p
    BY <1>5, <1>8 DEF p
  <2>3. HoldsRow(w)'
    BY <1>8, <2>1, <2>2, HoldsRowOn
  <2>4. QED
    BY <1>1, <1>2, <2>1, <2>2, <2>3, FenceWrite
<1>9. ASSUME NEW p, PutsDown(w), Writes(w, p), p.issued = q.issued,
             p.status # "processing"
      PROVE  FenceInv'
  BY <1>1, <1>2, <1>4, <1>9, FenceWrite
<1>10. CASE PutsDown(w) /\ Writes(w, DeliveredRow(q))
  BY <1>3, <1>9, <1>10, DeliveredFields
<1>11. ASSUME NEW n \in Nat, PutsDown(w), Writes(w, AdvancedRow(q, n))
       PROVE  FenceInv'
  BY <1>3, <1>9, <1>11, AdvancedFields
<1>12. CASE PutsDown(w) /\ Writes(w, GivenUp(q))
  <2>1. GivenUp(q).issued = q.issued /\ GivenUp(q).status = "failed"
    BY <1>3, FailedFields
  <2>2. QED
    BY <1>9, <1>12, <2>1
<1>13. ASSUME NEW t \in Nat, PutsDown(w), Writes(w, Retried(q, t))
       PROVE  FenceInv'
  BY <1>3, <1>9, <1>13, FailedFields
<1>14. QED
  BY <1>6, <1>7, <1>8, <1>10, <1>11, <1>12, <1>13 DEF Fenced

LEMMA InitFence == Init => FenceInv
<1> SUFFICES ASSUME Init PROVE FenceInv
  OBVIOUS
<1>1. \A q \in InitialRows : q.status # "processing"
  BY DEF InitialRows, NewRow
<1>2. QED
  BY <1>1 DEF Init, FenceInv, ProcessingRows, ClaimsCurrent, ClaimsDistinct, RowsHeld,
              Held, Engaged

LEMMA NextFence == SendInv /\ FenceInv /\ [Next]_vars => FenceInv'
<1> SUFFICES ASSUME SendInv, FenceInv, [Next]_vars PROVE FenceInv'
  OBVIOUS
<1>1. CASE Tick \/ \E r \in Reminders : CancelReminder(r)
  BY <1>1, FenceTickCancel
<1>2. ASSUME NEW w \in Workers, ClaimDueReminders(w)
      PROVE  FenceInv'
  BY <1>2, ClaimCase, FenceClaim
<1>3. ASSUME NEW w \in Workers,
             \/ WorkerStep(w) /\ ~ClaimDueReminders(w)
             \/ StopRequested(w) \/ DatabaseError(w) \/ Crash(w)
      PROVE  FenceInv'
  BY <1>3, WorkerCases, FenceUnwritten, FenceWritten
<1>4. CASE UNCHANGED vars
  BY <1>4 DEF vars, FenceInv, ProcessingRows, ClaimsCurrent, ClaimsDistinct, RowsHeld,
              HoldsRow, Current, Held
<1>5. QED
  BY <1>1, <1>2, <1>3, <1>4 DEF Next, WorkerStep

LEMMA FenceInvariant == Spec => []FenceInv
<1>1. QED
  BY SendInvariant, InitFence, NextFence, PTL DEF Spec

-----------------------------------------------------------------------------
(* What a step leaves alone of the rows other workers hold                  *)

LEMMA ClaimLeavesHeld ==
  ASSUME SendInv, FenceInv, NEW w \in Workers, NEW taken \in SUBSET Reminders,
         NEW spent \in SUBSET Reminders, Claims(w, taken, spent),
         NEW v \in Workers, step'[v] \in Engaged
  PROVE  /\ v # w /\ step'[v] = step[v] /\ now'[v] = now[v] /\ job'[v] = job[v]
         /\ job[v].id \in Reminders /\ row'[job[v].id] = row[job[v].id]
<1>1. v # w /\ step'[v] = step[v] /\ now'[v] = now[v] /\ job'[v] = job[v]
  BY DEF Claims, OnlyMoves, Engaged
<1>2. ~Claimable(row[job[v].id], now[w]) /\ job[v].id \in Reminders
  BY <1>1, HeldRowFenced, EngagedHolds DEF FenceInv
<1>3. QED
  BY <1>1, <1>2 DEF Claims

LEMMA WriteLeavesHeld ==
  ASSUME SendInv, FenceInv, NEW w \in Workers, Fenced(w),
         NEW v \in Workers, v # w, step'[v] \in Engaged
  PROVE  /\ step'[v] = step[v] /\ now'[v] = now[v] /\ job'[v] = job[v]
         /\ job[v].id \in Reminders /\ job[v].id # job[w].id
         /\ row'[job[v].id] = row[job[v].id]
<1>1. OnlyMoves(w) /\ OwnsLease(w) /\ step[w] \notin {"idle", "claim"}
  BY DEF Fenced, PutsDown, GoesOn, Writes
<1>2. step'[v] = step[v] /\ now'[v] = now[v] /\ job'[v] = job[v]
  BY <1>1 DEF OnlyMoves
<1>3. job[v].id \in Reminders /\ job[v].id # job[w].id
  BY <1>1, <1>2, FenceAlone, EngagedHolds
<1>4. \A r \in Reminders : r # job[w].id => row'[r] = row[r]
  BY DEF SendInv, TypeOK, Fenced, Writes, Write
<1>5. QED
  BY <1>2, <1>3, <1>4

-----------------------------------------------------------------------------
(* MessageInv                                                               *)

LEMMA InboxType ==
  ASSUME SendInv, NEW m \in inbox
  PROVE  m.id \in Reminders /\ m.occ \in Nat /\ m.token \in Nat
         /\ m = [id |-> m.id, occ |-> m.occ, token |-> m.token]
         /\ row[m.id] \in Row
  BY DEF SendInv, TypeOK, Message

LEMMA UnsentHeld == \A w \in Workers : Unsent(w) \subseteq Held(w)
  BY DEF Unsent, Held

LEMMA UnsentKept ==
  ASSUME NEW w \in Workers, OnlyMoves(w), NEW v \in Workers, v # w
  PROVE  Unsent(v)' = Unsent(v)
  BY DEF OnlyMoves, Unsent

\* The user cancels reminders, or nothing happens to the workers.
LEMMA MessageStill ==
  ASSUME SendInv, MessageInv,
         step' = step, job' = job, batch' = batch, inbox' = inbox, lost' = lost,
         \A r \in Reminders : row'[r] = row[r] \/ row'[r] = Cancelled(row[r], clock)
  PROVE  MessageInv'
<1>1. ASSUME NEW r \in Reminders
      PROVE  /\ row'[r].issued = row[r].issued /\ row'[r].remindAt = row[r].remindAt
             /\ row'[r].lastMsg = row[r].lastMsg /\ row'[r].lastOcc = row[r].lastOcc
             /\ row'[r].state \in {row[r].state, "cancelled"}
  <2>1. clock \in Nat /\ row[r] \in Row
    BY DEF SendInv, TypeOK
  <2>2. QED
    BY <2>1, CancelledFields
<1>2. /\ \A m \in inbox : m.id \in Reminders
      /\ \A w \in Workers : step[w] = "finalize" => job[w].id \in Reminders
  BY InboxType, OwnedRow DEF SendInv
<1>3. UnsentClaims' /\ MessagesPast' /\ SentArrived' /\ ResendsLost'
  BY <1>1, <1>2
     DEF MessageInv, UnsentClaims, Unsent, MessagesPast, SentArrived, ResendsLost
<1>4. UnlostAccounted'
  BY <1>1, <1>2 DEF MessageInv, UnlostAccounted, Accounted
<1>5. IdentityRecorded' /\ DuplicateNeedsLoss' /\ IdentityIsReal'
  BY <1>1, <1>2 DEF MessageInv, IdentityRecorded, DuplicateNeedsLoss, IdentityIsReal
<1>6. QED
  BY <1>3, <1>4, <1>5 DEF MessageInv

LEMMA MessageClaim ==
  ASSUME SendInv, FenceInv, MessageInv, NEW w \in Workers, NEW taken \in SUBSET Reminders,
         NEW spent \in SUBSET Reminders, Claims(w, taken, spent)
  PROVE  MessageInv'
<1>1. /\ row \in [Reminders -> Row] /\ now[w] \in Nat /\ OnlyMoves(w)
      /\ step[w] = "claim" /\ step'[w] \in {"idle", "renew"}
      /\ inbox' = inbox /\ lost' = lost
  BY DEF SendInv, TypeOK, Claims
<1>2. ASSUME NEW r \in Reminders
      PROVE  /\ row'[r].issued \in {row[r].issued, row[r].issued + 1}
             /\ row'[r].remindAt = row[r].remindAt
             /\ \/ row'[r].lastMsg = Null
                \/ row'[r].lastMsg = row[r].lastMsg /\ row'[r].lastOcc = row[r].lastOcc
             /\ ~Claimable(row[r], now[w]) => row'[r] = row[r]
             /\ row[r].state \in {"cancelled", "delivered"} => row'[r] = row[r]
  <2>1. row'[r] \in {row[r], Exhausted(row[r]), Claimed(row[r], now[w])}
    BY <1>2 DEF Claims
  <2>2. ~Claimable(row[r], now[w]) => row'[r] = row[r]
    BY <1>2 DEF Claims
  <2>3. row[r] \in Row
    BY <1>1, <1>2
  <2>4. LET p == Exhausted(row[r])
        IN p.issued = row[r].issued /\ p.remindAt = row[r].remindAt /\ p.lastMsg = Null
    BY <2>3, ExhaustedFields
  <2>5. LET p == Claimed(row[r], now[w])
        IN p.issued = row[r].issued + 1 /\ p.remindAt = row[r].remindAt
           /\ p.lastMsg = Null
    BY <1>1, <2>3, ClaimedFields
  <2>6. row[r].state \in {"cancelled", "delivered"} => ~Claimable(row[r], now[w])
    BY DEF Claimable, Live
  <2>7. CASE row'[r] = row[r]
    BY <2>7
  <2>8. CASE row'[r] = Exhausted(row[r])
    BY <2>2, <2>4, <2>6, <2>8
  <2>9. CASE row'[r] = Claimed(row[r], now[w])
    BY <2>2, <2>5, <2>6, <2>9
  <2>10. QED
    BY <2>1, <2>7, <2>8, <2>9
<1>3. ASSUME NEW v \in Workers, step'[v] \in Engaged
      PROVE  /\ v # w /\ step'[v] = step[v] /\ job'[v] = job[v]
             /\ job[v].id \in Reminders /\ row'[job[v].id] = row[job[v].id]
  BY <1>3, ClaimLeavesHeld
<1>4. UnsentClaims'
  <2>1. ASSUME NEW c \in Held(w)'
        PROVE  AsMessage(c) \notin inbox
    <3>1. PICK r \in taken : c = ClaimOf(r)
      BY DEF Claims
    <3>2. r \in Reminders /\ row[r].issued \in Nat
      BY <1>1 DEF Row
    <3>3. AsMessage(c).id = r /\ AsMessage(c).token = row[r].issued + 1
      BY <3>1 DEF AsMessage, ClaimOf
    <3>4. QED
      BY <3>2, <3>3, InboxType DEF MessageInv, MessagesPast
  <2>2. Unsent(w)' \subseteq Held(w)'
    BY DEF Unsent, Held
  <2>3. QED
    BY <1>1, <2>1, <2>2, UnsentKept DEF MessageInv, UnsentClaims
<1>5. MessagesPast'
  <2>1. ASSUME NEW m \in inbox
        PROVE  m.token <= row'[m.id].issued /\ m.occ <= row'[m.id].remindAt
    <3>1. m.id \in Reminders /\ m.token \in Nat /\ row[m.id].issued \in Nat
      BY InboxType DEF Row
    <3>2. m.token <= row[m.id].issued /\ m.occ <= row[m.id].remindAt
      BY DEF MessageInv, MessagesPast
    <3>3. QED
      BY <1>2, <3>1, <3>2
  <2>2. QED
    BY <1>1, <2>1 DEF MessagesPast
<1>6. SentArrived' /\ ResendsLost' /\ IdentityRecorded'
  BY <1>1, <1>3
     DEF MessageInv, SentArrived, ResendsLost, IdentityRecorded, Engaged, Sending
<1>7. UnlostAccounted'
  <2>1. ASSUME NEW m \in inbox, m \notin lost
        PROVE  Accounted(m)'
    <3>1. m.id \in Reminders /\ Accounted(m)
      BY <2>1, InboxType DEF MessageInv, UnlostAccounted
    <3>2. CASE row[m.id].state \in {"cancelled", "delivered"}
      BY <1>2, <3>1, <3>2 DEF Accounted
    <3>3. CASE row[m.id].remindAt > m.occ
      BY <1>2, <3>1, <3>3 DEF Accounted
    <3>4. ASSUME NEW v \in Workers, step[v] \in {"record", "finalize"}, AsMessage(job[v]) = m
          PROVE  Accounted(m)'
      <4>1. v # w
        BY <1>1, <3>4
      <4>2. step'[v] = step[v] /\ job'[v] = job[v]
        BY <1>1, <4>1 DEF OnlyMoves
      <4>3. QED
        BY <3>4, <4>2 DEF Accounted, AsMessage
    <3>5. QED
      BY <3>1, <3>2, <3>3, <3>4 DEF Accounted
  <2>2. QED
    BY <1>1, <2>1 DEF UnlostAccounted
<1>8. DuplicateNeedsLoss' /\ IdentityIsReal'
  BY <1>1, <1>2 DEF MessageInv, DuplicateNeedsLoss, IdentityIsReal
<1>9. QED
  BY <1>4, <1>5, <1>6, <1>7, <1>8 DEF MessageInv

\* A message that waits for another worker to record it still waits for it.
LEMMA AccountedKept ==
  ASSUME NEW w \in Workers, OnlyMoves(w), NEW m, Accounted(m),
         row[m.id].state \in {"cancelled", "delivered"} =>
           row'[m.id].state \in {"cancelled", "delivered"},
         row[m.id].remindAt > m.occ => row'[m.id].remindAt > m.occ,
         step[w] \in {"record", "finalize"} /\ AsMessage(job[w]) = m => Accounted(m)'
  PROVE  Accounted(m)'
<1>1. ASSUME NEW v \in Workers, v # w, step[v] \in {"record", "finalize"},
             AsMessage(job[v]) = m
      PROVE  Accounted(m)'
  BY <1>1 DEF OnlyMoves, Accounted, AsMessage
<1>2. QED
  BY <1>1 DEF Accounted

LEMMA MessageUnwritten ==
  ASSUME SendInv, FenceInv, MessageInv, NEW w \in Workers, GivesUp(w) \/ Proceeds(w)
  PROVE  MessageInv'
<1>1. /\ OnlyMoves(w) /\ row' = row /\ inbox' = inbox /\ lost \subseteq lost'
      /\ step'[w] \notin {"record", "finalize", "prepare", "compose"}
      /\ step'[w] = "send" => step[w] = "compose" /\ job'[w] = job[w]
  BY DEF GivesUp, Proceeds, PutsDown, GoesOn
<1>2. ASSUME NEW v \in Workers, v # w
      PROVE  step'[v] = step[v] /\ job'[v] = job[v]
  BY <1>1, <1>2 DEF OnlyMoves
<1>3. UnsentClaims'
  <2>1. Unsent(w)' \subseteq Unsent(w)
    BY DEF GivesUp, Proceeds, PutsDown, GoesOn, Unsent
  <2>2. QED
    BY <1>1, <2>1, UnsentKept DEF MessageInv, UnsentClaims
<1>4. MessagesPast' /\ DuplicateNeedsLoss' /\ IdentityIsReal'
  BY <1>1 DEF MessageInv, MessagesPast, DuplicateNeedsLoss, IdentityIsReal
<1>5. SentArrived' /\ ResendsLost' /\ IdentityRecorded'
  BY <1>1, <1>2
     DEF MessageInv, SentArrived, ResendsLost, IdentityRecorded, Sending
<1>6. UnlostAccounted'
  <2>1. ASSUME NEW m \in inbox, m \notin lost'
        PROVE  Accounted(m)'
    <3>1. Accounted(m)
      BY <1>1, <2>1 DEF MessageInv, UnlostAccounted
    <3>2. ASSUME step[w] \in {"record", "finalize"}, AsMessage(job[w]) = m
          PROVE  Accounted(m)'
      <4>1. ~OwnsLease(w)
        BY <2>1, <3>2 DEF GivesUp, Proceeds
      <4>2. row[job[w].id].state = "cancelled"
        BY <3>2, <4>1, HeldRowFenced DEF FenceInv, Engaged
      <4>3. job[w].id = m.id
        BY <3>2 DEF AsMessage
      <4>4. QED
        BY <1>1, <4>2, <4>3 DEF Accounted
    <3>3. QED
      BY <1>1, <3>1, <3>2, AccountedKept
  <2>2. QED
    BY <1>1, <2>1 DEF UnlostAccounted
<1>7. QED
  BY <1>3, <1>4, <1>5, <1>6 DEF MessageInv

LEMMA MessageSends ==
  ASSUME SendInv, FenceInv, MessageInv, NEW w \in Workers, Sends(w)
  PROVE  MessageInv'
<1> DEFINE m0 == AsMessage(job[w])
           q == row[job[w].id]
<1>1. /\ OnlyMoves(w) /\ row' = row /\ inbox' = inbox \union {m0}
      /\ step[w] = "send" /\ step'[w] \in {"record", "fail", "idle", "renew"}
      /\ step'[w] = "record" => job'[w] = job[w] /\ lost' = lost
      /\ lost' = lost \union {m0} \/ step'[w] = "record"
      /\ lost \subseteq lost'
  BY DEF Sends, PutsDown, GoesOn
<1>2. /\ m0.id = job[w].id /\ m0.occ = q.remindAt /\ m0.token = q.issued
      /\ m0.occ = job[w].occ /\ m0.token = job[w].token
      /\ job[w] \in Held(w) /\ job[w].id \in Reminders /\ q \in Row
      /\ m0.token \in Nat /\ m0.occ \in Nat
  <2>1. HoldsRow(w) /\ step[w] \in Engaged
    BY <1>1 DEF FenceInv, RowsHeld, Engaged
  <2>2. QED
    BY <2>1, EngagedHolds DEF HoldsRow, AsMessage, Row
<1>3. ASSUME NEW v \in Workers, v # w
      PROVE  step'[v] = step[v] /\ job'[v] = job[v]
  BY <1>1, <1>3 DEF OnlyMoves
<1>4. UnsentClaims'
  <2>1. ASSUME NEW v \in Workers, v # w, NEW c \in Unsent(v)
        PROVE  AsMessage(c) # m0
    <3>1. c \in Held(v)
      BY UnsentHeld
    <3>2. ~(c.id = job[w].id /\ c.token = job[w].token)
      BY <1>2, <2>1, <3>1 DEF SendInv, TokensUnshared
    <3>3. AsMessage(c).id = c.id /\ AsMessage(c).token = c.token
      BY DEF AsMessage
    <3>4. QED
      BY <1>2, <3>2, <3>3
  <2>2. ASSUME NEW c \in batch[w]
        PROVE  AsMessage(c) # m0
    <3>1. c \in Held(w) /\ c # job[w]
      BY <1>1 DEF Held, FenceInv, ClaimsDistinct
    <3>2. c.id # job[w].id
      BY <1>2, <3>1 DEF FenceInv, ClaimsDistinct
    <3>3. QED
      BY <1>2, <3>2 DEF AsMessage
  <2>3. Unsent(w)' \subseteq batch[w] /\ batch[w] \subseteq Unsent(w)
    BY <1>1 DEF Sends, PutsDown, GoesOn, Unsent
  <2>4. \A v \in Workers : \A c \in Unsent(v)' : c \in Unsent(v) /\ AsMessage(c) # m0
    BY <1>1, <2>1, <2>2, <2>3, UnsentKept
  <2>5. QED
    BY <1>1, <2>4 DEF MessageInv, UnsentClaims
<1>5. MessagesPast'
  <2>1. m0.token <= row[m0.id].issued /\ m0.occ <= row[m0.id].remindAt
    BY <1>2
  <2> HIDE DEF m0
  <2>2. QED
    BY <1>1, <2>1 DEF MessageInv, MessagesPast
<1>6. SentArrived'
  <2>1. step'[w] # "finalize" /\ (step'[w] = "record" => AsMessage(job[w])' = m0)
    BY <1>1 DEF AsMessage
  <2>2. ASSUME NEW v \in Workers, v # w
        PROVE  AsMessage(job[v])' = AsMessage(job[v])
    BY <1>3, <2>2 DEF AsMessage
  <2>3. QED
    BY <1>1, <1>3, <2>1, <2>2 DEF MessageInv, SentArrived
<1>7. UnlostAccounted'
  <2>1. ASSUME NEW m \in inbox, m \notin lost'
        PROVE  Accounted(m)'
    <3>1. Accounted(m)
      BY <1>1, <2>1 DEF MessageInv, UnlostAccounted
    <3>2. QED
      BY <1>1, <3>1, AccountedKept
  <2>2. m0 \notin lost' => Accounted(m0)'
    BY <1>1 DEF Accounted, AsMessage
  <2>3. QED
    BY <1>1, <2>1, <2>2 DEF UnlostAccounted
<1>8. ResendsLost'
  <2>1. ASSUME NEW v \in Workers, step'[v] \in Sending
        PROVE  /\ v # w /\ step[v] \in Sending /\ job'[v] = job[v] /\ job[v].id # m0.id
    <3>1. v # w /\ step[v] \in Sending /\ job'[v] = job[v]
      BY <1>1, <1>3, <2>1 DEF Sending
    <3>2. job[v].id # job[w].id
      BY <1>1, <3>1 DEF SendInv, SendExclusion, Sending
    <3>3. QED
      BY <1>2, <3>1, <3>2
  <2>2. QED
    BY <1>1, <2>1 DEF MessageInv, ResendsLost
<1>9. DuplicateNeedsLoss'
  <2>1. ASSUME NEW m \in inbox
        PROVE  /\ m.id = m0.id => m.token <= m0.token
               /\ m.id = m0.id /\ m.occ = m0.occ /\ m.token < m0.token => m \in lost
    BY <1>1, <1>2 DEF MessageInv, MessagesPast, ResendsLost, Sending
  <2>2. ASSUME NEW m1 \in inbox', NEW m2 \in inbox', m1.id = m2.id, m1.occ = m2.occ,
               m1.token < m2.token
        PROVE  m1 \in lost'
    <3>1. CASE m1 \in inbox /\ m2 \in inbox
      BY <1>1, <2>2, <3>1 DEF MessageInv, DuplicateNeedsLoss
    <3>2. CASE m1 \in inbox /\ m2 = m0
      BY <1>1, <2>1, <2>2, <3>2
    <3>3. CASE m1 = m0 /\ m2 \in inbox
      BY <1>2, <2>1, <2>2, <3>3, InboxType
    <3>4. CASE m1 = m0 /\ m2 = m0
      BY <1>2, <2>2, <3>4
    <3>5. QED
      BY <1>1, <3>1, <3>2, <3>3, <3>4
  <2>3. QED
    BY <2>2 DEF DuplicateNeedsLoss
<1>10. IdentityRecorded' /\ IdentityIsReal'
  BY <1>1, <1>3 DEF MessageInv, IdentityRecorded, IdentityIsReal
<1>11. QED
  BY <1>4, <1>5, <1>6, <1>7, <1>8, <1>9, <1>10 DEF MessageInv

\* A worker that passes the fence finds every earlier message for its occurrence
\* lost, but the one it sent itself.
LEMMA FencedFinds ==
  ASSUME SendInv, FenceInv, MessageInv, NEW w \in Workers, Fenced(w),
         NEW m \in inbox, m.id = job[w].id, m.occ = job[w].occ, m \notin lost
  PROVE  step[w] \in {"record", "finalize"} /\ m = AsMessage(job[w])
<1> DEFINE q == row[job[w].id]
<1>1. OwnsLease(w) /\ step[w] \notin {"idle", "claim"}
  BY DEF Fenced, Writes
<1>2. job[w] \in Held(w) /\ job[w].id \in Reminders /\ q \in Row
  BY <1>1, OwnedRow DEF Held
<1>3. q.state \in Live /\ q.remindAt = job[w].occ
  BY <1>1, <1>2 DEF OwnsLease, FenceInv, ClaimsCurrent, Current
<1>4. PICK v \in Workers : step[v] \in {"record", "finalize"} /\ AsMessage(job[v]) = m
  <2>1. Accounted(m) /\ m.occ \in Nat
    BY InboxType DEF MessageInv, UnlostAccounted
  <2>2. ~(q.remindAt > m.occ)
    BY <1>3, <2>1
  <2>3. QED
    BY <1>3, <2>1, <2>2 DEF Accounted, Live
<1>5. job[v].id = job[w].id
  BY <1>4 DEF AsMessage
<1>6. v = w
  BY <1>1, <1>4, <1>5, FenceAlone DEF Engaged
<1>7. QED
  BY <1>4, <1>6

\* What a fenced write has to respect.
LEMMA MessageWrite ==
  ASSUME SendInv, FenceInv, MessageInv, NEW w \in Workers, Fenced(w),
         NEW p, Writes(w, p),
         p.issued = row[job[w].id].issued, p.remindAt \in Nat,
         p.remindAt >= row[job[w].id].remindAt,
         \/ p.lastMsg = Null
         \/ p.lastMsg = row[job[w].id].lastMsg /\ p.lastOcc = row[job[w].id].lastOcc
         \/ /\ step[w] \in {"record", "finalize"}
            /\ p.lastMsg = job[w].token /\ p.lastOcc = job[w].occ,
         \/ step[w] \notin {"record", "finalize"}
         \/ step[w] = "record" /\ GoesOn(w, "finalize")
         \/ p.state = "delivered" \/ p.remindAt > row[job[w].id].remindAt,
         step'[w] = "finalize" => p.lastMsg = job[w].token /\ p.lastOcc = job[w].occ
  PROVE  MessageInv'
<1> DEFINE q == row[job[w].id]
<1>1. /\ OnlyMoves(w) /\ step[w] \notin {"idle", "claim"} /\ OwnsLease(w)
      /\ inbox' = inbox /\ lost' = lost
      /\ step'[w] \in {"idle", "renew"} \/ job'[w] = job[w]
      /\ step'[w] \in {"idle", "renew", "prepare", "compose", "finalize"}
      /\ step'[w] = "prepare" => step[w] = "renew"
      /\ step'[w] = "compose" => step[w] = "prepare"
      /\ step'[w] = "finalize" => step[w] = "record"
  BY DEF Fenced, Writes, PutsDown, GoesOn
<1>2. /\ job[w].id \in Reminders /\ q \in Row /\ row'[job[w].id] = p
      /\ \A r \in Reminders : r # job[w].id => row'[r] = row[r]
      /\ q.state \in Live
  BY <1>1, OwnedRow DEF SendInv, TypeOK, Writes, Write, OwnsLease
<1>3. ASSUME NEW v \in Workers, v # w
      PROVE  step'[v] = step[v] /\ job'[v] = job[v] /\ AsMessage(job[v])' = AsMessage(job[v])
  BY <1>1, <1>3 DEF OnlyMoves, AsMessage
<1>4. ASSUME NEW v \in Workers, v # w, step[v] \in Engaged
      PROVE  job[v].id \in Reminders /\ row'[job[v].id] = row[job[v].id]
  BY <1>1, <1>3, <1>4, WriteLeavesHeld
<1>5. UnsentClaims'
  <2>1. Unsent(w)' \subseteq Unsent(w)
    BY DEF Fenced, PutsDown, GoesOn, Unsent
  <2>2. QED
    BY <1>1, <2>1, UnsentKept DEF MessageInv, UnsentClaims
<1>6. MessagesPast'
  <2>1. ASSUME NEW m \in inbox
        PROVE  m.token <= row'[m.id].issued /\ m.occ <= row'[m.id].remindAt
    <3>1. m.id \in Reminders /\ m.occ \in Nat /\ row[m.id].remindAt \in Nat
      BY InboxType DEF Row
    <3>2. m.token <= row[m.id].issued /\ m.occ <= row[m.id].remindAt
      BY DEF MessageInv, MessagesPast
    <3>3. QED
      BY <1>2, <3>1, <3>2
  <2>2. QED
    BY <1>1, <2>1 DEF MessagesPast
<1>7. SentArrived'
  <2>1. step'[w] \in {"record", "finalize"} =>
          step[w] = "record" /\ AsMessage(job[w])' = AsMessage(job[w])
    BY <1>1 DEF AsMessage
  <2>2. QED
    BY <1>1, <1>3, <2>1 DEF MessageInv, SentArrived
<1>8. UnlostAccounted'
  <2>1. ASSUME NEW m \in inbox, m \notin lost
        PROVE  Accounted(m)'
    <3>1. Accounted(m) /\ m.id \in Reminders /\ m.occ \in Nat /\ row[m.id].remindAt \in Nat
      BY <2>1, InboxType DEF MessageInv, UnlostAccounted, Row
    <3>2. row[m.id].state \in {"cancelled", "delivered"} =>
            row'[m.id].state \in {"cancelled", "delivered"}
      BY <1>2, <3>1 DEF Live
    <3>3. row[m.id].remindAt > m.occ => row'[m.id].remindAt > m.occ
      BY <1>2, <3>1
    <3>4. ASSUME step[w] \in {"record", "finalize"}, AsMessage(job[w]) = m
          PROVE  Accounted(m)'
      <4>1. m.id = job[w].id /\ m.occ <= q.remindAt
        BY <3>4 DEF AsMessage, MessageInv, MessagesPast
      <4>2. CASE step[w] = "record" /\ GoesOn(w, "finalize")
        BY <3>4, <4>2 DEF Accounted, GoesOn, AsMessage
      <4>3. CASE p.state = "delivered"
        BY <1>2, <4>1, <4>3 DEF Accounted
      <4>4. CASE p.remindAt > q.remindAt
        BY <1>2, <3>1, <4>1, <4>4 DEF Accounted
      <4>5. QED
        BY <3>4, <4>2, <4>3, <4>4
    <3>5. QED
      BY <1>1, <3>1, <3>2, <3>3, <3>4, AccountedKept
  <2>2. QED
    BY <1>1, <2>1 DEF UnlostAccounted
<1>9. ResendsLost'
  <2>1. ASSUME NEW m \in inbox, step'[w] \in Sending, m.id = job'[w].id,
               m.occ = job'[w].occ
        PROVE  m \in lost'
    BY <1>1, <2>1, FencedFinds DEF Sending
  <2>2. QED
    BY <1>1, <1>3, <2>1 DEF MessageInv, ResendsLost
<1>10. IdentityRecorded'
  <2>1. step'[w] = "finalize" => job'[w] = job[w]
    BY <1>1
  <2>2. QED
    BY <1>2, <1>3, <1>4, <2>1 DEF MessageInv, IdentityRecorded, Engaged
<1>11. DuplicateNeedsLoss'
  BY <1>1 DEF MessageInv, DuplicateNeedsLoss
<1>12. IdentityIsReal'
  <2>1. ASSUME p.lastMsg # Null
        PROVE  [id |-> job[w].id, occ |-> p.lastOcc, token |-> p.lastMsg] \in inbox
    BY <1>2, <2>1 DEF MessageInv, IdentityIsReal, SentArrived, AsMessage
  <2>2. QED
    BY <1>1, <1>2, <2>1 DEF MessageInv, IdentityIsReal
<1>13. QED
  BY <1>5, <1>6, <1>7, <1>8, <1>9, <1>10, <1>11, <1>12 DEF MessageInv

LEMMA MessageFenced ==
  ASSUME SendInv, FenceInv, MessageInv, NEW w \in Workers, Fenced(w)
  PROVE  MessageInv'
<1> DEFINE q == row[job[w].id]
<1>1. step[w] \notin {"idle", "claim"}
  BY DEF Fenced
<1>2. q \in Row /\ q.remindAt \in Nat
  BY <1>1, OwnedRow DEF SendInv, TypeOK, Row
<1>3. step'[w] = "finalize" =>
        step[w] = "record" /\ GoesOn(w, "finalize") /\ Writes(w, Recorded(w, q))
  BY DEF Fenced, PutsDown, GoesOn
<1>4. ASSUME NEW p, step'[w] # "finalize", Writes(w, p),
             p.issued = q.issued, p.remindAt = q.remindAt,
             step[w] \notin {"record", "finalize"},
             \/ p.lastMsg = Null
             \/ p.lastMsg = q.lastMsg /\ p.lastOcc = q.lastOcc
      PROVE  MessageInv'
  BY <1>2, <1>4, MessageWrite
<1>5. CASE step[w] = "renew" /\ GoesOn(w, "prepare") /\ Writes(w, Renewed(w, q))
  BY <1>2, <1>4, <1>5, RenewedFields DEF GoesOn
<1>6. CASE step[w] = "prepare" /\ GoesOn(w, "compose") /\ Writes(w, Prepared(q))
  BY <1>2, <1>4, <1>6, PreparedFields DEF GoesOn
<1>7. CASE step[w] = "record" /\ GoesOn(w, "finalize") /\ Writes(w, Recorded(w, q))
  <2> DEFINE p == Recorded(w, q)
  <2> HIDE DEF p
  <2>1. /\ p.issued = q.issued /\ p.remindAt = q.remindAt
        /\ p.lastMsg = job[w].token /\ p.lastOcc = job[w].occ
    BY <1>2, RecordedFields DEF p
  <2>2. Writes(w, p)
    BY <1>7 DEF p
  <2>3. QED
    BY <1>2, <1>7, <2>1, <2>2, MessageWrite
<1>8. ASSUME NEW p, step[w] = "finalize", PutsDown(w), Writes(w, p),
             p.issued = q.issued, p.remindAt \in Nat, p.lastMsg = q.lastMsg,
             p.lastOcc = IF q.lastOcc = Null THEN q.remindAt ELSE q.lastOcc,
             \/ p.state = "delivered" /\ p.remindAt = q.remindAt
             \/ p.remindAt > q.remindAt
      PROVE  MessageInv'
  <2>1. q.lastMsg = job[w].token /\ q.lastOcc = job[w].occ
    BY <1>8 DEF MessageInv, IdentityRecorded
  <2>2. q.remindAt = job[w].occ
    BY <1>8 DEF FenceInv, RowsHeld, HoldsRow, Engaged
  <2>3. p.lastMsg = job[w].token /\ p.lastOcc = job[w].occ
    BY <1>8, <2>1, <2>2
  <2>4. p.remindAt >= q.remindAt
    BY <1>2, <1>8
  <2>5. step'[w] # "finalize"
    BY <1>8 DEF PutsDown
  <2>6. QED
    BY <1>8, <2>3, <2>4, <2>5, MessageWrite
<1>9. CASE step[w] = "finalize" /\ PutsDown(w) /\ Writes(w, DeliveredRow(q))
  <2> DEFINE p == DeliveredRow(q)
  <2> HIDE DEF p
  <2>1. /\ p.state = "delivered" /\ p.issued = q.issued /\ p.remindAt = q.remindAt
        /\ p.lastMsg = q.lastMsg
        /\ p.lastOcc = IF q.lastOcc = Null THEN q.remindAt ELSE q.lastOcc
    BY <1>2, DeliveredFields DEF p
  <2>2. Writes(w, p)
    BY <1>9 DEF p
  <2>3. QED
    BY <1>2, <1>8, <1>9, <2>1, <2>2
<1>10. ASSUME NEW n \in Nat, n > q.remindAt, step[w] = "finalize", PutsDown(w),
              Writes(w, AdvancedRow(q, n))
       PROVE  MessageInv'
  <2> DEFINE p == AdvancedRow(q, n)
  <2> HIDE DEF p
  <2>1. /\ p.issued = q.issued /\ p.remindAt = n /\ p.lastMsg = q.lastMsg
        /\ p.lastOcc = IF q.lastOcc = Null THEN q.remindAt ELSE q.lastOcc
    BY <1>2, AdvancedFields DEF p
  <2>2. Writes(w, p)
    BY <1>10 DEF p
  <2>3. QED
    BY <1>8, <1>10, <2>1, <2>2
<1>11. CASE step[w] = "fail" /\ PutsDown(w) /\ Writes(w, GivenUp(q))
  <2>1. LET p == GivenUp(q)
        IN p.issued = q.issued /\ p.remindAt = q.remindAt /\ p.lastMsg = Null
    BY <1>2, FailedFields
  <2>2. QED
    BY <1>4, <1>11, <2>1 DEF PutsDown
<1>12. ASSUME NEW t \in Nat, step[w] = "fail", PutsDown(w), Writes(w, Retried(q, t))
       PROVE  MessageInv'
  <2>1. LET p == Retried(q, t)
        IN p.issued = q.issued /\ p.remindAt = q.remindAt /\ p.lastMsg = Null
    BY <1>2, FailedFields
  <2>2. QED
    BY <1>4, <1>12, <2>1 DEF PutsDown
<1>13. QED
  BY <1>5, <1>6, <1>7, <1>9, <1>10, <1>11, <1>12 DEF Fenced

LEMMA InitMessage == Init => MessageInv
<1> SUFFICES ASSUME Init PROVE MessageInv
  OBVIOUS
<1>1. \A r \in Reminders : row[r].lastMsg = Null
  BY DEF Init, InitialRows, NewRow
<1>2. QED
  BY <1>1 DEF Init, MessageInv, UnsentClaims, MessagesPast, SentArrived, UnlostAccounted,
              ResendsLost, IdentityRecorded, DuplicateNeedsLoss, IdentityIsReal, Sending

LEMMA NextMessage == SendInv /\ FenceInv /\ MessageInv /\ [Next]_vars => MessageInv'
<1> SUFFICES ASSUME SendInv, FenceInv, MessageInv, [Next]_vars PROVE MessageInv'
  OBVIOUS
<1>1. CASE Tick \/ UNCHANGED vars
  BY <1>1, MessageStill DEF Tick, vars, worker
<1>2. ASSUME NEW r \in Reminders, CancelReminder(r)
      PROVE  MessageInv'
  <2>1. row \in [Reminders -> Row] /\ row' = [row EXCEPT ![r] = Cancelled(row[r], clock)]
    BY <1>2 DEF SendInv, TypeOK, CancelReminder
  <2>2. \A s \in Reminders : row'[s] = row[s] \/ row'[s] = Cancelled(row[s], clock)
    BY <2>1
  <2>3. QED
    BY <1>2, <2>2, MessageStill DEF CancelReminder, worker
<1>3. ASSUME NEW w \in Workers, ClaimDueReminders(w)
      PROVE  MessageInv'
  BY <1>3, ClaimCase, MessageClaim
<1>4. ASSUME NEW w \in Workers,
             \/ WorkerStep(w) /\ ~ClaimDueReminders(w)
             \/ StopRequested(w) \/ DatabaseError(w) \/ Crash(w)
      PROVE  MessageInv'
  BY <1>4, WorkerCases, MessageUnwritten, MessageSends, MessageFenced
<1>5. QED
  BY <1>1, <1>2, <1>3, <1>4 DEF Next, WorkerStep

LEMMA MessageInvariant == Spec => []MessageInv
<1>1. QED
  BY SendInvariant, FenceInvariant, InitMessage, NextMessage, PTL DEF Spec

\* A user receives two messages for one occurrence only if the acknowledgement of
\* the first was lost: no race of workers, no lease that runs out in a waiting
\* batch and no cancellation duplicates one.
THEOREM DuplicatesNeedLoss == Spec => []DuplicateNeedsLoss
<1>1. MessageInv => DuplicateNeedsLoss
  BY DEF MessageInv
<1>2. QED
  BY <1>1, MessageInvariant, PTL

\* The message identity in a row is that of a message the user received for the
\* occurrence the row names: a stale worker never leaves its own there.
THEOREM IdentitiesAreReal == Spec => []IdentityIsReal
<1>1. MessageInv => IdentityIsReal
  BY DEF MessageInv
<1>2. QED
  BY <1>1, MessageInvariant, PTL

-----------------------------------------------------------------------------
(* Cancellation                                                             *)

\* A worker that loads the context of a cancelled reminder had prepared its
\* delivery before the cancellation.
ComposesUncancelled ==
  \A w \in Workers :
    step[w] = "compose" /\ row[job[w].id].state = "cancelled" =>
      now[w] <= row[job[w].id].cancelledAt

CancelInv == ComposesUncancelled /\ CancelStopsSends

LEMMA CancelUnwritten ==
  ASSUME SendInv, FenceInv, CancelInv, NEW w \in Workers,
         GivesUp(w) \/ Proceeds(w) \/ Sends(w)
  PROVE  CancelInv'
<1>1. /\ OnlyMoves(w) /\ row' = row /\ step'[w] # "compose"
      /\ step'[w] = "send" => step[w] = "compose" /\ GoesOn(w, "send")
  BY DEF GivesUp, Proceeds, Sends, PutsDown, GoesOn
<1>2. ComposesUncancelled'
  BY <1>1 DEF CancelInv, ComposesUncancelled, OnlyMoves
<1>3. ASSUME step'[w] = "send", row'[job'[w].id].state = "cancelled"
      PROVE  now'[w] <= row'[job'[w].id].cancelledAt + StepBound
  <2>1. /\ step[w] = "compose" /\ job'[w] = job[w] /\ now'[w] = clock
        /\ now[w] \in Nat /\ clock \in Nat /\ clock <= now[w] + StepBound
        /\ row[job[w].id].cancelledAt \in Nat
    BY <1>1, <1>3, EngagedHolds DEF GoesOn, Engaged, Patience, Row
  <2>2. now[w] <= row[job[w].id].cancelledAt
    BY <1>1, <1>3, <2>1 DEF CancelInv, ComposesUncancelled
  <2>3. QED
    BY <1>1, <2>1, <2>2, LeaseAssumption
<1>4. CancelStopsSends'
  BY <1>1, <1>3 DEF CancelInv, CancelStopsSends, OnlyMoves
<1>5. QED
  BY <1>2, <1>4 DEF CancelInv

LEMMA CancelFenced ==
  ASSUME SendInv, FenceInv, CancelInv, NEW w \in Workers, Fenced(w)
  PROVE  CancelInv'
<1>1. ASSUME step'[w] \in {"compose", "send"}
      PROVE  step'[w] = "compose" /\ row'[job'[w].id].state # "cancelled"
  <2>1. /\ step[w] = "prepare" /\ GoesOn(w, "compose")
        /\ Writes(w, Prepared(row[job[w].id]))
    BY <1>1 DEF Fenced, PutsDown, GoesOn
  <2>2. job[w].id \in Reminders /\ row \in [Reminders -> Row] /\ row[job[w].id] \in Row
    BY <2>1, OwnedRow DEF SendInv, TypeOK
  <2>3. row'[job[w].id].state = row[job[w].id].state
    BY <2>1, <2>2, PreparedFields DEF Writes, Write
  <2>4. QED
    BY <2>1, <2>3 DEF GoesOn, Writes, OwnsLease, Live
<1>2. ASSUME NEW v \in Workers, step'[v] \in {"compose", "send"}, v # w
      PROVE  /\ step'[v] = step[v] /\ now'[v] = now[v] /\ job'[v] = job[v]
             /\ row'[job[v].id] = row[job[v].id]
  BY <1>2, WriteLeavesHeld DEF Engaged
<1>3. ComposesUncancelled'
  BY <1>1, <1>2 DEF CancelInv, ComposesUncancelled
<1>4. CancelStopsSends'
  BY <1>1, <1>2 DEF CancelInv, CancelStopsSends
<1>5. QED
  BY <1>3, <1>4 DEF CancelInv

LEMMA NextCancel == SendInv /\ FenceInv /\ CancelInv /\ [Next]_vars => CancelInv'
<1> SUFFICES ASSUME SendInv, FenceInv, CancelInv, [Next]_vars PROVE CancelInv'
  OBVIOUS
<1>1. CASE Tick \/ UNCHANGED vars
  BY <1>1 DEF Tick, vars, worker, CancelInv, ComposesUncancelled, CancelStopsSends
<1>2. ASSUME NEW r \in Reminders, CancelReminder(r)
      PROVE  CancelInv'
  <2> DEFINE q == Cancelled(row[r], clock)
  <2> HIDE DEF q
  <2>1. /\ row \in [Reminders -> Row] /\ row' = [row EXCEPT ![r] = q]
        /\ q.cancelledAt = clock /\ clock \in Nat
        /\ step' = step /\ now' = now /\ job' = job
    BY <1>2, CancelledFields DEF SendInv, TypeOK, CancelReminder, worker, q
  <2>2. ASSUME NEW w \in Workers
        PROVE  now[w] <= clock /\ now[w] <= clock + StepBound
    BY LeaseAssumption DEF SendInv, TypeOK, OnTime
  <2>3. \A w \in Workers : step[w] \in {"compose", "send"} => job[w].id \in Reminders
    BY OwnedRow DEF SendInv
  <2>4. ComposesUncancelled'
    BY <2>1, <2>2, <2>3 DEF CancelInv, ComposesUncancelled
  <2>5. CancelStopsSends'
    BY <2>1, <2>2, <2>3 DEF CancelInv, CancelStopsSends
  <2>6. QED
    BY <2>4, <2>5 DEF CancelInv
<1>3. ASSUME NEW w \in Workers, ClaimDueReminders(w)
      PROVE  CancelInv'
  <2>1. PICK taken, spent \in SUBSET Reminders : Claims(w, taken, spent)
    BY <1>3, ClaimCase
  <2>2. ASSUME NEW v \in Workers, step'[v] \in {"compose", "send"}
        PROVE  /\ step'[v] = step[v] /\ now'[v] = now[v] /\ job'[v] = job[v]
               /\ row'[job[v].id] = row[job[v].id]
    BY <2>1, <2>2, ClaimLeavesHeld DEF Engaged
  <2>3. QED
    BY <2>2 DEF CancelInv, ComposesUncancelled, CancelStopsSends
<1>4. ASSUME NEW w \in Workers,
             \/ WorkerStep(w) /\ ~ClaimDueReminders(w)
             \/ StopRequested(w) \/ DatabaseError(w) \/ Crash(w)
      PROVE  CancelInv'
  BY <1>4, WorkerCases, CancelUnwritten, CancelFenced
<1>5. QED
  BY <1>1, <1>2, <1>3, <1>4 DEF Next, WorkerStep

\* After /cancel no call to Telegram starts but one whose delivery was prepared
\* before, and that one within the time of one transaction.
THEOREM CancelStopsTheSends == Spec => []CancelStopsSends
<1>1. Init => CancelInv
  BY DEF Init, CancelInv, ComposesUncancelled, CancelStopsSends
<1>2. CancelInv => CancelStopsSends
  BY DEF CancelInv
<1>3. QED
  BY <1>1, <1>2, SendInvariant, FenceInvariant, NextCancel, PTL DEF Spec

-----------------------------------------------------------------------------
(* BudgetInv                                                                *)

LEMMA CopiesType ==
  ASSUME IsFiniteSet(inbox), NEW r
  PROVE  IsFiniteSet(CopiesOf(r)) /\ Copies(r) \in Nat
<1>1. CopiesOf(r) \in SUBSET inbox
  BY DEF CopiesOf
<1>2. QED
  BY <1>1, FS_Subset, FS_CardinalityType DEF Copies

LEMMA CopiesKept ==
  ASSUME inbox' = inbox, NEW r, row'[r].remindAt = row[r].remindAt
  PROVE  Copies(r)' = Copies(r)
  BY DEF Copies, CopiesOf

\* A message for an occurrence that is to come does not exist.
LEMMA CopiesOfNext ==
  ASSUME SendInv, MessageInv, inbox' = inbox, NEW r \in Reminders,
         row'[r].remindAt \in Nat, row'[r].remindAt > row[r].remindAt
  PROVE  Copies(r)' = 0
<1>1. ASSUME NEW m \in inbox, m.id = r, m.occ = row'[r].remindAt
      PROVE  FALSE
  <2>1. m.occ <= row[r].remindAt /\ row[r].remindAt \in Nat
    BY <1>1 DEF MessageInv, MessagesPast, SendInv, TypeOK, Row
  <2>2. QED
    BY <1>1, <2>1
<1>2. CopiesOf(r)' = {}
  BY <1>1 DEF CopiesOf
<1>3. QED
  BY <1>2, FS_EmptySet DEF Copies

\* What a call to Telegram that goes through adds, and the budget it had.
LEMMA CopySent ==
  ASSUME SendInv, FenceInv, MessageInv, BudgetInv, NEW w \in Workers, Sends(w),
         NEW r, r = job[w].id
  PROVE  /\ r \in Reminders
         /\ IsFiniteSet(inbox')
         /\ Copies(r)' = Copies(r) + 1
         /\ \A s : s # r => Copies(s)' = Copies(s)
         /\ Copies(r) < MaxAttempts
         /\ \/ row[r].state = "cancelled"
            \/ row[r].state \in Live /\ Copies(r) < row[r].attempts
<1> DEFINE m == AsMessage(job[w])
<1>1. /\ row' = row /\ inbox' = inbox \union {m} /\ step[w] = "send"
      /\ m.id = r /\ m.occ = job[w].occ
  BY DEF Sends, AsMessage
<1>2. r \in Reminders /\ HoldsRow(w)
  BY <1>1, EngagedHolds DEF FenceInv, RowsHeld, Engaged
<1>3. job[w] \in Unsent(w)
  BY <1>1 DEF Unsent
<1>4. m \notin inbox
  BY <1>3 DEF MessageInv, UnsentClaims
<1> HIDE DEF m
<1>5. CopiesOf(r)' = CopiesOf(r) \union {m} /\ m \notin CopiesOf(r)
  BY <1>1, <1>2, <1>4 DEF CopiesOf, HoldsRow
<1>6. Copies(r)' = Copies(r) + 1
  <2>1. IsFiniteSet(CopiesOf(r))
    BY CopiesType DEF BudgetInv
  <2>2. QED
    BY <1>5, <2>1, FS_AddElement DEF Copies
<1>7. ASSUME NEW s, s # r
      PROVE  Copies(s)' = Copies(s)
  <2>1. CopiesOf(s)' = CopiesOf(s)
    BY <1>1, <1>7 DEF CopiesOf
  <2>2. QED
    BY <2>1 DEF Copies
<1>8. IsFiniteSet(inbox')
  BY <1>1, FS_AddElement DEF BudgetInv
<1>9. Copies(r) < MaxAttempts
  BY <1>1 DEF BudgetInv, AttemptsSpare, Sending
<1>10. \/ row[r].state = "cancelled"
       \/ row[r].state \in Live /\ Copies(r) < row[r].attempts
  BY <1>2, <1>3 DEF HoldsRow, BudgetInv, AttemptsSpare, Current
<1>11. QED
  BY <1>2, <1>6, <1>7, <1>8, <1>9, <1>10

\* A step that neither writes rows nor sends.
LEMMA BudgetStill ==
  ASSUME BudgetInv, row' = row, inbox' = inbox,
         \A w \in Workers :
           /\ Unsent(w)' \subseteq Unsent(w)
           /\ step'[w] \in Sending => step[w] \in Sending /\ job'[w] = job[w]
  PROVE  BudgetInv'
<1>1. \A r : Copies(r)' = Copies(r)
  BY CopiesKept
<1>2. CopiesCounted' /\ IsFiniteSet(inbox')
  BY <1>1 DEF BudgetInv, CopiesCounted
<1>3. AttemptsSpare'
  BY <1>1 DEF BudgetInv, AttemptsSpare, Current
<1>4. QED
  BY <1>2, <1>3 DEF BudgetInv

LEMMA BudgetCancel ==
  ASSUME SendInv, BudgetInv, NEW r \in Reminders, CancelReminder(r)
  PROVE  BudgetInv'
<1> DEFINE q == Cancelled(row[r], clock)
<1> HIDE DEF q
<1>1. /\ row \in [Reminders -> Row] /\ row' = [row EXCEPT ![r] = q]
      /\ q.status = "sent" /\ q.state = "cancelled" /\ q.remindAt = row[r].remindAt
      /\ q.attempts = 0
      /\ step' = step /\ job' = job /\ batch' = batch /\ inbox' = inbox
  BY CancelledFields DEF SendInv, TypeOK, CancelReminder, worker, q
<1>2. \A s \in Reminders : Copies(s)' = Copies(s)
  BY <1>1, CopiesKept
<1>3. CopiesCounted' /\ IsFiniteSet(inbox')
  BY <1>1, <1>2, DataAssumption DEF BudgetInv, CopiesCounted, Live
<1>4. ASSUME NEW w \in Workers, NEW c \in Unsent(w)', Current(c)'
      PROVE  Copies(c.id)' < row'[c.id].attempts
  <2>1. c \in Unsent(w) /\ c.id \in Reminders
    BY <1>1, <1>4, UnsentHeld, HeldRow DEF Unsent
  <2>2. c.id # r
    BY <1>1, <1>4, <2>1 DEF Current
  <2>3. QED
    BY <1>1, <1>2, <1>4, <2>1, <2>2 DEF BudgetInv, AttemptsSpare, Current
<1>5. \A w \in Workers : step[w] \in Sending => job[w].id \in Reminders
  BY OwnedRow DEF SendInv, Sending
<1>6. AttemptsSpare'
  BY <1>1, <1>2, <1>4, <1>5 DEF BudgetInv, AttemptsSpare
<1>7. QED
  BY <1>3, <1>6 DEF BudgetInv

LEMMA BudgetClaim ==
  ASSUME SendInv, FenceInv, BudgetInv, NEW w \in Workers, NEW taken \in SUBSET Reminders,
         NEW spent \in SUBSET Reminders, Claims(w, taken, spent)
  PROVE  BudgetInv'
<1>1. /\ row \in [Reminders -> Row] /\ now[w] \in Nat /\ MaxAttempts \in Nat
      /\ OnlyMoves(w) /\ step'[w] \in {"idle", "renew"} /\ inbox' = inbox
  BY DataAssumption DEF SendInv, TypeOK, Claims
<1>2. ASSUME NEW r \in taken
      PROVE  /\ row[r].state \in Live /\ row'[r].state \in Live
             /\ row'[r].remindAt = row[r].remindAt
             /\ row'[r].attempts = row[r].attempts + 1
             /\ row[r].attempts \in Nat /\ row'[r].attempts <= MaxAttempts
  <2>1. /\ row'[r] = Claimed(row[r], now[w]) /\ row[r].state \in Live /\ row[r] \in Row
        /\ row[r].attempts < MaxAttempts
    BY <1>1 DEF Claims, Claimable
  <2>2. row[r].attempts \in Nat
    BY <2>1 DEF Row
  <2>3. QED
    BY <1>1, <2>1, <2>2, ClaimedFields
<1>3. ASSUME NEW r \in Reminders, r \notin taken
      PROVE  /\ row'[r].remindAt = row[r].remindAt /\ row'[r].attempts = row[r].attempts
             /\ row'[r].state \in {row[r].state, "failed"}
  BY <1>1, <1>3, ExhaustedFields DEF Claims
<1>4. \A r \in Reminders : Copies(r)' = Copies(r) /\ Copies(r) \in Nat
  BY <1>1, <1>2, <1>3, CopiesKept, CopiesType DEF BudgetInv
<1>5. CopiesCounted'
  <2>1. ASSUME NEW r \in taken
        PROVE  Copies(r) <= row'[r].attempts
    BY <1>2, <1>4 DEF BudgetInv, CopiesCounted
  <2>2. QED
    BY <1>2, <1>3, <1>4, <2>1 DEF BudgetInv, CopiesCounted, Live
<1>6. ASSUME NEW v \in Workers, NEW c \in Unsent(v)', Current(c)'
      PROVE  Copies(c.id)' < row'[c.id].attempts
  <2>1. CASE v = w
    <3>1. Unsent(w)' \subseteq Held(w)'
      BY DEF Unsent, Held
    <3>2. PICK r \in taken : c.id = r
      BY <1>6, <2>1, <3>1 DEF Claims, ClaimOf
    <3>3. QED
      BY <1>2, <1>4, <3>2 DEF BudgetInv, CopiesCounted
  <2>2. CASE v # w
    <3>1. c \in Unsent(v)
      BY <1>1, <1>6, <2>2, UnsentKept
    <3>2. c.id \in Reminders /\ row'[c.id] = row[c.id] /\ Current(c)
      BY <1>6, <3>1, UnsentHeld, ClaimsAreNew
    <3>3. QED
      BY <1>4, <3>1, <3>2 DEF BudgetInv, AttemptsSpare
  <2>3. QED
    BY <2>1, <2>2
<1>7. ASSUME NEW v \in Workers, step'[v] \in Sending
      PROVE  Copies(job[v].id)' < MaxAttempts
  <2>1. step'[v] = step[v] /\ job'[v] = job[v] /\ job[v].id \in Reminders
    BY <1>7, ClaimLeavesHeld DEF Sending, Engaged
  <2>2. Copies(job[v].id) < MaxAttempts
    BY <1>7, <2>1 DEF BudgetInv, AttemptsSpare
  <2>3. QED
    BY <1>4, <2>1, <2>2
<1>8. AttemptsSpare' /\ IsFiniteSet(inbox')
  BY <1>1, <1>6, <1>7 DEF AttemptsSpare, BudgetInv
<1>9. QED
  BY <1>5, <1>8 DEF BudgetInv

LEMMA BudgetSends ==
  ASSUME SendInv, FenceInv, MessageInv, BudgetInv, NEW w \in Workers, Sends(w)
  PROVE  BudgetInv'
<1>1. PICK r : r = job[w].id
  OBVIOUS
<1>2. /\ r \in Reminders /\ IsFiniteSet(inbox')
      /\ Copies(r)' = Copies(r) + 1
      /\ \A s : s # r => Copies(s)' = Copies(s)
      /\ Copies(r) < MaxAttempts
      /\ \/ row[r].state = "cancelled"
         \/ row[r].state \in Live /\ Copies(r) < row[r].attempts
  BY <1>1, CopySent
<1>3. /\ OnlyMoves(w) /\ row' = row /\ step[w] = "send"
      /\ step'[w] \notin Sending /\ Unsent(w)' \subseteq batch[w]
  BY DEF Sends, PutsDown, GoesOn, Sending, Unsent
<1>4. CopiesCounted'
  <2>1. /\ Copies(r) \in Nat /\ row[r].attempts \in Nat /\ MaxAttempts \in Nat
    BY <1>2, CopiesType, DataAssumption DEF BudgetInv, SendInv, TypeOK, Row
  <2>2. Copies(r)' <= MaxAttempts /\ (row[r].state \in Live => Copies(r)' <= row[r].attempts)
    BY <1>2, <2>1 DEF Live
  <2>3. QED
    BY <1>2, <1>3, <2>2 DEF BudgetInv, CopiesCounted
<1>5. ASSUME NEW v \in Workers, NEW c \in Unsent(v)', Current(c)'
      PROVE  c \in Unsent(v) /\ c.id # r
  <2>1. CASE v = w
    <3>1. c \in batch[w] /\ c \in Held(w) /\ job[w] \in Held(w) /\ c # job[w]
      BY <1>3, <1>5, <2>1 DEF Held, FenceInv, ClaimsDistinct
    <3>2. QED
      BY <1>1, <2>1, <3>1 DEF FenceInv, ClaimsDistinct, Unsent
  <2>2. CASE v # w
    <3>1. c \in Unsent(v) /\ c \in Held(v) /\ Current(c)
      BY <1>3, <1>5, <2>2, UnsentKept, UnsentHeld DEF Current
    <3>2. SUFFICES ASSUME c.id = r PROVE FALSE
      BY <3>1
    <3>3. row[r].token = job[w].token
      BY <1>1, <1>2, <1>3, <3>1, <3>2
         DEF FenceInv, RowsHeld, HoldsRow, ProcessingRows, Current, Engaged, Live
    <3>4. job[w] \in Held(w)
      BY <1>3 DEF Held
    <3>5. QED
      BY <1>1, <2>2, <3>1, <3>2, <3>3, <3>4 DEF Current, SendInv, TokensUnshared
  <2>3. QED
    BY <2>1, <2>2
<1>6. ASSUME NEW v \in Workers, step'[v] \in Sending
      PROVE  Copies(job[v].id)' < MaxAttempts
  <2>1. v # w /\ step'[v] = step[v] /\ job'[v] = job[v]
    BY <1>3, <1>6 DEF OnlyMoves
  <2>2. job[v].id # r
    BY <1>1, <1>3, <1>6, <2>1 DEF SendInv, SendExclusion, Sending
  <2>3. Copies(job[v].id) < MaxAttempts
    BY <1>6, <2>1 DEF BudgetInv, AttemptsSpare
  <2>4. QED
    BY <1>2, <2>1, <2>2, <2>3
<1>7. AttemptsSpare'
  <2>1. ASSUME NEW v \in Workers, NEW c \in Unsent(v)', Current(c)'
        PROVE  Copies(c.id)' < row'[c.id].attempts
    BY <1>2, <1>3, <1>5, <2>1 DEF BudgetInv, AttemptsSpare, Current
  <2>2. QED
    BY <1>6, <2>1 DEF AttemptsSpare
<1>8. QED
  BY <1>2, <1>4, <1>7 DEF BudgetInv

\* What a fenced write has to respect.
LEMMA BudgetWrite ==
  ASSUME SendInv, FenceInv, MessageInv, BudgetInv, NEW w \in Workers, Fenced(w),
         NEW p, Writes(w, p), p.remindAt \in Nat,
         \/ p.remindAt = row[job[w].id].remindAt /\ p.attempts = row[job[w].id].attempts
         \/ p.remindAt = row[job[w].id].remindAt /\ p.attempts = 0 /\ p.state = "delivered"
         \/ p.remindAt > row[job[w].id].remindAt /\ p.attempts = 0,
         p.status = "processing" =>
           /\ p.token = row[job[w].id].token
           /\ p.remindAt = row[job[w].id].remindAt
           /\ p.attempts = row[job[w].id].attempts
  PROVE  BudgetInv'
<1>1. PICK r : r = job[w].id
  OBVIOUS
<1>2. /\ OnlyMoves(w) /\ step[w] \notin {"idle", "claim"} /\ OwnsLease(w)
      /\ inbox' = inbox /\ Unsent(w)' \subseteq Unsent(w)
      /\ step'[w] \in Sending => step[w] \in {"renew", "prepare"} /\ job'[w] = job[w]
  BY DEF Fenced, Writes, PutsDown, GoesOn, Unsent, Sending
<1>3. /\ r \in Reminders /\ row[r] \in Row /\ row[r].attempts \in Nat /\ MaxAttempts \in Nat
      /\ row[r].state \in Live /\ row[r].status = "processing" /\ row[r].token = job[w].token
      /\ row'[r] = p
      /\ \A s \in Reminders : s # r => row'[s] = row[s]
  BY <1>1, <1>2, OwnedRow, DataAssumption
     DEF SendInv, TypeOK, Writes, Write, OwnsLease, Row
<1>4. \A s \in Reminders : s # r => Copies(s)' = Copies(s)
  BY <1>2, <1>3, CopiesKept
<1>5. \/ Copies(r)' = Copies(r) /\ p.remindAt = row[r].remindAt
      \/ Copies(r)' = 0 /\ p.attempts = 0 /\ p.status # "processing"
  <2>1. row[r].remindAt \in Nat
    BY <1>3 DEF Row
  <2>2. CASE p.remindAt = row[r].remindAt
    BY <1>2, <1>3, <2>2, CopiesKept
  <2>3. CASE p.remindAt > row[r].remindAt
    BY <1>1, <1>2, <1>3, <2>1, <2>3, CopiesOfNext
  <2>4. QED
    BY <1>1, <2>2, <2>3
<1>6. CopiesCounted' /\ IsFiniteSet(inbox')
  <2>1. Copies(r) <= MaxAttempts /\ Copies(r) <= row[r].attempts
        /\ row[r].attempts <= MaxAttempts /\ Copies(r) \in Nat
    BY <1>3, CopiesType DEF BudgetInv, CopiesCounted
  <2>2. /\ Copies(r)' <= MaxAttempts /\ p.attempts <= MaxAttempts
        /\ p.state \in Live => Copies(r)' <= p.attempts
    BY <1>1, <1>3, <1>5, <2>1 DEF Live
  <2>3. QED
    BY <1>2, <1>3, <1>4, <2>2 DEF BudgetInv, CopiesCounted
<1>7. ASSUME NEW v \in Workers, NEW c \in Unsent(v)', Current(c)'
      PROVE  Copies(c.id)' < row'[c.id].attempts
  <2>1. c \in Unsent(v) /\ c.id \in Reminders
    BY <1>2, <1>7, UnsentKept, UnsentHeld, HeldRow
  <2>2. CASE c.id # r
    BY <1>3, <1>4, <1>7, <2>1, <2>2 DEF BudgetInv, AttemptsSpare, Current
  <2>3. CASE c.id = r
    <3>1. /\ p.status = "processing" /\ c.token = p.token
          /\ p.token = row[r].token /\ p.attempts = row[r].attempts
          /\ Copies(r)' = Copies(r)
      BY <1>1, <1>3, <1>5, <1>7, <2>3 DEF Current
    <3>2. Current(c)
      BY <1>3, <2>3, <3>1 DEF Current
    <3>3. QED
      BY <1>3, <2>1, <2>3, <3>1, <3>2 DEF BudgetInv, AttemptsSpare
  <2>4. QED
    BY <2>2, <2>3
<1>8. ASSUME NEW v \in Workers, step'[v] \in Sending
      PROVE  Copies(job[v].id)' < MaxAttempts
  <2>1. CASE v = w
    <3>1. /\ step[w] \in {"renew", "prepare"} /\ job'[w] = job[w] /\ p.status = "processing"
      <4>1. \/ Writes(w, Renewed(w, row[job[w].id])) \/ Writes(w, Prepared(row[job[w].id]))
        BY <1>2, <1>8, <2>1 DEF Fenced, PutsDown, GoesOn, Sending
      <4>2. p \in {Renewed(w, row[job[w].id]), Prepared(row[job[w].id])}
        BY <1>1, <1>3, <4>1 DEF SendInv, TypeOK, Writes, Write
      <4>3. p.status = "processing"
        BY <1>1, <1>3, <4>2, RenewedFields, PreparedFields
      <4>4. QED
        BY <1>2, <1>8, <2>1, <4>3
    <3>2. job[w] \in Unsent(w) /\ Current(job[w])
      BY <1>1, <1>3, <3>1 DEF Unsent, Current
    <3>3. Copies(r) < row[r].attempts /\ row[r].attempts <= MaxAttempts /\ Copies(r) \in Nat
      BY <1>1, <1>3, <3>2, CopiesType DEF BudgetInv, AttemptsSpare, CopiesCounted
    <3>4. Copies(r)' = Copies(r)
      BY <1>5, <3>1
    <3>5. QED
      BY <1>1, <1>3, <2>1, <3>1, <3>3, <3>4
  <2>2. CASE v # w
    <3>1. step'[v] = step[v] /\ job'[v] = job[v]
          /\ job[v].id \in Reminders /\ job[v].id # job[w].id
      BY <1>8, <2>2, WriteLeavesHeld DEF Sending, Engaged
    <3>2. Copies(job[v].id) < MaxAttempts
      BY <1>8, <3>1 DEF BudgetInv, AttemptsSpare
    <3>3. QED
      BY <1>1, <1>4, <3>1, <3>2
  <2>3. QED
    BY <2>1, <2>2
<1>9. AttemptsSpare'
  BY <1>7, <1>8 DEF AttemptsSpare
<1>10. QED
  BY <1>6, <1>9 DEF BudgetInv

LEMMA BudgetFenced ==
  ASSUME SendInv, FenceInv, MessageInv, BudgetInv, NEW w \in Workers, Fenced(w)
  PROVE  BudgetInv'
<1> DEFINE q == row[job[w].id]
<1>1. q \in Row /\ q.remindAt \in Nat
  BY OwnedRow DEF Fenced, SendInv, TypeOK, Row
<1>2. ASSUME NEW p, Writes(w, p), p.remindAt = q.remindAt, p.attempts = q.attempts,
             p.status = "processing" => p.token = q.token
      PROVE  BudgetInv'
  BY <1>1, <1>2, BudgetWrite
<1>3. CASE Writes(w, Renewed(w, q))
  BY <1>1, <1>2, <1>3, RenewedFields
<1>4. CASE Writes(w, Prepared(q))
  BY <1>1, <1>2, <1>4, PreparedFields
<1>5. CASE Writes(w, Recorded(w, q))
  BY <1>1, <1>2, <1>5, RecordedFields
<1>6. CASE Writes(w, GivenUp(q))
  <2>1. LET p == GivenUp(q)
        IN p.remindAt = q.remindAt /\ p.attempts = q.attempts /\ p.status = "failed"
    BY <1>1, FailedFields
  <2>2. QED
    BY <1>2, <1>6, <2>1
<1>7. ASSUME NEW t \in Nat, Writes(w, Retried(q, t))
      PROVE  BudgetInv'
  <2>1. LET p == Retried(q, t)
        IN p.remindAt = q.remindAt /\ p.attempts = q.attempts /\ p.status = "pending"
    BY <1>1, FailedFields
  <2>2. QED
    BY <1>2, <1>7, <2>1
<1>8. CASE Writes(w, DeliveredRow(q))
  <2> DEFINE p == DeliveredRow(q)
  <2> HIDE DEF p
  <2>1. /\ p.status = "sent" /\ p.state = "delivered" /\ p.attempts = 0
        /\ p.remindAt = q.remindAt
    BY <1>1, DeliveredFields DEF p
  <2>2. Writes(w, p)
    BY <1>8 DEF p
  <2>3. QED
    BY <1>1, <2>1, <2>2, BudgetWrite
<1>9. ASSUME NEW n \in Nat, n > q.remindAt, Writes(w, AdvancedRow(q, n))
      PROVE  BudgetInv'
  <2> DEFINE p == AdvancedRow(q, n)
  <2> HIDE DEF p
  <2>1. p.status = "pending" /\ p.remindAt = n /\ p.attempts = 0
    BY <1>1, AdvancedFields DEF p
  <2>2. Writes(w, p)
    BY <1>9 DEF p
  <2>3. QED
    BY <1>9, <2>1, <2>2, BudgetWrite
<1>10. QED
  BY <1>3, <1>4, <1>5, <1>6, <1>7, <1>8, <1>9 DEF Fenced

LEMMA InitBudget == Init => BudgetInv
<1> SUFFICES ASSUME Init PROVE BudgetInv
  OBVIOUS
<1>1. \A r \in Reminders : row[r].attempts = 0
  BY DEF Init, InitialRows, NewRow
<1>2. ASSUME NEW r PROVE Copies(r) = 0
  <2>1. CopiesOf(r) = {}
    BY DEF Init, CopiesOf
  <2>2. QED
    BY <2>1, FS_EmptySet DEF Copies
<1>3. MaxAttempts \in Nat
  BY DataAssumption
<1>4. IsFiniteSet(inbox)
  BY FS_EmptySet DEF Init
<1>5. QED
  BY <1>1, <1>2, <1>3, <1>4
     DEF Init, BudgetInv, CopiesCounted, AttemptsSpare, Unsent, Sending

LEMMA NextBudget ==
  SendInv /\ FenceInv /\ MessageInv /\ BudgetInv /\ [Next]_vars => BudgetInv'
<1> SUFFICES ASSUME SendInv, FenceInv, MessageInv, BudgetInv, [Next]_vars PROVE BudgetInv'
  OBVIOUS
<1>1. CASE Tick \/ UNCHANGED vars
  BY <1>1, BudgetStill DEF Tick, vars, worker, Unsent
<1>2. ASSUME NEW r \in Reminders, CancelReminder(r)
      PROVE  BudgetInv'
  BY <1>2, BudgetCancel
<1>3. ASSUME NEW w \in Workers, ClaimDueReminders(w)
      PROVE  BudgetInv'
  BY <1>3, ClaimCase, BudgetClaim
<1>4. ASSUME NEW w \in Workers, GivesUp(w) \/ Proceeds(w)
      PROVE  BudgetInv'
  <2>1. /\ OnlyMoves(w) /\ row' = row /\ inbox' = inbox
        /\ Unsent(w)' \subseteq Unsent(w)
        /\ step'[w] \in Sending => step[w] \in Sending /\ job'[w] = job[w]
    BY <1>4 DEF GivesUp, Proceeds, PutsDown, GoesOn, Unsent, Sending
  <2>2. QED
    BY <2>1, UnsentKept, BudgetStill DEF OnlyMoves
<1>5. ASSUME NEW w \in Workers,
             \/ WorkerStep(w) /\ ~ClaimDueReminders(w)
             \/ StopRequested(w) \/ DatabaseError(w) \/ Crash(w)
      PROVE  BudgetInv'
  BY <1>4, <1>5, WorkerCases, BudgetSends, BudgetFenced
<1>6. QED
  BY <1>1, <1>2, <1>3, <1>5 DEF Next, WorkerStep

\* The invariants of the three layers, together.
DeliveryInv == SendInv /\ FenceInv /\ MessageInv /\ BudgetInv

LEMMA DeliveryInvariant == Spec => []DeliveryInv
<1>1. Init => DeliveryInv
  BY InitSendInv, InitFence, InitMessage, InitBudget DEF DeliveryInv
<1>2. DeliveryInv /\ [Next]_vars => DeliveryInv'
  BY NextSendInv, NextFence, NextMessage, NextBudget DEF DeliveryInv
<1>3. QED
  BY <1>1, <1>2, PTL DEF Spec

-----------------------------------------------------------------------------
(* The worker implements DeliveryContract                                   *)

\* What the contract sees of a step.
SameOutcome(r) == Outcome(row'[r]) = Outcome(row[r])
SameOccurrence(r) == row'[r].remindAt = row[r].remindAt
SameCopies(r) == Copies(r)' = Copies(r)
Same(r) == SameOutcome(r) /\ SameOccurrence(r) /\ SameCopies(r)

LEMMA ContractStutter ==
  ASSUME \A r \in Reminders : Same(r)
  PROVE  UNCHANGED Contract!contract
  BY DEF Same, SameOutcome, SameOccurrence, SameCopies, Contract!contract, Copies, CopiesOf

LEMMA ContractReceive ==
  ASSUME NEW r \in Reminders, Outcome(row[r]) \in {"open", "cancelled"},
         Copies(r) < MaxAttempts, Copies(r)' = Copies(r) + 1,
         SameOutcome(r), SameOccurrence(r),
         \A s \in Reminders : s # r => Same(s)
  PROVE  Contract!Receive(r)
  BY DEF Same, SameOutcome, SameOccurrence, SameCopies, Contract!Receive, Copies, CopiesOf

LEMMA ContractConfirm ==
  ASSUME NEW r \in Reminders, Outcome(row[r]) = "open", Copies(r) > 0,
         \/ Outcome(row'[r]) = "delivered" /\ SameOccurrence(r) /\ SameCopies(r)
         \/ /\ row'[r].remindAt > row[r].remindAt /\ Copies(r)' = 0
            /\ SameOutcome(r),
         \A s \in Reminders : s # r => Same(s)
  PROVE  Contract!Confirm(r)
<1> DEFINE copies(s) == Cardinality({ m \in inbox : m.id = s /\ m.occ = row[s].remindAt })
<1>1. \A s \in Reminders : copies(s) = Copies(s) /\ copies(s)' = Copies(s)'
  BY DEF Copies, CopiesOf
<1> HIDE DEF copies
<1>2. CASE Outcome(row'[r]) = "delivered" /\ SameOccurrence(r) /\ SameCopies(r)
  BY <1>1, <1>2
     DEF Same, SameOutcome, SameOccurrence, SameCopies, Contract!Confirm, copies
<1>3. CASE row'[r].remindAt > row[r].remindAt /\ Copies(r)' = 0 /\ SameOutcome(r)
  BY <1>1, <1>3
     DEF Same, SameOutcome, SameOccurrence, SameCopies, Contract!Confirm, copies
<1>4. QED
  BY <1>2, <1>3

LEMMA ContractGiveUp ==
  ASSUME NEW S \in SUBSET Reminders,
         \A r \in Reminders :
           /\ SameOccurrence(r) /\ SameCopies(r)
           /\ r \in S => Outcome(row[r]) = "open" /\ Outcome(row'[r]) = "failed"
           /\ r \notin S => SameOutcome(r)
  PROVE  Contract!GiveUp(S)
  BY DEF SameOutcome, SameOccurrence, SameCopies, Contract!GiveUp, Copies, CopiesOf

LEMMA ContractWithdraw ==
  ASSUME NEW r \in Reminders, Outcome(row[r]) # "cancelled", Outcome(row'[r]) = "cancelled",
         SameOccurrence(r), SameCopies(r),
         \A s \in Reminders : s # r => Same(s)
  PROVE  Contract!Withdraw(r)
  BY DEF Same, SameOutcome, SameOccurrence, SameCopies, Contract!Withdraw, Copies, CopiesOf

LEMMA OutcomeIs ==
  ASSUME NEW q
  PROVE  /\ q.state \in Live => Outcome(q) = "open"
         /\ \A s \in {"delivered", "failed", "cancelled"} : q.state = s => Outcome(q) = s
  BY DEF Outcome, Live

LEMMA ContractClaim ==
  ASSUME SendInv, NEW w \in Workers, NEW taken \in SUBSET Reminders,
         NEW spent \in SUBSET Reminders, Claims(w, taken, spent)
  PROVE  Contract!GiveUp(spent)
<1>1. inbox' = inbox
  BY DEF Claims
<1>2. ASSUME NEW r \in Reminders
      PROVE  /\ SameOccurrence(r)
             /\ r \in spent => Outcome(row[r]) = "open" /\ Outcome(row'[r]) = "failed"
             /\ r \notin spent => SameOutcome(r)
  <2>1. row[r] \in Row /\ now[w] \in Nat
    BY DEF SendInv, TypeOK
  <2>2. CASE r \in spent
    <3>1. row'[r] = Exhausted(row[r]) /\ row[r].state \in Live
      BY <2>2 DEF Claims, Claimable
    <3>2. QED
      BY <2>1, <2>2, <3>1, ExhaustedFields, OutcomeIs DEF SameOccurrence
  <2>3. CASE r \in taken
    <3>1. r \notin spent /\ row'[r] = Claimed(row[r], now[w]) /\ row[r].state \in Live
      BY <2>3 DEF Claims, Claimable
    <3>2. QED
      BY <2>1, <3>1, ClaimedFields, OutcomeIs DEF SameOccurrence, SameOutcome
  <2>4. CASE r \notin taken /\ r \notin spent
    BY <2>4 DEF Claims, SameOccurrence, SameOutcome
  <2>5. QED
    BY <2>2, <2>3, <2>4
<1>3. \A r \in Reminders : SameCopies(r)
  BY <1>1, <1>2, CopiesKept DEF SameOccurrence, SameCopies
<1>4. QED
  BY <1>2, <1>3, ContractGiveUp

LEMMA ContractSends ==
  ASSUME DeliveryInv, NEW w \in Workers, Sends(w)
  PROVE  \E r \in Reminders : Contract!Receive(r)
<1>1. PICK r : r = job[w].id
  OBVIOUS
<1>2. /\ r \in Reminders
      /\ Copies(r)' = Copies(r) + 1
      /\ \A s : s # r => Copies(s)' = Copies(s)
      /\ Copies(r) < MaxAttempts
      /\ row[r].state = "cancelled" \/ row[r].state \in Live
  BY <1>1, CopySent DEF DeliveryInv
<1>3. \A s : SameOutcome(s) /\ SameOccurrence(s)
  BY DEF Sends, SameOutcome, SameOccurrence
<1>4. Outcome(row[r]) \in {"open", "cancelled"}
  BY <1>2, OutcomeIs
<1>5. Contract!Receive(r)
  BY <1>2, <1>3, <1>4, ContractReceive DEF Same, SameCopies
<1>6. QED
  BY <1>2, <1>5

LEMMA ContractFenced ==
  ASSUME DeliveryInv, NEW w \in Workers, Fenced(w)
  PROVE  \/ UNCHANGED Contract!contract
         \/ \E r \in Reminders : Contract!Confirm(r)
         \/ \E S \in SUBSET Reminders : Contract!GiveUp(S)
<1>1. PICK r : r = job[w].id
  OBVIOUS
<1>2. /\ r \in Reminders /\ row[r] \in Row /\ row[r].state \in Live
      /\ row \in [Reminders -> Row] /\ inbox' = inbox
      /\ \A s \in Reminders : s # r => row'[s] = row[s]
      /\ row[r].remindAt \in Nat
  BY <1>1, OwnedRow
     DEF DeliveryInv, SendInv, TypeOK, Fenced, Writes, Write, OwnsLease, Row
<1>3. \A s \in Reminders : s # r => Same(s)
  BY <1>2, CopiesKept DEF Same, SameOutcome, SameOccurrence, SameCopies
<1>4. Outcome(row[r]) = "open"
  BY <1>2, OutcomeIs
<1>5. ASSUME NEW p, Writes(w, p)
      PROVE  row'[r] = p
  BY <1>1, <1>2, <1>5 DEF Writes, Write
<1>6. ASSUME NEW p, Writes(w, p), p.remindAt = row[r].remindAt
      PROVE  SameOccurrence(r) /\ SameCopies(r)
  BY <1>2, <1>5, <1>6, CopiesKept DEF SameOccurrence, SameCopies
<1>7. ASSUME NEW p, Writes(w, p), p.remindAt = row[r].remindAt, p.state \in Live
      PROVE  UNCHANGED Contract!contract
  <2>1. SameOutcome(r)
    BY <1>4, <1>5, <1>7, OutcomeIs DEF SameOutcome
  <2>2. Same(r)
    BY <1>6, <1>7, <2>1 DEF Same
  <2>3. QED
    BY <1>3, <2>2, ContractStutter
<1>8. CASE Writes(w, Renewed(w, row[r]))
  BY <1>2, <1>7, <1>8, RenewedFields
<1>9. CASE Writes(w, Prepared(row[r]))
  BY <1>2, <1>7, <1>9, PreparedFields
<1>10. CASE Writes(w, Recorded(w, row[r]))
  BY <1>2, <1>7, <1>10, RecordedFields
<1>11. ASSUME NEW t \in Nat, Writes(w, Retried(row[r], t))
       PROVE  UNCHANGED Contract!contract
  <2>1. LET p == Retried(row[r], t)
        IN p.remindAt = row[r].remindAt /\ p.state = "scheduled"
    BY <1>2, FailedFields
  <2>2. QED
    BY <1>7, <1>11, <2>1 DEF Live
<1>12. CASE Writes(w, GivenUp(row[r]))
  <2>1. LET p == GivenUp(row[r])
        IN p.remindAt = row[r].remindAt /\ p.state = "failed"
    BY <1>2, FailedFields
  <2>2. SameOccurrence(r) /\ SameCopies(r) /\ Outcome(row'[r]) = "failed"
    BY <1>5, <1>6, <1>12, <2>1, OutcomeIs
  <2>3. Contract!GiveUp({r})
    BY <1>2, <1>3, <1>4, <2>2, ContractGiveUp DEF Same
  <2>4. QED
    BY <1>2, <2>3
<1>13. ASSUME step[w] = "finalize"
       PROVE  Copies(r) > 0
  <2>1. AsMessage(job[w]) \in inbox /\ HoldsRow(w)
    BY <1>13 DEF DeliveryInv, MessageInv, SentArrived, FenceInv, RowsHeld, Engaged
  <2>2. AsMessage(job[w]) \in CopiesOf(r)
    BY <1>1, <2>1 DEF AsMessage, CopiesOf, HoldsRow
  <2>3. IsFiniteSet(CopiesOf(r)) /\ Copies(r) \in Nat
    BY CopiesType DEF DeliveryInv, BudgetInv
  <2>4. Copies(r) # 0
    BY <2>2, <2>3, FS_EmptySet DEF Copies
  <2>5. QED
    BY <2>3, <2>4
<1>14. CASE step[w] = "finalize" /\ Writes(w, DeliveredRow(row[r]))
  <2>1. LET p == DeliveredRow(row[r])
        IN p.remindAt = row[r].remindAt /\ p.state = "delivered"
    BY <1>2, DeliveredFields
  <2>2. SameOccurrence(r) /\ SameCopies(r) /\ Outcome(row'[r]) = "delivered"
    BY <1>5, <1>6, <1>14, <2>1, OutcomeIs
  <2>3. Contract!Confirm(r)
    BY <1>2, <1>3, <1>4, <1>13, <1>14, <2>2, ContractConfirm
  <2>4. QED
    BY <1>2, <2>3
<1>15. ASSUME step[w] = "finalize", NEW n \in Nat, n > row[r].remindAt,
              Writes(w, AdvancedRow(row[r], n))
       PROVE  \E s \in Reminders : Contract!Confirm(s)
  <2>1. LET p == AdvancedRow(row[r], n)
        IN p.remindAt = n /\ p.state = "scheduled"
    BY <1>2, <1>15, AdvancedFields
  <2>2. row'[r].remindAt = n /\ SameOutcome(r)
    BY <1>4, <1>5, <1>15, <2>1, OutcomeIs DEF SameOutcome, Live
  <2>3. Copies(r)' = 0
    BY <1>2, <1>15, <2>2, CopiesOfNext DEF DeliveryInv
  <2>4. Contract!Confirm(r)
    BY <1>2, <1>3, <1>4, <1>13, <1>15, <2>2, <2>3, ContractConfirm
  <2>5. QED
    BY <1>2, <2>4
<1>16. QED
  BY <1>1, <1>8, <1>9, <1>10, <1>11, <1>12, <1>14, <1>15 DEF Fenced

LEMMA ContractCancel ==
  ASSUME SendInv, NEW r \in Reminders, CancelReminder(r)
  PROVE  Contract!Withdraw(r)
<1> DEFINE q == Cancelled(row[r], clock)
<1> HIDE DEF q
<1>1. /\ row' = [row EXCEPT ![r] = q] /\ row \in [Reminders -> Row] /\ inbox' = inbox
      /\ row[r].state # "cancelled" /\ row[r] \in Row
      /\ q.state = "cancelled" /\ q.remindAt = row[r].remindAt
  BY CancelledFields DEF SendInv, TypeOK, CancelReminder, q
<1>2. \A s \in Reminders : SameOccurrence(s) /\ SameCopies(s) /\ (s # r => SameOutcome(s))
  BY <1>1, CopiesKept DEF SameOccurrence, SameCopies, SameOutcome
<1>3. Outcome(row[r]) # "cancelled"
  BY <1>1, OutcomeIs DEF Row
<1>4. Outcome(row'[r]) = "cancelled"
  BY <1>1, OutcomeIs
<1>5. QED
  BY <1>2, <1>3, <1>4, ContractWithdraw DEF Same

LEMMA ContractInit == Init => Contract!Init
<1> SUFFICES ASSUME Init PROVE Contract!Init
  OBVIOUS
<1>1. ASSUME NEW r \in Reminders
      PROVE  Outcome(row[r]) = "open" /\ row[r].remindAt \in Nat /\ Copies(r) = 0
  <2>1. row[r].state \in Live
    BY DEF Init, InitialRows, NewRow, Live
  <2>2. Outcome(row[r]) = "open"
    BY <2>1, OutcomeIs
  <2>3. row[r].remindAt \in Nat
    BY InitSendInv DEF SendInv, TypeOK, Row
  <2>4. CopiesOf(r) = {}
    BY DEF Init, CopiesOf
  <2>5. QED
    BY <2>2, <2>3, <2>4, FS_EmptySet DEF Copies
<1>2. QED
  BY <1>1 DEF Contract!Init, Copies, CopiesOf

LEMMA ContractNext == DeliveryInv /\ [Next]_vars => [Contract!Next]_Contract!contract
<1> SUFFICES ASSUME DeliveryInv, [Next]_vars PROVE [Contract!Next]_Contract!contract
  OBVIOUS
<1>1. SendInv
  BY DEF DeliveryInv
<1>2. ASSUME row' = row, inbox' = inbox
      PROVE  UNCHANGED Contract!contract
  <2>1. \A r \in Reminders : Same(r)
    BY <1>2, CopiesKept DEF Same, SameOutcome, SameOccurrence, SameCopies
  <2>2. QED
    BY <2>1, ContractStutter
<1>3. CASE Tick \/ UNCHANGED vars
  BY <1>2, <1>3 DEF Tick, vars
<1>4. ASSUME NEW r \in Reminders, CancelReminder(r)
      PROVE  Contract!Next
  BY <1>1, <1>4, ContractCancel DEF Contract!Next
<1>5. ASSUME NEW w \in Workers, ClaimDueReminders(w)
      PROVE  Contract!Next
  BY <1>1, <1>5, ClaimCase, ContractClaim DEF Contract!Next
<1>6. ASSUME NEW w \in Workers,
             \/ WorkerStep(w) /\ ~ClaimDueReminders(w)
             \/ StopRequested(w) \/ DatabaseError(w) \/ Crash(w)
      PROVE  Contract!Next \/ UNCHANGED Contract!contract
  <2>1. GivesUp(w) \/ Proceeds(w) => UNCHANGED Contract!contract
    BY <1>2 DEF GivesUp, Proceeds
  <2>2. Sends(w) => Contract!Next
    BY ContractSends DEF Contract!Next
  <2>3. Fenced(w) => Contract!Next \/ UNCHANGED Contract!contract
    BY ContractFenced DEF Contract!Next
  <2>4. QED
    BY <1>1, <1>6, <2>1, <2>2, <2>3, WorkerCases
<1>7. QED
  BY <1>3, <1>4, <1>5, <1>6 DEF Next, WorkerStep

\* The worker implements DeliveryContract: however its processes race, crash and
\* time out, no occurrence is sent more than MaxAttempts times, only a received
\* one is confirmed, a series only moves forwards, and a reminder that is settled
\* stays so.
THEOREM WorkerImplementsContract == Spec => ImplementsContract
<1>1. QED
  BY DeliveryInvariant, ContractInit, ContractNext, PTL
     DEF Spec, ImplementsContract, Contract!Spec
=============================================================================
