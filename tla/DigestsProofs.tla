--------------------------- MODULE DigestsProofs ---------------------------
(***************************************************************************)
(* The digests of one user, for any number of workers and attempts: once   *)
(* the sender of a digest can report it, it is not sent again.  With one   *)
(* worker and more than one period, a slot is always ahead or under way    *)
(* for a user whose clock was never set back.                              *)
(***************************************************************************)
EXTENDS Digests, TLAPS

Parameters == Periods # {} /\ Zones \subseteq 0..3 /\ MaxAttempts \in Nat

AgentState == [pc : {"idle", "claimed", "built", "ready", "sending", "answered", "withdrawn"},
               key : Keys, answer : {"none", "ok", "transient", "terminal"}]

Owners == [enabled : BOOLEAN, seeded : BOOLEAN, zone : Zones, west : BOOLEAN]

Types == TypeOK /\ agent \in [Workers -> AgentState]

\* Worker w has a claim on a row that nobody may take over.
Held(row, w) == row.state = "processing" /\ row.token = w /\ row.live

\* Worker w can record that the digest of slot k arrived: a is what it is doing.
Reports(a, row, w, k) == a.pc = "answered" /\ a.answer = "ok" /\ a.key = k /\ Held(row, w)

\* Nobody sends but under a claim.
SendInv == \A w \in Workers : agent[w].pc = "sending" => Held(slots[agent[w].key], w)

\* A digest that arrived and can be reported is closed, or its sender is about to.
ReportInv ==
  \A k \in Keys : slots[k].message = "known" =>
    slots[k].state = "closed" \/ \E w \in Workers : Reports(agent[w], slots[k], w, k)

DeliveryInv == DigestOnce /\ SendInv /\ ReportInv

-----------------------------------------------------------------------------
(* What the schedule makes of the rows                                      *)

\* The row still says the same to whoever holds it or waits for it.
Kept(old, new) ==
  /\ new.message = old.message
  /\ old.state = "closed" => new.state = "closed"
  /\ old.state = "processing" => /\ new.state = "processing" /\ new.token = old.token
                                 /\ new.live = old.live

SlotStates == {"open", "pending", "processing", "closed"}

LEMMA NothingIsASlot ==
  ASSUME Parameters
  PROVE  Nothing \in Slot
BY DEF Nothing, Slot, Parameters

LEMMA EndedRow ==
  ASSUME Parameters, NEW r \in Slot, NEW s \in SlotStates
  PROVE  Ended(r, s) \in Slot /\ Ended(r, s).state = s /\ Ended(r, s).message = r.message
<1>1. Nothing \in Slot
  BY NothingIsASlot
<1>2. r.message \in {"none", "known", "unknown", "twice"}
  BY DEF Slot
<1>3. Ended(r, s) = [Nothing EXCEPT !.state = s, !.message = r.message]
  BY DEF Ended
<1>4. QED
  BY <1>1, <1>2, <1>3 DEF Slot, SlotStates

LEMMA PendingRow ==
  ASSUME Types, NEW r \in Slot
  PROVE  /\ Pending(r) \in Slot /\ Pending(r).state = "pending" /\ Pending(r).message = r.message
         /\ Pending(r).zone = owner.zone
<1>1. owner.zone \in Zones
  BY DEF Types, TypeOK
<1>2. QED
  BY <1>1 DEF Pending, Slot

LEMMA EnsuredRows ==
  ASSUME Types, NEW rows \in [Keys -> Slot], NEW b \in BOOLEAN
  PROVE  /\ Ensured(rows, b) \in [Keys -> Slot]
         /\ \A k \in Keys : /\ Kept(rows[k], Ensured(rows, b)[k])
                            /\ ~Open(rows[k]) => Ensured(rows, b)[k] = rows[k]
<1>1. \A k \in Keys : /\ Pending(rows[k]) \in Slot /\ Pending(rows[k]).message = rows[k].message
  BY PendingRow
<1>2. \A k \in Keys : \/ Ensured(rows, b)[k] = rows[k]
                      \/ Open(rows[k]) /\ Ensured(rows, b)[k] = Pending(rows[k])
  BY DEF Ensured
<1>3. Ensured(rows, b) \in [Keys -> Slot]
  BY <1>1 DEF Ensured
<1>4. ASSUME NEW k \in Keys PROVE Kept(rows[k], Ensured(rows, b)[k])
  BY <1>1, <1>2 DEF Kept, Open
<1>5. QED
  BY <1>2, <1>3, <1>4

LEMMA WithdrawnRows ==
  ASSUME Parameters, NEW rows \in [Keys -> Slot], NEW chats
  PROVE  /\ Withdrawn(rows, chats) \in [Keys -> Slot]
         /\ \A k \in Keys : Kept(rows[k], Withdrawn(rows, chats)[k])
<1>1. \A k \in Keys : /\ Ended(rows[k], "open") \in Slot
                      /\ Ended(rows[k], "open").message = rows[k].message
  BY EndedRow DEF SlotStates
<1>2. \A k \in Keys : Withdrawn(rows, chats)[k] = IF rows[k].state = "pending" /\ rows[k].here \in chats
                                               THEN Ended(rows[k], "open") ELSE rows[k]
  BY DEF Withdrawn
<1>3. Withdrawn(rows, chats) \in [Keys -> Slot]
  BY <1>1 DEF Withdrawn
<1>4. ASSUME NEW k \in Keys PROVE Kept(rows[k], Withdrawn(rows, chats)[k])
  BY <1>1, <1>2 DEF Kept
<1>5. QED
  BY <1>2, <1>3, <1>4

LEMMA ChainRows ==
  ASSUME Types, NEW rows \in [Keys -> Slot]
  PROVE  /\ Chain(rows) \in [Keys -> Slot]
         /\ \A k \in Keys : /\ Kept(rows[k], Chain(rows)[k])
                            /\ ~Open(rows[k]) => Chain(rows)[k] = rows[k]
<1>1. CASE owner.enabled
  BY <1>1, EnsuredRows DEF Chain
<1>2. CASE ~owner.enabled
  BY <1>2 DEF Chain, Kept
<1>3. QED
  BY <1>1, <1>2

LEMMA SeededRows ==
  ASSUME Types
  PROVE  /\ Seeded \in [Keys -> Slot]
         /\ \A k \in Keys : /\ Kept(slots[k], Seeded[k])
                            /\ ~Open(slots[k]) => Seeded[k] = slots[k]
<1>1. slots \in [Keys -> Slot]
  BY DEF Types, TypeOK
<1>2. CASE owner.enabled /\ ~owner.seeded
  BY <1>1, <1>2, EnsuredRows DEF Seeded
<1>3. CASE ~(owner.enabled /\ ~owner.seeded)
  BY <1>1, <1>3 DEF Seeded, Kept
<1>4. QED
  BY <1>2, <1>3

-----------------------------------------------------------------------------
(* Types                                                                    *)

LEMMA IdleIsAnAgent ==
  ASSUME Parameters
  PROVE  Idle \in AgentState /\ Idle.pc = "idle" /\ Idle.answer = "none"
<1>1. \E k \in Keys : TRUE
  <2>1. PICK p \in Periods : TRUE
    BY DEF Parameters
  <2>2. <<p, 0>> \in Keys
    BY DEF Keys, Dates
  <2>3. QED
    BY <2>2
<1>2. (CHOOSE k \in Keys : TRUE) \in Keys
  BY <1>1
<1>3. QED
  BY <1>2 DEF Idle, AgentState

LEMMA InitTypes ==
  ASSUME Parameters, Init
  PROVE  Types
<1>1. slots \in [Keys -> Slot]
  BY NothingIsASlot DEF Init
<1>2. agent \in [Workers -> AgentState]
  BY IdleIsAnAgent DEF Init
<1>3. \A w \in Workers : agent[w] \in AgentState
  BY <1>2
<1>4. TypeOK
  BY <1>1, <1>3 DEF Init, TypeOK, AgentState
<1>5. QED
  BY <1>2, <1>4 DEF Types

\* What is left to show of a step.
LEMMA TypesOfStep ==
  ASSUME phase' \in 0..3, owner' \in Owners,
         slots' \in [Keys -> Slot], agent' \in [Workers -> AgentState]
  PROVE  Types'
<1>1. \A w \in Workers : agent'[w] \in AgentState
  OBVIOUS
<1>2. QED
  BY <1>1 DEF Types, TypeOK, AgentState, Owners

\* A worker leaves its state for another one; nobody else's changes.
Becomes(w, a) == a \in AgentState /\ agent' = [agent EXCEPT ![w] = a]

LEMMA AgentOfStep ==
  ASSUME Types, NEW w \in Workers, NEW a, Becomes(w, a)
  PROVE  /\ agent' \in [Workers -> AgentState] /\ agent'[w] = a
         /\ \A u \in Workers : u # w => agent'[u] = agent[u]
BY DEF Types, Becomes

LEMMA FieldsOfAgent ==
  ASSUME Types, NEW w \in Workers
  PROVE  agent[w] \in AgentState /\ agent[w].key \in Keys /\ slots[agent[w].key] \in Slot
<1>1. agent[w] \in AgentState
  BY DEF Types
<1>2. QED
  BY <1>1 DEF AgentState, Types, TypeOK

\* One row leaves its state for another one.
LEMMA RowOfStep ==
  ASSUME NEW rows \in [Keys -> Slot], NEW k \in Keys, NEW r \in Slot
  PROVE  /\ [rows EXCEPT ![k] = r] \in [Keys -> Slot] /\ [rows EXCEPT ![k] = r][k] = r
         /\ \A j \in Keys : j # k => [rows EXCEPT ![k] = r][j] = rows[j]
OBVIOUS

-----------------------------------------------------------------------------
(* What a step of a worker must not disturb                                 *)

LEMMA InitDelivery ==
  ASSUME Parameters, Init
  PROVE  DeliveryInv
<1>1. \A k \in Keys : slots[k].message = "none"
  BY DEF Init, Nothing
<1>2. \A w \in Workers : agent[w] = Idle
  BY Zenon DEF Init
<1>3. \A w \in Workers : agent[w].pc = "idle"
  BY <1>2, IdleIsAnAgent, Zenon
<1>4. QED
  BY <1>1, <1>3 DEF DeliveryInv, DigestOnce, SendInv, ReportInv

\* Nobody holds a row but one worker.
LEMMA OneHolder ==
  ASSUME NEW row, NEW u, NEW w, Held(row, u), Held(row, w)
  PROVE  u = w
BY DEF Held

LEMMA KeptIsHeld ==
  ASSUME NEW old, NEW new, NEW w, Kept(old, new), Held(old, w)
  PROVE  Held(new, w)
BY DEF Kept, Held

\* The schedule moves, no worker does.
LEMMA DeliveryOfSchedule ==
  ASSUME Types, DeliveryInv, agent' = agent, \A k \in Keys : Kept(slots[k], slots'[k])
  PROVE  DeliveryInv'
<1>1. DigestOnce'
  BY DEF DeliveryInv, DigestOnce, Kept
<1>2. SendInv'
  BY FieldsOfAgent DEF DeliveryInv, SendInv, Kept, Held
<1>3. ASSUME NEW k \in Keys, slots'[k].message = "known"
      PROVE  slots'[k].state = "closed" \/ \E w \in Workers : Reports(agent'[w], slots'[k], w, k)
  BY <1>3 DEF DeliveryInv, ReportInv, Reports, Kept, Held
<1>4. QED
  BY <1>1, <1>2, <1>3 DEF DeliveryInv, ReportInv

\* Worker w makes a step at slot k, whose row nobody else holds if it changes.
LEMMA DeliveryOfWorker ==
  ASSUME Types, DeliveryInv, NEW w \in Workers, NEW k \in Keys, NEW a, Becomes(w, a),
         \A j \in Keys : j # k => Kept(slots[j], slots'[j]) /\ ~Reports(agent[w], slots[j], w, j),
         \/ Kept(slots[k], slots'[k])
         \/ \A u \in Workers : u # w => ~Held(slots[k], u),
         slots'[k].message # "twice",
         a.pc = "sending" => Held(slots'[a.key], w),
         slots'[k].message = "known" =>
           \/ slots'[k].state = "closed" \/ Reports(a, slots'[k], w, k)
           \/ Kept(slots[k], slots'[k]) /\ ~Reports(agent[w], slots[k], w, k)
  PROVE  DeliveryInv'
<1>1. agent'[w] = a /\ \A u \in Workers : u # w => agent'[u] = agent[u]
  BY AgentOfStep
<1>2. ASSUME NEW u \in Workers, NEW j \in Keys, u # w, Held(slots[j], u)
      PROVE  Held(slots'[j], u) /\ Kept(slots[j], slots'[j])
  BY <1>2, KeptIsHeld
<1>3. DigestOnce'
  BY DEF DeliveryInv, DigestOnce, Kept
<1>4. SendInv'
  BY <1>1, <1>2, FieldsOfAgent DEF DeliveryInv, SendInv
<1>5. ASSUME NEW j \in Keys, slots'[j].message = "known"
      PROVE  slots'[j].state = "closed" \/ \E u \in Workers : Reports(agent'[u], slots'[j], u, j)
  <2>1. CASE Kept(slots[j], slots'[j]) /\ ~Reports(agent[w], slots[j], w, j)
    <3>1. slots[j].message = "known"
      BY <1>5, <2>1 DEF Kept
    <3>2. CASE slots[j].state = "closed"
      BY <2>1, <3>2 DEF Kept
    <3>3. CASE slots[j].state # "closed"
      <4>1. PICK u \in Workers : Reports(agent[u], slots[j], u, j)
        BY <3>1, <3>3 DEF DeliveryInv, ReportInv
      <4>2. u # w
        BY <4>1, <2>1
      <4>3. agent'[u] = agent[u] /\ Held(slots'[j], u)
        BY <1>1, <1>2, <4>1, <4>2 DEF Reports
      <4>4. QED
        BY <4>1, <4>3 DEF Reports
    <3>4. QED
      BY <3>2, <3>3
  <2>2. CASE j = k
    BY <1>1, <1>5, <2>1, <2>2
  <2>3. QED
    BY <2>1, <2>2
<1>6. QED
  BY <1>3, <1>4, <1>5 DEF DeliveryInv, ReportInv

-----------------------------------------------------------------------------
(* The user and the clock                                                   *)

Inv == Types /\ DeliveryInv

LEMMA SlotsAreSlots ==
  ASSUME Types
  PROVE  /\ slots \in [Keys -> Slot] /\ owner \in Owners
         /\ phase \in 0..3 /\ agent \in [Workers -> AgentState]
BY DEF Types, TypeOK, Owners

LEMMA SwitchStep ==
  ASSUME Parameters, Inv, Switch
  PROVE  Inv'
<1>1. slots' \in [Keys -> Slot] /\ \A k \in Keys : Kept(slots[k], slots'[k])
  BY SlotsAreSlots, EnsuredRows, WithdrawnRows DEF Switch, Inv
<1>2. owner' \in Owners
  BY SlotsAreSlots DEF Switch, Inv, Owners
<1>3. phase' = phase /\ agent' = agent
  BY DEF Switch
<1>4. QED
  BY <1>1, <1>2, <1>3, SlotsAreSlots, TypesOfStep, DeliveryOfSchedule DEF Inv

LEMMA MoveStep ==
  ASSUME Parameters, Inv, Move
  PROVE  Inv'
<1> DEFINE kept == IF owner.enabled THEN Withdrawn(slots, BOOLEAN) ELSE slots
           moved(elsewhere) == [k \in Keys |-> IF elsewhere /\ Waits(kept[k])
                                               THEN [kept[k] EXCEPT !.here = ~@] ELSE kept[k]]
<1>1. kept \in [Keys -> Slot] /\ \A k \in Keys : Kept(slots[k], kept[k])
  BY SlotsAreSlots, WithdrawnRows DEF Inv, Kept
<1>2. phase' = phase /\ agent' = agent
  BY DEF Move
<1>3. PICK zone \in Zones, elsewhere \in BOOLEAN :
        /\ owner' = [owner EXCEPT !.seeded = FALSE, !.zone = zone, !.west = @ \/ zone < owner.zone]
        /\ slots' = moved(elsewhere)
  BY Zenon DEF Move
<1>4. owner' \in Owners
  BY <1>3, SlotsAreSlots DEF Inv, Owners
<1> HIDE DEF kept
<1>5. slots' \in [Keys -> Slot] /\ \A k \in Keys : Kept(slots[k], slots'[k])
  <2>1. ASSUME NEW k \in Keys PROVE moved(elsewhere)[k] \in Slot /\ Kept(kept[k], moved(elsewhere)[k])
    <3>1. kept[k] \in Slot
      BY <1>1
    <3>2. [kept[k] EXCEPT !.here = ~@] \in Slot /\ Kept(kept[k], [kept[k] EXCEPT !.here = ~@])
      BY <3>1 DEF Slot, Kept
    <3>3. QED
      BY <3>1, <3>2 DEF Kept
  <2>2. moved(elsewhere) \in [Keys -> Slot]
    BY <2>1
  <2>3. QED
    BY <1>1, <1>3, <2>1, <2>2 DEF Kept
<1>6. QED
  BY <1>2, <1>4, <1>5, SlotsAreSlots, TypesOfStep, DeliveryOfSchedule DEF Inv

LEMMA ForgottenRow ==
  ASSUME Parameters, NEW r \in Slot
  PROVE  /\ Forgotten(r) \in Slot
         /\ r.state = "closed" => Forgotten(r).message = "none"
         /\ r.state # "closed" => Forgotten(r) = r
BY NothingIsASlot DEF Forgotten, Slot, Nothing

\* Between two phases every digest that arrived is closed, and forgotten.
LEMMA TickStep ==
  ASSUME Parameters, Inv, Tick
  PROVE  Inv'
<1>1. \A w \in Workers : agent[w].pc = "idle"
  BY DEF Tick
<1>2. \A k \in Keys : slots[k] \in Slot /\ slots[k].message # "twice"
                      /\ (slots[k].message = "known" => slots[k].state = "closed")
  BY <1>1, SlotsAreSlots DEF Inv, DeliveryInv, DigestOnce, ReportInv, Reports
<1>3. \A k \in Keys : Forgotten(slots[k]) \in Slot /\ Forgotten(slots[k]).message \notin {"known", "twice"}
  BY <1>2, ForgottenRow
<1>4. Nothing \in Slot /\ Nothing.message = "none"
  BY NothingIsASlot DEF Nothing
<1>5. slots' \in [Keys -> Slot] /\ \A k \in Keys : slots'[k].message \notin {"known", "twice"}
  <2>1. CASE phase = 3
    <3>1. slots' = [k \in Keys |->
                     IF k[2] = 2 THEN Nothing
                     ELSE LET row == slots[<<k[1], k[2] + 1>>]
                          IN IF k[2] = -1 /\ ~Waits(row) THEN Nothing ELSE Forgotten(row)]
      BY <2>1 DEF Tick
    <3>2. \A k \in Keys : k[2] # 2 => <<k[1], k[2] + 1>> \in Keys
      BY DEF Keys, Dates
    <3>3. ASSUME NEW k \in Keys
          PROVE  slots'[k] = Nothing \/ (k[2] # 2 /\ slots'[k] = Forgotten(slots[<<k[1], k[2] + 1>>]))
      BY <3>1, Zenon
    <3>4. \A k \in Keys : slots'[k] \in Slot /\ slots'[k].message \notin {"known", "twice"}
      BY <1>3, <1>4, <3>2, <3>3
    <3>5. QED
      BY <3>1, <3>4
  <2>2. CASE phase # 3
    BY <1>3, <2>2 DEF Tick
  <2>3. QED
    BY <2>1, <2>2
<1>6. phase' \in 0..3 /\ owner' = owner /\ agent' = agent
  BY SlotsAreSlots DEF Tick, Inv
<1>7. DeliveryInv'
  BY <1>1, <1>5, <1>6 DEF DeliveryInv, DigestOnce, SendInv, ReportInv
<1>8. QED
  BY <1>5, <1>6, <1>7, SlotsAreSlots, TypesOfStep DEF Inv

\* A lease that ends takes with it what its holder could report; no sender's ends.
LEMMA SlotComesDueStep ==
  ASSUME Parameters, Inv, NEW k \in Keys, SlotComesDue(k)
  PROVE  Inv'
<1>1. phase' = phase /\ owner' = owner /\ agent' = agent
  BY DEF SlotComesDue
<1>2. slots[k] \in Slot /\ slots \in [Keys -> Slot]
  BY SlotsAreSlots DEF Inv
<1>3. CASE slots[k].state = "pending" /\ slots' = [slots EXCEPT ![k].due = TRUE]
  <2> DEFINE r == [slots[k] EXCEPT !.due = TRUE]
  <2>1. r \in Slot /\ Kept(slots[k], r)
    BY <1>2, <1>3 DEF Slot, Kept
  <2>2. slots' = [slots EXCEPT ![k] = r]
    BY <1>3
  <2> HIDE DEF r
  <2>3. slots' \in [Keys -> Slot] /\ \A j \in Keys : Kept(slots[j], slots'[j])
    BY <1>2, <2>1, <2>2, RowOfStep DEF Kept
  <2>4. QED
    BY <1>1, <2>3, SlotsAreSlots, TypesOfStep, DeliveryOfSchedule DEF Inv
<1>4. CASE slots[k].live /\ MayEnd(k) /\ slots' = [slots EXCEPT ![k].live = FALSE, ![k].message = Lost(@)]
  <2> DEFINE r == [slots[k] EXCEPT !.live = FALSE, !.message = Lost(slots[k].message)]
  <2>1. r \in Slot /\ r.message # "known" /\ (slots[k].message # "twice" => r.message # "twice")
    BY <1>2 DEF Slot, Lost
  <2>2. slots' = [slots EXCEPT ![k] = r]
    BY <1>2, <1>4
  <2> HIDE DEF r
  <2>3. slots' \in [Keys -> Slot] /\ slots'[k] = r /\ \A j \in Keys : j # k => slots'[j] = slots[j]
    BY <1>2, <2>1, <2>2, RowOfStep
  <2>4. DigestOnce'
    BY <2>1, <2>3 DEF Inv, DeliveryInv, DigestOnce
  <2>5. SendInv'
    BY <1>1, <1>4, <2>3, FieldsOfAgent DEF Inv, DeliveryInv, SendInv, MayEnd, Held
  <2>6. ReportInv'
    BY <1>1, <2>1, <2>3 DEF Inv, DeliveryInv, ReportInv
  <2>7. QED
    BY <1>1, <2>3, <2>4, <2>5, <2>6, SlotsAreSlots, TypesOfStep DEF Inv, DeliveryInv
<1>5. QED
  BY <1>3, <1>4 DEF SlotComesDue

-----------------------------------------------------------------------------
(* The worker                                                               *)

\* What is left to show of a step of worker w at slot k.
LEMMA WorkerMoves ==
  ASSUME Inv, NEW w \in Workers, NEW k \in Keys, NEW a, Becomes(w, a),
         phase' = phase, owner' \in Owners,
         slots' \in [Keys -> Slot],
         \A j \in Keys : j # k => Kept(slots[j], slots'[j]) /\ ~Reports(agent[w], slots[j], w, j),
         \/ Kept(slots[k], slots'[k])
         \/ \A u \in Workers : u # w => ~Held(slots[k], u),
         slots'[k].message # "twice",
         a.pc = "sending" => Held(slots'[a.key], w),
         slots'[k].message = "known" =>
           \/ slots'[k].state = "closed" \/ Reports(a, slots'[k], w, k)
           \/ Kept(slots[k], slots'[k]) /\ ~Reports(agent[w], slots[k], w, k)
  PROVE  Inv'
<1>1. Types'
  BY SlotsAreSlots, AgentOfStep, TypesOfStep DEF Inv
<1>2. DeliveryInv'
  BY DeliveryOfWorker DEF Inv
<1>3. QED
  BY <1>1, <1>2 DEF Inv

\* A worker that is not at slot j reports nothing of it; nor one that is not answered.
LEMMA ReportsItsSlot ==
  ASSUME NEW a, NEW row, NEW w, NEW j, a.pc # "answered" \/ a.answer # "ok" \/ a.key # j \/ ~Held(row, w)
  PROVE  ~Reports(a, row, w, j)
BY DEF Reports

LEMMA KeptSame ==
  ASSUME NEW row
  PROVE  Kept(row, row)
BY DEF Kept

\* A digest that is known and whose row worker w holds is one w reports.
LEMMA KnownIsReported ==
  ASSUME Inv, NEW w \in Workers, NEW k \in Keys, Held(slots[k], w), slots[k].message = "known"
  PROVE  Reports(agent[w], slots[k], w, k)
<1>1. slots[k].state # "closed"
  BY DEF Held
<1>2. PICK u \in Workers : Reports(agent[u], slots[k], u, k)
  BY <1>1 DEF Inv, DeliveryInv, ReportInv
<1>3. u = w
  BY <1>2, OneHolder DEF Reports
<1>4. QED
  BY <1>2, <1>3

\* The rows stay as they are.
LEMMA WorkerAlone ==
  ASSUME Parameters, Inv, NEW w \in Workers, NEW a, Becomes(w, a), a.pc # "sending",
         \/ agent[w].pc # "answered" \/ agent[w].answer # "ok"
         \/ ~Held(slots[agent[w].key], w),
         phase' = phase, owner' = owner, slots' = slots
  PROVE  Inv'
<1>1. agent[w].key \in Keys
  BY FieldsOfAgent DEF Inv
<1>2. \A j \in Keys : Kept(slots[j], slots'[j]) /\ ~Reports(agent[w], slots[j], w, j)
  BY KeptSame, ReportsItsSlot
<1>3. \A j \in Keys : slots'[j].message # "twice"
  BY DEF Inv, DeliveryInv, DigestOnce
<1>4. QED
  BY <1>1, <1>2, <1>3, SlotsAreSlots, WorkerMoves DEF Inv

LEMMA HoldsIsHeld ==
  ASSUME NEW w \in Workers
  PROVE  Holds(w) <=> Held(slots[agent[w].key], w)
BY DEF Holds, Owns, Held

\* What a poll takes is a row that nobody holds.
LEMMA ClaimStep ==
  ASSUME Parameters, Inv, NEW w \in Workers, Claim(w)
  PROVE  Inv'
<1>1. /\ agent[w].pc = "idle" /\ phase' = phase
      /\ owner' = [owner EXCEPT !.seeded = @ \/ owner.enabled]
  BY Zenon DEF Claim
<1>2. owner' \in Owners
  BY <1>1, SlotsAreSlots DEF Inv, Owners
<1>3. /\ Seeded \in [Keys -> Slot] /\ slots \in [Keys -> Slot] /\ agent \in [Workers -> AgentState]
      /\ \A k \in Keys : Kept(slots[k], Seeded[k]) /\ (~Open(slots[k]) => Seeded[k] = slots[k])
  BY SeededRows, SlotsAreSlots DEF Inv
<1>4. \A j \in Keys : ~Reports(agent[w], slots[j], w, j)
  BY <1>1, ReportsItsSlot
<1>5. \A j \in Keys : slots[j].message # "twice"
  BY DEF Inv, DeliveryInv, DigestOnce
<1>6. CASE slots' = Seeded /\ agent' = agent
  BY <1>1, <1>2, <1>3, <1>6, SlotsAreSlots, TypesOfStep, DeliveryOfSchedule DEF Inv
<1>7. ASSUME NEW k \in Keys, Candidate(Seeded[k]), slots' = Claimed(w, Seeded, k),
             agent' = IF slots'[k].state = "processing"
                      THEN [agent EXCEPT ![w] = [Idle EXCEPT !.pc = "claimed", !.key = k]] ELSE agent
      PROVE  Inv'
  <2>1. (\A u \in Workers : ~Held(slots[k], u)) /\ slots[k].state # "closed"
    BY <1>3, <1>7 DEF Candidate, Open, Held, Kept
  <2>2. slots[k].message # "known"
    BY <2>1 DEF Inv, DeliveryInv, ReportInv, Reports
  <2>3. Seeded[k] \in Slot /\ Seeded[k].message \notin {"known", "twice"}
    BY <1>3, <1>5, <2>2 DEF Kept
  <2>4. /\ slots' \in [Keys -> Slot] /\ slots'[k].message \notin {"known", "twice"}
        /\ \A j \in Keys : j # k => Kept(slots[j], slots'[j])
    <3>1. CASE slots' = Chain([Seeded EXCEPT ![k] = Ended(Seeded[k], "closed")])
      <4> DEFINE rows == [Seeded EXCEPT ![k] = Ended(Seeded[k], "closed")]
      <4>1. rows \in [Keys -> Slot] /\ rows[k].message \notin {"known", "twice"}
            /\ \A j \in Keys : j # k => rows[j] = Seeded[j]
        BY <1>3, <2>3, EndedRow, RowOfStep DEF SlotStates
      <4>2. slots' = Chain(rows)
        BY <3>1
      <4> HIDE DEF rows
      <4>3. slots' \in [Keys -> Slot] /\ \A j \in Keys : Kept(rows[j], slots'[j])
        BY <4>1, <4>2, ChainRows DEF Inv
      <4>4. QED
        BY <1>3, <4>1, <4>3 DEF Kept
    <3>2. CASE /\ ~Exhausted(Seeded[k])
               /\ slots' = [Seeded EXCEPT ![k].state = "processing", ![k].live = TRUE, ![k].token = w,
                                          ![k].attempt = @ + 1]
      <4> DEFINE r == [Seeded[k] EXCEPT !.state = "processing", !.live = TRUE, !.token = w,
                                        !.attempt = Seeded[k].attempt + 1]
      <4>1. slots' = [Seeded EXCEPT ![k] = r]
        BY <1>3, <3>2
      <4>2. Seeded[k].attempt \in 0..MaxAttempts /\ Seeded[k].attempt + 1 \in 0..MaxAttempts
        BY <2>3, <3>2 DEF Slot, Parameters, Exhausted
      <4>3. r \in Slot /\ r.message = Seeded[k].message
        BY <2>3, <4>2 DEF Slot
      <4> HIDE DEF r
      <4>4. slots' \in [Keys -> Slot] /\ slots'[k] = r /\ \A j \in Keys : j # k => slots'[j] = Seeded[j]
        BY <1>3, <4>1, <4>3, RowOfStep
      <4>5. QED
        BY <1>3, <2>3, <4>3, <4>4
    <3>3. QED
      BY <1>7, <3>1, <3>2 DEF Claimed
  <2>5. PICK a \in AgentState : agent' = [agent EXCEPT ![w] = a] /\ a.pc # "sending"
    <3>1. agent = [agent EXCEPT ![w] = agent[w]] /\ agent[w] \in AgentState /\ agent[w].pc # "sending"
      BY <1>1, <1>3
    <3>2. [Idle EXCEPT !.pc = "claimed", !.key = k] \in AgentState
          /\ [Idle EXCEPT !.pc = "claimed", !.key = k].pc # "sending"
      BY IdleIsAnAgent DEF AgentState
    <3>3. QED
      BY <1>7, <3>1, <3>2
  <2>6. QED
    BY <1>1, <1>2, <1>4, <2>1, <2>4, <2>5, WorkerMoves DEF Becomes
<1>8. QED
  <2> DEFINE due == {k \in Keys : Candidate(Seeded[k]) /\ ~Ahead(Seeded[k], k)}
             longest == {k \in due : \A j \in due : At(Seeded[k], k) <= At(Seeded[j], j)}
  <2>1. \/ slots' = Seeded /\ UNCHANGED agent
        \/ \E k \in longest :
             /\ slots' = Claimed(w, Seeded, k)
             /\ agent' = IF slots'[k].state = "processing"
                         THEN [agent EXCEPT ![w] = [Idle EXCEPT !.pc = "claimed", !.key = k]]
                         ELSE agent
    BY Zenon DEF Claim
  <2>2. longest \subseteq {k \in Keys : Candidate(Seeded[k])}
    OBVIOUS
  <2> HIDE DEF longest
  <2>3. QED
    BY <1>6, <1>7, <2>1, <2>2, Zenon

LEMMA LoadOwnerStep ==
  ASSUME Parameters, Inv, NEW w \in Workers, LoadOwner(w)
  PROVE  Inv'
<1>1. agent[w].pc \in {"claimed", "built"} /\ phase' = phase /\ owner' = owner /\ slots' = slots
  BY DEF LoadOwner
<1>2. agent[w] \in AgentState
  BY FieldsOfAgent DEF Inv
<1>3. PICK a : Becomes(w, a) /\ a.pc # "sending"
  <2>1. CASE agent' = [agent EXCEPT ![w].pc = "answered", ![w].answer = "transient"]
    <3> DEFINE a == [agent[w] EXCEPT !.pc = "answered", !.answer = "transient"]
    <3>1. a \in AgentState /\ a.pc # "sending"
      BY <1>2 DEF AgentState
    <3>2. agent' = [agent EXCEPT ![w] = a]
      BY <2>1, SlotsAreSlots DEF Inv
    <3>3. QED
      BY <3>1, <3>2 DEF Becomes
  <2>2. ASSUME NEW pc \in {"withdrawn", "built", "ready"}, Go(w, pc)
        PROVE  \E a : Becomes(w, a) /\ a.pc # "sending"
    <3> DEFINE a == [agent[w] EXCEPT !.pc = pc]
    <3>1. a \in AgentState /\ a.pc # "sending"
      BY <1>2 DEF AgentState
    <3>2. agent' = [agent EXCEPT ![w] = a]
      BY <2>2, SlotsAreSlots DEF Inv, Go
    <3>3. QED
      BY <3>1, <3>2 DEF Becomes
  <2>3. QED
    BY <2>1, <2>2 DEF LoadOwner
<1>4. QED
  BY <1>1, <1>3, WorkerAlone

LEMMA RenewStep ==
  ASSUME Parameters, Inv, NEW w \in Workers, Renew(w)
  PROVE  Inv'
<1> DEFINE k == agent[w].key
           a == [agent[w] EXCEPT !.pc = "sending"]
           i == [agent[w] EXCEPT !.pc = "idle"]
           r == [slots[k] EXCEPT !.live = TRUE]
<1>1. agent[w].pc = "ready" /\ phase' = phase /\ owner' = owner
  BY DEF Renew
<1>2. agent[w] \in AgentState /\ k \in Keys /\ slots[k] \in Slot
  BY FieldsOfAgent DEF Inv
<1>3. CASE Owns(w)
  <2>1. Becomes(w, a) /\ a.key = k /\ a.pc = "sending"
    BY <1>2, <1>3, SlotsAreSlots DEF Inv, Renew, Go, Becomes, AgentState
  <2>2. slots' = [slots EXCEPT ![k] = r]
    BY <1>2, <1>3, SlotsAreSlots DEF Inv, Renew
  <2>3. r \in Slot /\ Held(r, w) /\ r.message = slots[k].message
    BY <1>2, <1>3 DEF Slot, Held, Owns
  <2>4. \A u \in Workers : u # w => ~Held(slots[k], u)
    BY <1>3 DEF Held, Owns
  <2>5. \A j \in Keys : ~Reports(agent[w], slots[j], w, j)
    BY <1>1, ReportsItsSlot
  <2>6. slots[k].message \notin {"known", "twice"}
    BY <1>2, <1>3, <2>4, <2>5 DEF Inv, DeliveryInv, DigestOnce, ReportInv, Reports, Owns
  <2> HIDE DEF a, r, k
  <2>7. slots' \in [Keys -> Slot] /\ slots'[k] = r /\ \A j \in Keys : j # k => slots'[j] = slots[j]
    BY <1>2, <2>2, <2>3, RowOfStep, SlotsAreSlots DEF Inv
  <2>8. \A j \in Keys : j # k => Kept(slots[j], slots'[j])
    BY <2>7, KeptSame
  <2>9. QED
    BY <1>1, <1>2, <2>1, <2>3, <2>4, <2>5, <2>6, <2>7, <2>8, WorkerMoves, SlotsAreSlots DEF Inv
<1>4. CASE ~Owns(w)
  <2>1. Becomes(w, i) /\ i.pc = "idle" /\ slots' = slots
    BY <1>2, <1>4, SlotsAreSlots DEF Inv, Renew, Go, Becomes, AgentState
  <2>2. QED
    BY <1>1, <2>1, WorkerAlone
<1>5. QED
  BY <1>3, <1>4

\* Who sends holds the row, so nobody else can have sent what it still reports.
LEMMA SendStep ==
  ASSUME Parameters, Inv, NEW w \in Workers, Send(w)
  PROVE  Inv'
<1> DEFINE k == agent[w].key
<1>1. agent[w].pc = "sending" /\ phase' = phase /\ owner' = owner
  BY DEF Send
<1>2. agent[w] \in AgentState /\ k \in Keys /\ slots[k] \in Slot
  BY FieldsOfAgent DEF Inv
<1>3. Held(slots[k], w)
  BY <1>1 DEF Inv, DeliveryInv, SendInv
<1>4. PICK answer \in {"ok", "transient", "terminal"}, reached \in BOOLEAN :
        /\ answer = "ok" => reached
        /\ agent' = [agent EXCEPT ![w].pc = "answered", ![w].answer = answer]
        /\ slots' = IF reached THEN [slots EXCEPT ![k].message = Arrives(@, answer = "ok" /\ Holds(w))]
                    ELSE slots
  BY DEF Send
<1> DEFINE a == [agent[w] EXCEPT !.pc = "answered", !.answer = answer]
           r == [slots[k] EXCEPT !.message = Arrives(slots[k].message, answer = "ok" /\ Holds(w))]
<1>5. Becomes(w, a) /\ a.key = k /\ a.pc = "answered" /\ a.answer = answer
  BY <1>2, <1>4, SlotsAreSlots DEF Inv, Becomes, AgentState
<1>6. \A j \in Keys : ~Reports(agent[w], slots[j], w, j)
  BY <1>1, ReportsItsSlot
<1>7. \A u \in Workers : u # w => ~Held(slots[k], u)
  BY <1>3, OneHolder
<1>8. slots[k].message \in {"none", "unknown"}
  <2>1. slots[k].message # "known"
    BY <1>2, <1>3, <1>6, KnownIsReported
  <2>2. slots[k].message # "twice"
    BY <1>2 DEF Inv, DeliveryInv, DigestOnce
  <2>3. QED
    BY <1>2, <2>1, <2>2 DEF Slot
<1>9. CASE ~reached
  <2>1. slots' = slots /\ \A j \in Keys : Kept(slots[j], slots'[j])
    BY <1>4, <1>9, KeptSame
  <2> HIDE DEF a, k
  <2>2. QED
    BY <1>1, <1>2, <1>5, <1>6, <1>8, <2>1, WorkerMoves, SlotsAreSlots DEF Inv
<1>10. CASE reached
  <2>1. slots' = [slots EXCEPT ![k] = r]
    BY <1>2, <1>4, <1>10, SlotsAreSlots DEF Inv
  <2>2. /\ Arrives(slots[k].message, answer = "ok" /\ Holds(w)) \in {"known", "unknown"}
        /\ Arrives(slots[k].message, answer = "ok" /\ Holds(w)) = "known" => answer = "ok"
    BY <1>8 DEF Arrives
  <2>3. r \in Slot /\ Held(r, w) /\ r.message \in {"known", "unknown"}
        /\ (r.message = "known" => answer = "ok")
    BY <1>2, <1>3, <2>2 DEF Slot, Held
  <2>4. r.message = "known" => Reports(a, r, w, k)
    BY <1>5, <2>3 DEF Reports
  <2> HIDE DEF a, r, k
  <2>5. slots' \in [Keys -> Slot] /\ slots'[k] = r /\ \A j \in Keys : j # k => slots'[j] = slots[j]
    BY <1>2, <2>1, <2>3, RowOfStep, SlotsAreSlots DEF Inv
  <2>6. \A j \in Keys : j # k => Kept(slots[j], slots'[j])
    BY <2>5, KeptSame
  <2>7. QED
    BY <1>1, <1>2, <1>5, <1>6, <1>7, <2>3, <2>4, <2>5, <2>6, WorkerMoves, SlotsAreSlots DEF Inv
<1>11. QED
  BY <1>9, <1>10

\* Worker w, which holds its slot, leaves it: r is the row it writes.
LEMMA SlotLeft ==
  ASSUME Parameters, Inv, NEW w \in Workers, Holds(w),
         agent' = [agent EXCEPT ![w] = Idle], phase' = phase,
         owner' \in Owners,
         NEW r \in Slot, r.message = slots[agent[w].key].message,
         agent[w].pc = "answered" /\ agent[w].answer = "ok" => r.state = "closed",
         NEW rows, rows = [slots EXCEPT ![agent[w].key] = r],
         slots' \in [Keys -> Slot], \A j \in Keys : Kept(rows[j], slots'[j])
  PROVE  Inv'
<1> DEFINE k == agent[w].key
<1>1. k \in Keys /\ Held(slots[k], w)
  BY FieldsOfAgent, HoldsIsHeld DEF Inv
<1> HIDE DEF k
<1>2. rows[k] = r /\ \A j \in Keys : j # k => rows[j] = slots[j]
  BY <1>1, RowOfStep, SlotsAreSlots DEF Inv, k
<1>3. \A u \in Workers : u # w => ~Held(slots[k], u)
  BY <1>1, OneHolder
<1>4. slots'[k].message = slots[k].message /\ slots[k].message # "twice"
  BY <1>1, <1>2 DEF Inv, DeliveryInv, DigestOnce, Kept, k
<1>5. slots'[k].message = "known" => slots'[k].state = "closed"
  <2>1. slots[k].message = "known" => agent[w].pc = "answered" /\ agent[w].answer = "ok"
    BY <1>1, KnownIsReported DEF Reports
  <2>2. QED
    BY <1>1, <1>2, <1>4, <2>1 DEF Kept
<1>6. \A j \in Keys : j # k => Kept(slots[j], slots'[j]) /\ ~Reports(agent[w], slots[j], w, j)
  BY <1>2, ReportsItsSlot DEF k
<1>7. Becomes(w, Idle) /\ Idle.pc = "idle"
  BY IdleIsAnAgent DEF Becomes
<1>8. QED
  BY <1>1, <1>3, <1>4, <1>5, <1>6, <1>7, WorkerMoves

\* Worker w gives up a slot that it does not hold.
LEMMA SlotLost ==
  ASSUME Parameters, Inv, NEW w \in Workers, ~Holds(w) \/ agent[w].answer # "ok",
         agent' = [agent EXCEPT ![w] = Idle],
         phase' = phase, owner' = owner, slots' = slots
  PROVE  Inv'
<1>1. Becomes(w, Idle) /\ Idle.pc = "idle"
  BY IdleIsAnAgent DEF Becomes
<1>2. QED
  BY <1>1, HoldsIsHeld, WorkerAlone

LEMMA ClosedRow ==
  ASSUME Parameters, Inv, NEW w \in Workers, NEW s \in SlotStates
  PROVE  /\ Ended(slots[agent[w].key], s) \in Slot
         /\ Ended(slots[agent[w].key], s).state = s
         /\ Ended(slots[agent[w].key], s).message = slots[agent[w].key].message
         /\ Closed(w, s) = [slots EXCEPT ![agent[w].key] = Ended(slots[agent[w].key], s)]
         /\ Closed(w, s) \in [Keys -> Slot]
<1>1. agent[w].key \in Keys /\ slots[agent[w].key] \in Slot /\ slots \in [Keys -> Slot]
  BY FieldsOfAgent, SlotsAreSlots DEF Inv
<1>2. /\ Ended(slots[agent[w].key], s) \in Slot
      /\ Ended(slots[agent[w].key], s).state = s
      /\ Ended(slots[agent[w].key], s).message = slots[agent[w].key].message
  BY <1>1, EndedRow
<1>3. Closed(w, s) = [slots EXCEPT ![agent[w].key] = Ended(slots[agent[w].key], s)]
  BY <1>1 DEF Closed
<1>4. QED
  BY <1>1, <1>2, <1>3

\* Worker w, which holds its slot, closes it or withdraws it.
LEMMA SlotClosed ==
  ASSUME Parameters, Inv, NEW w \in Workers, Holds(w), NEW s \in {"closed", "open"},
         agent[w].pc = "answered" /\ agent[w].answer = "ok" => s = "closed",
         agent' = [agent EXCEPT ![w] = Idle], phase' = phase,
         owner' \in Owners,
         slots' \in [Keys -> Slot], \A j \in Keys : Kept(Closed(w, s)[j], slots'[j])
  PROVE  Inv'
<1> DEFINE r == Ended(slots[agent[w].key], s)
<1>1. s \in SlotStates
  BY DEF SlotStates
<1>2. r \in Slot /\ r.state = s /\ r.message = slots[agent[w].key].message
  BY <1>1, ClosedRow
<1>3. Closed(w, s) = [slots EXCEPT ![agent[w].key] = r]
  BY <1>1, ClosedRow
<1> HIDE DEF r
<1>4. QED
  BY <1>2, <1>3, SlotLeft

LEMMA OwnersAre ==
  ASSUME Inv
  PROVE  /\ owner \in Owners
         /\ [owner EXCEPT !.seeded = owner.enabled] \in Owners
         /\ [owner EXCEPT !.seeded = @ \/ owner.enabled] \in Owners
         /\ [owner EXCEPT !.enabled = FALSE, !.seeded = FALSE] \in Owners
BY SlotsAreSlots DEF Inv, Owners

LEMMA FinalizeSuccessStep ==
  ASSUME Parameters, Inv, NEW w \in Workers, FinalizeSuccess(w)
  PROVE  Inv'
<1>1. agent' = [agent EXCEPT ![w] = Idle] /\ phase' = phase
  BY DEF FinalizeSuccess
<1>2. CASE Holds(w)
  <2>1. slots' = Chain(Closed(w, "closed"))
        /\ owner' \in Owners
    BY <1>2, OwnersAre DEF FinalizeSuccess
  <2>2. slots' \in [Keys -> Slot] /\ \A j \in Keys : Kept(Closed(w, "closed")[j], slots'[j])
    BY <2>1, ClosedRow, ChainRows DEF SlotStates, Inv
  <2>3. QED
    BY <1>1, <1>2, <2>1, <2>2, SlotClosed
<1>3. CASE ~Holds(w)
  <2>1. slots' = slots /\ owner' = owner
    BY <1>3 DEF FinalizeSuccess
  <2>2. QED
    BY <1>1, <1>3, <2>1, SlotLost
<1>4. QED
  BY <1>2, <1>3

LEMMA FinalizeFailureStep ==
  ASSUME Parameters, Inv, NEW w \in Workers, FinalizeFailure(w)
  PROVE  Inv'
<1> DEFINE k == agent[w].key
<1>1. /\ agent' = [agent EXCEPT ![w] = Idle] /\ phase' = phase
      /\ agent[w].pc = "answered" /\ agent[w].answer # "ok"
  BY DEF FinalizeFailure
<1>2. CASE ~Holds(w)
  <2>1. slots' = slots /\ owner' = owner
    BY <1>2 DEF FinalizeFailure
  <2>2. QED
    BY <1>1, <1>2, <2>1, SlotLost
<1>3. CASE Holds(w) /\ agent[w].answer = "terminal"
  <2>1. slots' = Withdrawn(Closed(w, "closed"), BOOLEAN)
        /\ owner' \in Owners
    BY <1>3, OwnersAre DEF FinalizeFailure
  <2>2. slots' \in [Keys -> Slot] /\ \A j \in Keys : Kept(Closed(w, "closed")[j], slots'[j])
    BY <2>1, ClosedRow, WithdrawnRows DEF SlotStates
  <2>3. QED
    BY <1>1, <1>3, <2>1, <2>2, SlotClosed
<1>4. CASE Holds(w) /\ agent[w].answer # "terminal" /\ Exhausted(slots[k])
  <2>1. slots' = Chain(Closed(w, "closed"))
        /\ owner' \in Owners
    BY <1>4, OwnersAre DEF FinalizeFailure
  <2>2. slots' \in [Keys -> Slot] /\ \A j \in Keys : Kept(Closed(w, "closed")[j], slots'[j])
    BY <2>1, ClosedRow, ChainRows DEF SlotStates, Inv
  <2>3. QED
    BY <1>1, <1>4, <2>1, <2>2, SlotClosed
<1>5. CASE Holds(w) /\ agent[w].answer # "terminal" /\ ~Exhausted(slots[k])
  <2> DEFINE r == [slots[k] EXCEPT !.state = "pending", !.due = FALSE, !.live = FALSE, !.token = Null]
  <2>1. slots[k] \in Slot /\ k \in Keys
    BY FieldsOfAgent DEF Inv
  <2>2. r \in Slot /\ r.message = slots[k].message
    BY <2>1 DEF Slot
  <2>3. slots' = [slots EXCEPT ![k] = r] /\ owner' = owner
    BY <1>5, <2>1 DEF FinalizeFailure
  <2> HIDE DEF r
  <2>4. slots' \in [Keys -> Slot] /\ \A j \in Keys : Kept(slots'[j], slots'[j])
    BY <2>1, <2>2, <2>3, RowOfStep, SlotsAreSlots, KeptSame DEF Inv
  <2>5. QED
    BY <1>1, <1>5, <2>2, <2>3, <2>4, OwnersAre, SlotLeft
<1>6. QED
  BY <1>2, <1>3, <1>4, <1>5

LEMMA SuppressStep ==
  ASSUME Parameters, Inv, NEW w \in Workers, Suppress(w)
  PROVE  Inv'
<1>1. /\ agent' = [agent EXCEPT ![w] = Idle] /\ phase' = phase /\ owner' = owner
      /\ agent[w].pc = "withdrawn"
  BY DEF Suppress
<1>2. CASE Holds(w)
  <2>1. slots' = Closed(w, "open")
    BY <1>2 DEF Suppress
  <2>2. slots' \in [Keys -> Slot] /\ \A j \in Keys : Kept(Closed(w, "open")[j], slots'[j])
    BY <2>1, ClosedRow, KeptSame DEF SlotStates
  <2>3. QED
    BY <1>1, <1>2, <2>1, <2>2, OwnersAre, SlotClosed
<1>3. CASE ~Holds(w)
  BY <1>1, <1>3, SlotLost DEF Suppress
<1>4. QED
  BY <1>2, <1>3

\* What a worker could report, and died before it did, the table will not learn.
LEMMA CrashStep ==
  ASSUME Parameters, Inv, NEW w \in Workers, Crash(w)
  PROVE  Inv'
<1> DEFINE k == agent[w].key
           r == [slots[k] EXCEPT !.message = Lost(slots[k].message)]
<1>1. agent' = [agent EXCEPT ![w] = Idle] /\ phase' = phase /\ owner' = owner
  BY DEF Crash
<1>2. CASE ~(agent[w].answer = "ok" /\ Holds(w))
  <2>1. slots' = slots
    BY <1>2 DEF Crash
  <2>2. QED
    BY <1>1, <1>2, <2>1, SlotLost
<1>3. CASE agent[w].answer = "ok" /\ Holds(w)
  <2>1. slots[k] \in Slot /\ k \in Keys /\ Held(slots[k], w) /\ slots[k].message # "twice"
    BY <1>3, FieldsOfAgent, HoldsIsHeld DEF Inv, DeliveryInv, DigestOnce
  <2>2. slots' = [slots EXCEPT ![k] = r]
    BY <1>3, <2>1 DEF Crash
  <2>3. r \in Slot /\ r.message \notin {"known", "twice"}
    BY <2>1 DEF Slot, Lost
  <2> HIDE DEF r
  <2>4. slots' \in [Keys -> Slot] /\ slots'[k] = r /\ \A j \in Keys : j # k => slots'[j] = slots[j]
    BY <2>1, <2>2, <2>3, RowOfStep, SlotsAreSlots DEF Inv
  <2>5. \A j \in Keys : j # k => Kept(slots[j], slots'[j]) /\ ~Reports(agent[w], slots[j], w, j)
    BY <2>4, KeptSame, ReportsItsSlot
  <2>6. \A u \in Workers : u # w => ~Held(slots[k], u)
    BY <2>1, OneHolder
  <2>7. Becomes(w, Idle) /\ Idle.pc = "idle"
    BY <1>1, IdleIsAnAgent DEF Becomes
  <2> HIDE DEF k
  <2>8. QED
    BY <1>1, <2>1, <2>3, <2>4, <2>5, <2>6, <2>7, OwnersAre, WorkerMoves
<1>4. QED
  BY <1>2, <1>3

-----------------------------------------------------------------------------
(* The theorems                                                             *)

LEMMA NextInv ==
  ASSUME Parameters, Inv, [Next]_vars
  PROVE  Inv'
<1>1. CASE Switch \/ Move \/ Tick
  BY <1>1, SwitchStep, MoveStep, TickStep
<1>2. CASE \E k \in Keys : SlotComesDue(k)
  BY <1>2, SlotComesDueStep
<1>3. ASSUME NEW w \in Workers, WorkerStep(w) \/ Crash(w) PROVE Inv'
  BY <1>3, ClaimStep, LoadOwnerStep, RenewStep, SendStep, FinalizeSuccessStep, FinalizeFailureStep,
     SuppressStep, CrashStep DEF WorkerStep
<1>4. CASE UNCHANGED vars
  <2>1. phase' = phase /\ owner' = owner /\ slots' = slots /\ agent' = agent
    BY <1>4 DEF vars
  <2>2. QED
    BY <2>1, SlotsAreSlots, TypesOfStep, DeliveryOfSchedule, KeptSame DEF Inv
<1>5. QED
  BY <1>1, <1>2, <1>3, <1>4 DEF Next

LEMMA SpecSteps == Spec => Init /\ [][Next]_vars
BY PTL DEF Spec

LEMMA Invariance ==
  ASSUME Parameters
  PROVE  Spec => []Inv
<1>1. Init => Inv
  BY InitTypes, InitDelivery DEF Inv
<1>2. Inv /\ [Next]_vars => Inv'
  BY NextInv
<1>3. QED
  BY <1>1, <1>2, SpecSteps, PTL

\* The variables keep their types (claim_due_digests never counts an attempt
\* past worker_max_attempts), for any number of workers.
THEOREM TypeCorrect ==
  ASSUME Parameters
  PROVE  Spec => []TypeOK
<1>1. Inv => TypeOK
  BY DEF Inv, Types
<1>2. QED
  BY <1>1, Invariance, PTL

\* A digest whose sender can record that it arrived is not sent again: a worker
\* that took the row over, a user who switched digests off and on or moved, a
\* crash and the end of a lease leave nobody who could (renew_digest_delivery_lease
\* and finalize_digest_success ask for the token; only rows out of lease are taken).
THEOREM DigestsOnce ==
  ASSUME Parameters
  PROVE  Spec => []DigestOnce
<1>1. Inv => DigestOnce
  BY DEF Inv, DeliveryInv
<1>2. QED
  BY <1>1, Invariance, PTL

-----------------------------------------------------------------------------
(* The chain of slots                                                       *)

\* What the chain rests on: one worker, and a second period whose slot remains
\* when that worker withdraws the slot of the first.
OneWorker == \A u, w \in Workers : u = w
TwoPeriods == \A p \in Periods : \E q \in Periods : q # p

\* Every period has a slot that waits.
Covered(rows) == \A p \in Periods : \E d \in Dates : Waits(rows[<<p, d>>])

\* No slot later than the user's clock was claimed, nor is the time of one that
\* waits by a clock that was ahead of it.
AheadUnclaimed(rows) ==
  \A k \in Keys : /\ Later(k) => rows[k].state \in {"open", "pending"}
                  /\ rows[k].zone <= owner.zone

ClaimsPassed == \A w \in Workers : agent[w].pc # "idle" => ~Later(agent[w].key)

\* A worker that is about to withdraw its slot found the digests off; if they
\* are on, they were switched on since, which gave every period its slot.
WithdrawalCovered ==
  \A w \in Workers :
    agent[w].pc = "withdrawn" /\ owner.enabled /\ owner.seeded => Covered(slots)

\* Of a user whose clock was not set back.
ChainInv ==
  AheadUnclaimed(slots) /\ ClaimsPassed /\ WithdrawalCovered /\ ChainHolds

LEMMA KeyParts ==
  /\ \A k \in Keys : k[1] \in Periods /\ k[2] \in Dates /\ k = <<k[1], k[2]>>
  /\ \A p \in Periods : \A d \in Dates : <<p, d>> \in Keys
BY DEF Keys

LEMMA Clocks ==
  ASSUME Parameters, Types
  PROVE  /\ owner.zone \in 0..3 /\ Local \in 0..6 /\ Today \in {0, 1}
         /\ 4 * Today <= Local /\ Local < 4 * Today + 4
         /\ \A k \in Keys : k[2] \in Int /\ Comes(k[1]) \in {1, 3}
         /\ \A r \in Slot : r.zone \in 0..3
<1>1. phase \in 0..3 /\ owner.zone \in 0..3 /\ \A z \in Zones \union {0} : z \in 0..3
  <2>1. \A z \in Zones \union {0} : z \in 0..3
    BY DEF Parameters
  <2>2. phase \in 0..3 /\ owner.zone \in Zones
    BY DEF Types, TypeOK
  <2>3. QED
    BY <2>1, <2>2
<1>2. \A k \in Keys : k[2] \in Int /\ Comes(k[1]) \in {1, 3}
  BY KeyParts DEF Dates, Comes
<1>3. \A r \in Slot : r.zone \in 0..3
  <2>1. ASSUME NEW r \in Slot PROVE r.zone \in Zones \union {0}
    BY DEF Slot
  <2>2. QED
    BY <1>1, <2>1
<1>4. Local \in 0..6 /\ Local = phase + owner.zone
  BY <1>1 DEF Local
<1>5. Today \in {0, 1} /\ 4 * Today <= Local /\ Local < 4 * Today + 4
  BY <1>4 DEF Today
<1>6. QED
  BY <1>1, <1>2, <1>3, <1>4, <1>5

LEMMA EnsuredState ==
  ASSUME Types, NEW rows \in [Keys -> Slot], NEW b \in BOOLEAN, NEW k \in Keys
  PROVE  /\ k[2] = Wanted(rows, k[1], b) /\ Open(rows[k]) =>
              Ensured(rows, b)[k].state = "pending" /\ Ensured(rows, b)[k].zone = owner.zone
         /\ ~(k[2] = Wanted(rows, k[1], b) /\ Open(rows[k])) => Ensured(rows, b)[k] = rows[k]
BY PendingRow DEF Ensured

\* _ensure_digest_schedule leaves every period with a slot that waits.
LEMMA EnsuredCovers ==
  ASSUME Parameters, Types, NEW rows \in [Keys -> Slot], NEW b \in BOOLEAN, AheadUnclaimed(rows)
  PROVE  Covered(Ensured(rows, b)) /\ AheadUnclaimed(Ensured(rows, b))
<1>1. ASSUME NEW p \in Periods
      PROVE  \E d \in Dates : Waits(Ensured(rows, b)[<<p, d>>])
  <2> DEFINE d == Wanted(rows, p, b)
             k == <<p, d>>
  <2>1. d \in {Today, Today + 1} /\ Today \in {0, 1}
    BY Clocks DEF Wanted
  <2>2. d \in Dates
    BY <2>1 DEF Dates
  <2> HIDE DEF d
  <2>3. k \in Keys /\ k[1] = p /\ k[2] = d
    BY <2>2, KeyParts
  <2>4. Open(rows[k]) \/ Waits(rows[k])
    <3>1. CASE Later(k)
      BY <2>3, <3>1 DEF AheadUnclaimed, Open, Waits
    <3>2. CASE ~Later(k)
      <4>1. d = Today
        BY <2>1, <2>3, <3>2, Clocks DEF Later
      <4>2. k = <<p, Today>>
        BY <4>1
      <4>3. d # Today + 1
        BY <4>1, Clocks
      <4>4. QED
        BY <3>2, <4>2, <4>3 DEF Wanted, d
    <3>3. QED
      BY <3>1, <3>2
  <2> HIDE DEF k
  <2>5. Waits(Ensured(rows, b)[k])
    <3>1. CASE Open(rows[k])
      BY <2>3, <3>1, EnsuredState DEF Waits, d
    <3>2. CASE ~Open(rows[k])
      BY <2>3, <2>4, <3>2, EnsuredState
    <3>3. QED
      BY <3>1, <3>2
  <2>6. QED
    BY <2>2, <2>5 DEF k
<1>2. ASSUME NEW k \in Keys
      PROVE  /\ Later(k) => Ensured(rows, b)[k].state \in {"open", "pending"}
             /\ Ensured(rows, b)[k].zone <= owner.zone
  BY EnsuredState, Clocks DEF AheadUnclaimed
<1>3. QED
  BY <1>1, <1>2 DEF Covered, AheadUnclaimed

LEMMA EndedAhead ==
  ASSUME Parameters, Types, NEW r \in Slot, NEW s \in SlotStates
  PROVE  Ended(r, s).zone <= owner.zone
<1>1. Ended(r, s).zone = 0
  BY DEF Ended, Nothing
<1>2. QED
  BY <1>1, Clocks

LEMMA WithdrawnAhead ==
  ASSUME Parameters, Types, NEW rows \in [Keys -> Slot], AheadUnclaimed(rows), NEW chats
  PROVE  AheadUnclaimed(Withdrawn(rows, chats))
<1>1. \A k \in Keys : Ended(rows[k], "open").state = "open" /\ Ended(rows[k], "open").zone <= owner.zone
  BY EndedRow, EndedAhead DEF SlotStates
<1>2. \A k \in Keys : \/ Withdrawn(rows, chats)[k] = Ended(rows[k], "open")
                       \/ Withdrawn(rows, chats)[k] = rows[k]
  BY DEF Withdrawn
<1>3. QED
  BY <1>1, <1>2 DEF AheadUnclaimed

\* Every end of a slot opens the next one of every period.
LEMMA ChainCovers ==
  ASSUME Parameters, Types, NEW rows \in [Keys -> Slot], AheadUnclaimed(rows)
  PROVE  /\ owner.enabled => Covered(Chain(rows))
         /\ AheadUnclaimed(Chain(rows))
<1>1. CASE owner.enabled
  BY <1>1, EnsuredCovers DEF Chain
<1>2. CASE ~owner.enabled
  BY <1>2 DEF Chain
<1>3. QED
  BY <1>1, <1>2

LEMMA SomeSlot ==
  ASSUME Parameters, NEW rows, Covered(rows)
  PROVE  \E k \in Keys : Waits(rows[k])
BY KeyParts DEF Parameters, Covered

\* A step of the schedule: every period is covered, or the digests are off.
LEMMA CoveredStep ==
  ASSUME Parameters, phase' = phase, owner'.zone = owner.zone, AheadUnclaimed(slots'), ClaimsPassed',
         owner'.enabled /\ owner'.seeded => Covered(slots')
  PROVE  ChainInv'
<1>1. AheadUnclaimed(slots)'
  BY DEF AheadUnclaimed, Later, Local
<1>2. WithdrawalCovered'
  BY DEF WithdrawalCovered, Covered, Waits
<1>3. ChainHolds'
  BY SomeSlot DEF ChainHolds, Waits
<1>4. QED
  BY <1>1, <1>2, <1>3 DEF ChainInv

\* A step that leaves the states of the slots alone.
LEMMA StatesKept ==
  ASSUME Inv, ChainInv, phase' = phase, owner' = owner,
         \A k \in Keys : slots'[k].state = slots[k].state /\ slots'[k].zone = slots[k].zone,
         \A w \in Workers : /\ agent'[w].pc # "idle" => agent[w].pc # "idle" /\ agent'[w].key = agent[w].key
                            /\ agent'[w].pc = "withdrawn" => agent[w].pc = "withdrawn" \/ ~owner.enabled
  PROVE  ChainInv'
<1>1. AheadUnclaimed(slots)'
  BY DEF ChainInv, AheadUnclaimed, Later, Local
<1>2. ClaimsPassed'
  BY DEF ChainInv, ClaimsPassed, Later, Local
<1>3. Covered(slots) => Covered(slots)'
  BY KeyParts DEF Covered, Waits
<1>4. WithdrawalCovered'
  BY <1>3 DEF ChainInv, WithdrawalCovered
<1>5. ChainHolds'
  BY DEF ChainInv, ChainHolds, Waits
<1>6. QED
  BY <1>1, <1>2, <1>4, <1>5 DEF ChainInv

\* Nothing changes at the only worker but that it becomes idle or takes a slot.
LEMMA SlotWaits ==
  ASSUME OneWorker, NEW w \in Workers, agent'[w].pc # "withdrawn",
         phase' = phase, owner'.zone = owner.zone, AheadUnclaimed(slots'), ClaimsPassed',
         NEW k \in Keys, Waits(slots'[k])
  PROVE  ChainInv'
<1>1. AheadUnclaimed(slots)'
  BY DEF AheadUnclaimed, Later, Local
<1>2. WithdrawalCovered'
  BY DEF WithdrawalCovered, OneWorker
<1>3. ChainHolds'
  BY DEF ChainHolds, Waits
<1>4. QED
  BY <1>1, <1>2, <1>3 DEF ChainInv

LEMMA ChainSwitch ==
  ASSUME Parameters, Inv, ChainInv, Switch
  PROVE  ChainInv'
<1>1. /\ phase' = phase /\ agent' = agent /\ slots \in [Keys -> Slot] /\ AheadUnclaimed(slots)
      /\ owner \in Owners /\ owner'.zone = owner.zone /\ Types
  BY SlotsAreSlots DEF Switch, Inv, ChainInv, Owners
<1>2. ClaimsPassed'
  BY <1>1 DEF ChainInv, ClaimsPassed, Later, Local
<1>3. CASE slots' = Ensured(slots, FALSE)
  BY <1>1, <1>2, <1>3, EnsuredCovers, CoveredStep
<1>4. CASE slots' = Withdrawn(slots, {TRUE}) /\ ~owner'.enabled
  <2>1. AheadUnclaimed(Withdrawn(slots, {TRUE}))
    BY <1>1, WithdrawnAhead
  <2>2. QED
    BY <1>1, <1>2, <1>4, <2>1, CoveredStep
<1>5. owner \in Owners /\ (slots' = Ensured(slots, FALSE) \/ (slots' = Withdrawn(slots, {TRUE})
                            /\ owner' = [owner EXCEPT !.enabled = FALSE, !.seeded = FALSE]))
  BY <1>1 DEF Switch
<1>6. QED
  BY <1>3, <1>4, <1>5 DEF Owners

\* A clock that is set forward leaves behind it what was behind it.
LEMMA ChainMove ==
  ASSUME Parameters, Inv, ChainInv, Move, ~owner'.west
  PROVE  ChainInv'
<1> DEFINE kept == IF owner.enabled THEN Withdrawn(slots, BOOLEAN) ELSE slots
<1>1. /\ phase' = phase /\ agent' = agent /\ slots \in [Keys -> Slot] /\ AheadUnclaimed(slots)
      /\ owner \in Owners /\ Types
  BY SlotsAreSlots DEF Move, Inv, ChainInv
<1>2. AheadUnclaimed(kept) /\ kept \in [Keys -> Slot]
  BY <1>1, WithdrawnRows, WithdrawnAhead
<1> HIDE DEF kept
<1>3. PICK zone \in Zones, elsewhere \in BOOLEAN :
        /\ owner' = [owner EXCEPT !.seeded = FALSE, !.zone = zone, !.west = @ \/ zone < owner.zone]
        /\ slots' = [k \in Keys |-> IF elsewhere /\ Waits(kept[k])
                                    THEN [kept[k] EXCEPT !.here = ~@] ELSE kept[k]]
  BY Zenon DEF Move, kept
<1>4. ~owner'.seeded /\ owner'.zone = zone /\ zone \in 0..3 /\ owner.zone \in 0..3 /\ owner.zone <= zone
  <2>1. zone \in 0..3 /\ owner.zone \in 0..3
    BY <1>1, Clocks DEF Parameters
  <2>2. owner' \in Owners /\ owner'.west = (owner.west \/ zone < owner.zone)
        /\ owner'.zone = zone /\ owner'.seeded = FALSE
    BY <1>1, <1>3 DEF Owners
  <2>3. ~(zone < owner.zone)
    BY <2>2, Zenon
  <2>4. QED
    BY <2>1, <2>2, <2>3
<1>5. \A k \in Keys : slots'[k].state = kept[k].state /\ slots'[k].zone = kept[k].zone
  BY <1>2, <1>3 DEF Slot
<1>6. \A k \in Keys : Later(k)' => Later(k)
  BY <1>1, <1>4, Clocks DEF Later, Local, Types, TypeOK
<1>7. AheadUnclaimed(slots)'
  <2>1. \A k \in Keys : kept[k].zone \in 0..3
    BY <1>1, <1>2, Clocks
  <2>2. ASSUME NEW k \in Keys
        PROVE  /\ Later(k)' => slots'[k].state \in {"open", "pending"}
               /\ slots'[k].zone <= owner'.zone
    BY <1>2, <1>4, <1>5, <1>6, <2>1 DEF AheadUnclaimed
  <2>3. QED
    BY <2>2 DEF AheadUnclaimed
<1>8. ClaimsPassed'
  BY <1>1, <1>6, FieldsOfAgent DEF ChainInv, ClaimsPassed
<1>9. QED
  BY <1>4, <1>7, <1>8 DEF ChainInv, WithdrawalCovered, ChainHolds

\* At midnight the slot of a date becomes that of the date before.
LEMMA ChainTick ==
  ASSUME Parameters, Inv, ChainInv, Tick
  PROVE  ChainInv'
<1>1. /\ \A w \in Workers : agent'[w].pc = "idle"
      /\ owner' = owner /\ phase' = (phase + 1) % 4 /\ Types
      /\ phase \in 0..3 /\ slots \in [Keys -> Slot] /\ AheadUnclaimed(slots) /\ ChainHolds
  BY SlotsAreSlots DEF Tick, Inv, ChainInv
<1>2. ASSUME NEW r \in Slot
      PROVE  /\ Forgotten(r).state = r.state
             /\ r.zone <= owner.zone => Forgotten(r).zone <= owner.zone
  BY <1>1, Clocks DEF Forgotten, Nothing
<1>3. CASE phase # 3
  <2>1. phase' = phase + 1
    BY <1>1, <1>3
  <2>2. slots' = [k \in Keys |-> Forgotten(slots[k])]
    BY <1>3 DEF Tick
  <2>3. \A k \in Keys : Later(k)' => Later(k)
    BY <1>1, <2>1, Clocks DEF Later, Local
  <2>4. AheadUnclaimed(slots)'
    BY <1>1, <1>2, <2>2, <2>3 DEF AheadUnclaimed
  <2>5. ChainHolds'
    BY <1>1, <1>2, <2>2 DEF ChainHolds, Waits
  <2>6. QED
    BY <1>1, <2>4, <2>5 DEF ChainInv, ClaimsPassed, WithdrawalCovered
<1>4. CASE phase = 3
  <2>1. phase' = 0 /\ \A p \in Periods : ~Waits(slots[<<p, -1>>])
    BY <1>1, <1>4 DEF Tick
  <2>2. slots' = [k \in Keys |->
                    IF k[2] = 2 THEN Nothing
                    ELSE LET row == slots[<<k[1], k[2] + 1>>]
                         IN IF k[2] = -1 /\ ~Waits(row) THEN Nothing ELSE Forgotten(row)]
    BY <1>4 DEF Tick
  <2>3. Nothing.state = "open" /\ Nothing.zone <= owner.zone
    BY <1>1, Clocks DEF Nothing
  <2>4. AheadUnclaimed(slots)'
    <3>1. ASSUME NEW k \in Keys
          PROVE  /\ Later(k)' => slots'[k].state \in {"open", "pending"}
                 /\ slots'[k].zone <= owner.zone
      <4>1. CASE slots'[k] = Nothing
        BY <2>3, <4>1
      <4>2. CASE k[2] # 2 /\ slots'[k] = Forgotten(slots[<<k[1], k[2] + 1>>])
        <5> DEFINE j == <<k[1], k[2] + 1>>
        <5>1. j \in Keys /\ j[1] = k[1] /\ j[2] = k[2] + 1
          <6>1. k[1] \in Periods /\ k[2] + 1 \in Dates
            BY <4>2, KeyParts DEF Dates
          <6>2. QED
            BY <6>1, KeyParts
        <5> HIDE DEF j
        <5>2. Later(k)' => Later(j)
          BY <1>1, <1>4, <2>1, <5>1, Clocks DEF Later, Local
        <5>3. slots[j] \in Slot /\ slots'[k] = Forgotten(slots[j])
          BY <1>1, <4>2, <5>1 DEF j
        <5>4. QED
          BY <1>1, <1>2, <5>1, <5>2, <5>3 DEF AheadUnclaimed
      <4>3. QED
        BY <2>2, <4>1, <4>2
    <3>2. QED
      BY <1>1, <3>1 DEF AheadUnclaimed
  <2>5. ChainHolds'
    <3>1. SUFFICES ASSUME NEW k \in Keys, Waits(slots[k])
                   PROVE  \E j \in Keys : Waits(slots'[j])
      BY <1>1 DEF ChainHolds, Waits
    <3>2. k = <<k[1], k[2]>> /\ k[1] \in Periods /\ k[2] \in Dates
      BY KeyParts
    <3>3. k[2] # -1
      BY <2>1, <3>1, <3>2
    <3> DEFINE j == <<k[1], k[2] - 1>>
    <3>4. j \in Keys /\ j[1] = k[1] /\ j[2] = k[2] - 1 /\ j[2] # 2 /\ <<j[1], j[2] + 1>> = k
      <4>1. k[2] - 1 \in Dates /\ k[2] - 1 # 2 /\ (k[2] - 1) + 1 = k[2]
        BY <3>2, <3>3 DEF Dates
      <4>2. QED
        BY <3>2, <4>1, KeyParts
    <3> HIDE DEF j
    <3>5. slots'[j] = Forgotten(slots[k])
      BY <2>2, <3>1, <3>4
    <3>6. QED
      BY <1>1, <1>2, <3>1, <3>4, <3>5 DEF Waits
  <2>6. QED
    BY <1>1, <2>4, <2>5 DEF ChainInv, ClaimsPassed, WithdrawalCovered
<1>5. QED
  BY <1>3, <1>4

LEMMA ChainSlotComesDue ==
  ASSUME Inv, ChainInv, NEW k \in Keys, SlotComesDue(k)
  PROVE  ChainInv'
<1>1. phase' = phase /\ owner' = owner /\ agent' = agent /\ slots \in [Keys -> Slot]
  BY SlotsAreSlots DEF SlotComesDue, Inv
<1>2. \A j \in Keys : slots'[j].state = slots[j].state /\ slots'[j].zone = slots[j].zone
  BY <1>1 DEF SlotComesDue, Slot
<1>3. QED
  BY <1>1, <1>2, StatesKept

LEMMA ChainClaim ==
  ASSUME Parameters, OneWorker, Inv, ChainInv, NEW w \in Workers, Claim(w)
  PROVE  ChainInv'
<1>1. /\ agent[w].pc = "idle" /\ phase' = phase /\ owner' = [owner EXCEPT !.seeded = @ \/ owner.enabled]
      /\ owner \in Owners /\ agent \in [Workers -> AgentState]
      /\ slots \in [Keys -> Slot] /\ Seeded \in [Keys -> Slot] /\ AheadUnclaimed(slots) /\ Types
  <2>1. /\ agent[w].pc = "idle" /\ phase' = phase
        /\ owner' = [owner EXCEPT !.seeded = @ \/ owner.enabled]
    BY Zenon DEF Claim
  <2>2. Types /\ AheadUnclaimed(slots)
    BY DEF Inv, ChainInv
  <2>3. /\ owner \in Owners /\ agent \in [Workers -> AgentState]
        /\ slots \in [Keys -> Slot] /\ Seeded \in [Keys -> Slot]
    BY <2>2, SlotsAreSlots, SeededRows
  <2>4. QED
    BY <2>1, <2>2, <2>3, Zenon
<1>2. /\ AheadUnclaimed(Seeded)
      /\ owner.enabled /\ ~owner.seeded => Covered(Seeded)
      /\ ~(owner.enabled /\ ~owner.seeded) => Seeded = slots
  <2>1. CASE owner.enabled /\ ~owner.seeded
    BY <1>1, <2>1, EnsuredCovers DEF Seeded
  <2>2. CASE ~(owner.enabled /\ ~owner.seeded)
    BY <1>1, <2>2 DEF Seeded
  <2>3. QED
    BY <2>1, <2>2
<1>3. owner'.enabled = owner.enabled /\ owner'.zone = owner.zone
  BY <1>1 DEF Owners
<1>4. CASE ~(owner.enabled => owner.seeded) /\ slots' = Seeded /\ agent' = agent
  <2>1. ClaimsPassed'
    BY <1>3, <1>1, <1>4 DEF ChainInv, ClaimsPassed, Later, Local
  <2>2. QED
    BY <1>1, <1>2, <1>3, <1>4, <2>1, CoveredStep
<1>5. ASSUME NEW k \in Keys, ~Ahead(Seeded[k], k), slots' = Claimed(w, Seeded, k),
             agent' = IF slots'[k].state = "processing"
                      THEN [agent EXCEPT ![w] = [Idle EXCEPT !.pc = "claimed", !.key = k]] ELSE agent
      PROVE  ChainInv'
  <2>1. /\ agent'[w].pc \in {"idle", "claimed"}
        /\ agent'[w].pc # "idle" => agent'[w].key = k
        /\ \A u \in Workers : u = w
    <3>1. \A u \in Workers : u = w
      BY Zenon DEF OneWorker
    <3>2. Idle \in AgentState
      BY IdleIsAnAgent
    <3>3. /\ [Idle EXCEPT !.pc = "claimed", !.key = k].pc = "claimed"
          /\ [Idle EXCEPT !.pc = "claimed", !.key = k].key = k
      BY <3>2 DEF AgentState
    <3>4. QED
      BY <1>1, <1>5, <3>1, <3>3
  <2>2. ~Later(k)
    <3>1. Seeded[k].zone \in 0..3 /\ Seeded[k].zone <= owner.zone /\ owner.zone \in 0..3 /\ phase \in 0..3
          /\ k[2] \in Int /\ Comes(k[1]) \in {1, 3}
      BY <1>1, <1>2, Clocks DEF AheadUnclaimed, Types, TypeOK
    <3>2. QED
      BY <1>5, <3>1 DEF Ahead, At, Later, Local
  <2>3. ClaimsPassed'
    BY <1>1, <1>3, <2>1, <2>2 DEF ClaimsPassed, Later, Local
  <2>4. CASE slots' = Chain([Seeded EXCEPT ![k] = Ended(Seeded[k], "closed")])
    <3> DEFINE rows == [Seeded EXCEPT ![k] = Ended(Seeded[k], "closed")]
    <3>1. rows \in [Keys -> Slot] /\ \A j \in Keys : j # k => rows[j] = Seeded[j]
      BY <1>1, EndedRow, RowOfStep DEF SlotStates
    <3>2. slots' = Chain(rows)
      BY <2>4
    <3>3. AheadUnclaimed(rows)
      <4>1. rows[k] = Ended(Seeded[k], "closed") /\ rows[k].zone <= owner.zone
        BY <1>1, EndedAhead DEF rows, SlotStates
      <4>2. QED
        BY <1>2, <2>2, <3>1, <4>1 DEF AheadUnclaimed
    <3> HIDE DEF rows
    <3>4. QED
      BY <1>1, <1>3, <2>3, <3>1, <3>2, <3>3, ChainCovers, CoveredStep
  <2>5. CASE slots' = [Seeded EXCEPT ![k].state = "processing", ![k].live = TRUE, ![k].token = w,
                                     ![k].attempt = @ + 1]
    <3>1. /\ slots'[k].state = "processing" /\ slots'[k].zone = Seeded[k].zone
          /\ \A j \in Keys : j # k => slots'[j] = Seeded[j]
      BY <1>1, <2>5 DEF Slot
    <3>2. AheadUnclaimed(slots')
      BY <1>2, <2>2, <3>1 DEF AheadUnclaimed
    <3>3. Waits(slots'[k])
      BY <3>1 DEF Waits
    <3>4. QED
      BY <1>1, <1>3, <2>1, <2>3, <3>2, <3>3, SlotWaits
  <2>6. QED
    BY <1>5, <2>4, <2>5 DEF Claimed
<1>6. QED
  <2> DEFINE due == {k \in Keys : Candidate(Seeded[k]) /\ ~Ahead(Seeded[k], k)}
             longest == {k \in due : \A j \in due : At(Seeded[k], k) <= At(Seeded[j], j)}
  <2>1. \/ ~(owner.enabled => owner.seeded) /\ slots' = Seeded /\ UNCHANGED agent
        \/ \E k \in longest :
             /\ slots' = Claimed(w, Seeded, k)
             /\ agent' = IF slots'[k].state = "processing"
                         THEN [agent EXCEPT ![w] = [Idle EXCEPT !.pc = "claimed", !.key = k]]
                         ELSE agent
    BY Zenon DEF Claim
  <2>2. longest \subseteq {k \in Keys : ~Ahead(Seeded[k], k)}
    OBVIOUS
  <2> HIDE DEF longest
  <2>3. QED
    BY <1>4, <1>5, <2>1, <2>2, Zenon

\* Until its last step, a worker leaves the states of the slots alone.
LEMMA ChainUnderway ==
  ASSUME Parameters, Inv, ChainInv, NEW w \in Workers, LoadOwner(w) \/ Renew(w) \/ Send(w) \/ Crash(w)
  PROVE  ChainInv'
<1>1. /\ slots \in [Keys -> Slot] /\ agent \in [Workers -> AgentState]
      /\ agent[w].key \in Keys /\ agent[w].pc # "idle" /\ agent[w] \in AgentState
  BY SlotsAreSlots, FieldsOfAgent DEF Inv, LoadOwner, Renew, Send, Crash
<1>2. phase' = phase /\ owner' = owner
  BY DEF LoadOwner, Renew, Send, Crash
<1>3. \A k \in Keys : slots'[k].state = slots[k].state /\ slots'[k].zone = slots[k].zone
  <2>1. CASE LoadOwner(w)
    BY <2>1 DEF LoadOwner
  <2>2. CASE Renew(w)
    BY <1>1, <2>2 DEF Renew, Slot
  <2>3. CASE Send(w)
    BY <1>1, <2>3 DEF Send, Slot
  <2>4. CASE Crash(w)
    BY <1>1, <2>4 DEF Crash, Slot
  <2>5. QED
    BY <2>1, <2>2, <2>3, <2>4
<1>4. \A u \in Workers : u # w => agent'[u] = agent[u]
  BY <1>1 DEF LoadOwner, Renew, Send, Crash, Go
<1>5. /\ agent'[w].pc # "idle" => agent'[w].key = agent[w].key
      /\ agent'[w].pc = "withdrawn" => ~owner.enabled
  <2>1. CASE LoadOwner(w)
    <3>1. \/ agent' = [agent EXCEPT ![w].pc = "answered", ![w].answer = "transient"]
          \/ ~owner.enabled /\ agent' = [agent EXCEPT ![w].pc = "withdrawn"]
          \/ agent' = [agent EXCEPT ![w].pc = "built"]
          \/ agent' = [agent EXCEPT ![w].pc = "ready"]
      BY <2>1 DEF LoadOwner, Go
    <3>2. QED
      BY <1>1, <3>1 DEF AgentState
  <2>2. CASE Renew(w)
    <3>1. \/ agent' = [agent EXCEPT ![w].pc = "sending"]
          \/ agent' = [agent EXCEPT ![w].pc = "idle"]
      BY <2>2 DEF Renew, Go
    <3>2. QED
      BY <1>1, <3>1 DEF AgentState
  <2>3. CASE Send(w)
    BY <1>1, <2>3 DEF Send, AgentState
  <2>4. CASE Crash(w)
    BY <1>1, <2>4, IdleIsAnAgent DEF Crash
  <2>5. QED
    BY <2>1, <2>2, <2>3, <2>4
<1>6. \A u \in Workers :
        /\ agent'[u].pc # "idle" => agent[u].pc # "idle" /\ agent'[u].key = agent[u].key
        /\ agent'[u].pc = "withdrawn" => agent[u].pc = "withdrawn" \/ ~owner.enabled
  BY <1>1, <1>4, <1>5
<1>7. QED
  BY <1>2, <1>3, <1>6, StatesKept

\* Worker w leaves a slot that it does not hold.
LEMMA ChainLost ==
  ASSUME Parameters, Inv, ChainInv, NEW w \in Workers, agent' = [agent EXCEPT ![w] = Idle],
         phase' = phase, owner' = owner, slots' = slots
  PROVE  ChainInv'
<1>1. agent \in [Workers -> AgentState] /\ Idle.pc = "idle"
  BY SlotsAreSlots, IdleIsAnAgent DEF Inv
<1>2. \A u \in Workers : agent'[u] = IF u = w THEN Idle ELSE agent[u]
  BY <1>1
<1>3. QED
  BY <1>1, <1>2, StatesKept

\* The slot that worker w leaves is none ahead, so that closing it, or any other
\* change of it, claims none ahead.
LEMMA LeftBehind ==
  ASSUME Parameters, Inv, ChainInv, NEW w \in Workers, agent[w].pc # "idle",
         agent' = [agent EXCEPT ![w] = Idle], phase' = phase, owner'.zone = owner.zone
  PROVE  /\ ClaimsPassed' /\ agent'[w].pc = "idle"
         /\ \A rows : /\ \A j \in Keys : j # agent[w].key => rows[j] = slots[j]
                      /\ rows[agent[w].key].zone <= owner.zone
                      => AheadUnclaimed(rows)
<1>1. agent \in [Workers -> AgentState] /\ Idle.pc = "idle"
  BY SlotsAreSlots, IdleIsAnAgent DEF Inv
<1>2. \A u \in Workers : agent'[u] = IF u = w THEN Idle ELSE agent[u]
  BY <1>1
<1>3. ClaimsPassed'
  BY <1>1, <1>2 DEF ChainInv, ClaimsPassed, Later, Local
<1>4. ~Later(agent[w].key)
  BY DEF ChainInv, ClaimsPassed
<1>5. QED
  BY <1>1, <1>2, <1>3, <1>4 DEF ChainInv, AheadUnclaimed

LEMMA ClosedAhead ==
  ASSUME Parameters, Inv, NEW w \in Workers, NEW s \in SlotStates
  PROVE  Closed(w, s)[agent[w].key].zone <= owner.zone
<1>1. agent[w].key \in Keys /\ slots[agent[w].key] \in Slot /\ slots \in [Keys -> Slot]
  BY FieldsOfAgent, SlotsAreSlots DEF Inv
<1>2. Closed(w, s)[agent[w].key] = Ended(slots[agent[w].key], s)
  BY <1>1, ClosedRow
<1>3. QED
  BY <1>1, <1>2, EndedAhead DEF Inv

\* A slot that ends opens the next ones.
LEMMA ChainEnds ==
  ASSUME Parameters, Inv, ChainInv, NEW w \in Workers, agent[w].pc # "idle",
         agent' = [agent EXCEPT ![w] = Idle], phase' = phase, owner'.enabled => owner.enabled,
         owner'.zone = owner.zone,
         slots' = Chain(Closed(w, "closed"))
  PROVE  ChainInv'
<1>1. /\ Closed(w, "closed") \in [Keys -> Slot] /\ slots \in [Keys -> Slot]
      /\ Closed(w, "closed") = [slots EXCEPT ![agent[w].key] = Ended(slots[agent[w].key], "closed")]
  BY ClosedRow, SlotsAreSlots DEF SlotStates, Inv
<1>2. /\ Closed(w, "closed")[agent[w].key].zone <= owner.zone
      /\ \A j \in Keys : j # agent[w].key => Closed(w, "closed")[j] = slots[j]
  BY <1>1, ClosedAhead DEF SlotStates
<1>3. AheadUnclaimed(Closed(w, "closed")) /\ ClaimsPassed'
  BY <1>2, LeftBehind
<1>4. QED
  BY <1>1, <1>3, ChainCovers, CoveredStep DEF Inv

LEMMA ChainFinalize ==
  ASSUME Parameters, OneWorker, Inv, ChainInv, NEW w \in Workers,
         FinalizeSuccess(w) \/ FinalizeFailure(w)
  PROVE  ChainInv'
<1> DEFINE k == agent[w].key
<1>1. /\ agent' = [agent EXCEPT ![w] = Idle] /\ phase' = phase /\ agent[w].pc # "idle"
      /\ owner \in Owners /\ slots \in [Keys -> Slot]
      /\ k \in Keys /\ slots[k] \in Slot
  BY SlotsAreSlots, FieldsOfAgent DEF FinalizeSuccess, FinalizeFailure, Inv
<1>2. CASE slots' = slots /\ owner' = owner
  BY <1>1, <1>2, ChainLost
<1>3. CASE /\ slots' = Chain(Closed(w, "closed"))
           /\ owner'.enabled = owner.enabled /\ owner'.zone = owner.zone
  BY <1>1, <1>3, ChainEnds
<1>4. CASE /\ slots' = Withdrawn(Closed(w, "closed"), BOOLEAN)
           /\ ~owner'.enabled /\ owner'.zone = owner.zone
  <2>1. /\ Closed(w, "closed") \in [Keys -> Slot]
        /\ Closed(w, "closed") = [slots EXCEPT ![k] = Ended(slots[k], "closed")]
    BY ClosedRow DEF SlotStates
  <2>2. AheadUnclaimed(Closed(w, "closed")) /\ ClaimsPassed'
    BY <1>1, <1>4, <2>1, ClosedAhead, LeftBehind DEF SlotStates
  <2>3. AheadUnclaimed(slots')
    BY <1>4, <2>1, <2>2, WithdrawnAhead DEF Inv
  <2>4. QED
    BY <1>1, <1>4, <2>2, <2>3, CoveredStep
<1>5. CASE /\ slots' = [slots EXCEPT ![k] = [@ EXCEPT !.state = "pending", !.due = FALSE,
                                                      !.live = FALSE, !.token = Null]]
           /\ owner' = owner
  <2>1. /\ slots'[k].state = "pending" /\ slots'[k].zone = slots[k].zone
        /\ \A j \in Keys : j # k => slots'[j] = slots[j]
    BY <1>1, <1>5 DEF Slot
  <2>2. Waits(slots'[k])
    BY <2>1 DEF Waits
  <2>3. AheadUnclaimed(slots') /\ ClaimsPassed' /\ agent'[w].pc # "withdrawn"
    <3>1. slots'[k].zone <= owner.zone
      BY <1>1, <2>1 DEF ChainInv, AheadUnclaimed
    <3>2. QED
      BY <1>1, <1>5, <2>1, <3>1, LeftBehind
  <2>4. QED
    BY <1>1, <1>5, <2>2, <2>3, SlotWaits
<1>6. CASE FinalizeSuccess(w)
  BY <1>1, <1>2, <1>3, <1>6 DEF FinalizeSuccess, Owners
<1>7. CASE FinalizeFailure(w)
  BY <1>1, <1>2, <1>3, <1>4, <1>5, <1>7 DEF FinalizeFailure, Owners
<1>8. QED
  BY <1>6, <1>7

\* A withdrawn slot opens no other; the one of another period is there.
LEMMA ChainSuppress ==
  ASSUME Parameters, OneWorker, TwoPeriods, Inv, ChainInv, NEW w \in Workers, Suppress(w)
  PROVE  ChainInv'
<1> DEFINE k == agent[w].key
<1>1. /\ agent' = [agent EXCEPT ![w] = Idle] /\ phase' = phase /\ owner' = owner
      /\ agent[w].pc = "withdrawn" /\ slots \in [Keys -> Slot] /\ k \in Keys
  BY SlotsAreSlots, FieldsOfAgent DEF Suppress, Inv
<1>2. CASE slots' = slots
  BY <1>1, <1>2, ChainLost
<1>3. CASE slots' = Closed(w, "open")
  <2>1. slots' = [slots EXCEPT ![k] = Ended(slots[k], "open")]
    BY <1>3, ClosedRow DEF SlotStates
  <2>2. \A j \in Keys : j # k => slots'[j] = slots[j]
    BY <1>1, <2>1
  <2>3. AheadUnclaimed(slots') /\ ClaimsPassed' /\ agent'[w].pc = "idle"
    BY <1>1, <1>3, <2>2, ClosedAhead, LeftBehind DEF SlotStates
  <2>4. CASE owner.enabled /\ owner.seeded
    <3>1. Covered(slots)
      BY <1>1, <2>4 DEF ChainInv, WithdrawalCovered
    <3>2. PICK q \in Periods : q # k[1]
      BY <1>1, KeyParts DEF TwoPeriods
    <3>3. PICK d \in Dates : Waits(slots[<<q, d>>])
      BY <3>1 DEF Covered
    <3>4. <<q, d>> \in Keys /\ <<q, d>> # k
      BY <3>2, KeyParts
    <3>5. Waits(slots'[<<q, d>>])
      BY <2>2, <3>3, <3>4
    <3>6. QED
      BY <1>1, <2>3, <3>4, <3>5, SlotWaits
  <2>5. CASE ~(owner.enabled /\ owner.seeded)
    BY <1>1, <2>3, <2>5, CoveredStep
  <2>6. QED
    BY <2>4, <2>5
<1>4. QED
  BY <1>2, <1>3 DEF Suppress

LEMMA ChainStep ==
  ASSUME Parameters, OneWorker, TwoPeriods, Inv, ChainInv, [Next]_vars, ~owner'.west
  PROVE  ChainInv'
<1>1. CASE Switch \/ Move \/ Tick
  BY <1>1, ChainSwitch, ChainMove, ChainTick
<1>2. CASE \E k \in Keys : SlotComesDue(k)
  BY <1>2, ChainSlotComesDue
<1>3. ASSUME NEW w \in Workers, WorkerStep(w) \/ Crash(w) PROVE ChainInv'
  BY <1>3, ChainClaim, ChainUnderway, ChainFinalize, ChainSuppress DEF WorkerStep
<1>4. CASE UNCHANGED vars
  BY <1>4, StatesKept DEF vars
<1>5. QED
  BY <1>1, <1>2, <1>3, <1>4 DEF Next

\* Once set back, a clock has been.
LEMMA WestIsHistory ==
  ASSUME Inv, [Next]_vars
  PROVE  owner.west => owner'.west
<1>1. owner \in Owners
  BY SlotsAreSlots DEF Inv
<1>2. CASE Switch \/ Tick \/ UNCHANGED vars
  BY <1>1, <1>2 DEF Switch, Tick, vars, Owners
<1>3. CASE Move
  <2>1. PICK zone \in Zones :
          owner' = [owner EXCEPT !.seeded = FALSE, !.zone = zone, !.west = @ \/ zone < owner.zone]
    BY <1>3, Zenon DEF Move
  <2>2. QED
    BY <1>1, <2>1 DEF Owners
<1>4. CASE \E k \in Keys : SlotComesDue(k)
  BY <1>4 DEF SlotComesDue
<1>5. ASSUME NEW w \in Workers, WorkerStep(w) \/ Crash(w) PROVE owner.west => owner'.west
  <2>1. CASE Claim(w) \/ FinalizeSuccess(w) \/ FinalizeFailure(w)
    <3>1. \/ owner' = owner
          \/ owner' = [owner EXCEPT !.seeded = owner.enabled]
          \/ owner' = [owner EXCEPT !.seeded = @ \/ owner.enabled]
          \/ owner' = [owner EXCEPT !.enabled = FALSE, !.seeded = FALSE]
      BY <2>1, Zenon DEF Claim, FinalizeSuccess, FinalizeFailure
    <3>2. QED
      BY <1>1, <3>1 DEF Owners
  <2>2. CASE LoadOwner(w) \/ Renew(w) \/ Send(w) \/ Suppress(w) \/ Crash(w)
    BY <2>2 DEF LoadOwner, Renew, Send, Suppress, Crash
  <2>3. QED
    BY <1>5, <2>1, <2>2 DEF WorkerStep
<1>6. QED
  BY <1>2, <1>3, <1>4, <1>5 DEF Next

LEMMA InitChain ==
  ASSUME Parameters, Init
  PROVE  ChainInv
<1>1. /\ \A k \in Keys : slots[k].state = "open" /\ slots[k].zone = 0
      /\ \A w \in Workers : agent[w].pc = "idle"
      /\ ~owner.seeded
  BY IdleIsAnAgent DEF Init, Nothing
<1>2. owner.zone \in 0..3
  BY DEF Init, Parameters
<1>3. QED
  BY <1>1, <1>2 DEF ChainInv, AheadUnclaimed, ClaimsPassed, WithdrawalCovered, ChainHolds

\* What is inductive: a user who has gone west may have lost the chain.
Chained == Inv /\ (~owner.west => ChainInv)

LEMMA InitChained ==
  ASSUME Parameters, Init
  PROVE  Chained
BY InitTypes, InitDelivery, InitChain DEF Chained, Inv

LEMMA ChainedStep ==
  ASSUME Parameters, OneWorker, TwoPeriods, Chained, [Next]_vars
  PROVE  Chained'
<1>1. Inv /\ Inv'
  BY NextInv DEF Chained
<1>2. CASE owner'.west
  BY <1>1, <1>2 DEF Chained
<1>3. CASE ~owner'.west
  BY <1>1, <1>3, WestIsHistory, ChainStep DEF Chained
<1>4. QED
  BY <1>2, <1>3

\* While digests are on, some slot is ahead or under way, so that there is
\* always an end of a slot to open the next ones, wherever east the user moves
\* (_ensure_digest_schedule, _invalidate_digest_schedule).  It takes one worker,
\* and a second period: suppress_digest_delivery opens no next slot, and two
\* workers may each withdraw the slot of one period.
THEOREM ChainNeverBreaks ==
  ASSUME Parameters, OneWorker, TwoPeriods
  PROVE  Spec => []ChainHolds
<1>1. Chained => ChainHolds
  BY DEF Chained, ChainInv, ChainHolds
<1>2. QED
  BY <1>1, InitChained, ChainedStep, SpecSteps, PTL
=============================================================================
