--------------------------- MODULE ServicesProofs ---------------------------
(***************************************************************************)
(* What run "services" checks of Conditions, Conversations, Digests and    *)
(* PersistentReminders, but for liveness, proved of MCServices: the first  *)
(* three by the lemmas of their own modules of proofs, which hold for any  *)
(* values of their constants, the last one here, for any reminders and any *)
(* settings that PolicyAssumption admits.                                  *)
(***************************************************************************)
EXTENDS MCServices, FiniteSetTheorems, FunctionTheorems, TLAPS

LEMMA SpecSteps == Spec => Init /\ [][Next]_vars
BY PTL DEF Spec

LEMMA Constants ==
  Polls!Parameters /\ Sends!Parameters /\ Talk!Parameters /\ Days!Parameters /\ Race!Parameters
BY NullAssumption DEF Polls!Parameters, Sends!Parameters, Talk!Parameters, Days!Parameters,
   Race!Parameters, Polls!States, Sends!States, Polls!Error, Sends!Error

\* A step of the whole is a step of the part it is about, or leaves it alone.
LEMMA PartSteps ==
  ASSUME [Next]_vars
  PROVE  /\ part' = part
         /\ part = "polls" => [Polls!Next]_(Polls!vars)
         /\ part = "sends" => [Sends!Next]_(Sends!vars)
         /\ part = "talk" => [Talk!Next]_(Talk!vars)
         /\ part = "days" => [Days!Next]_(Days!vars)
         /\ part = "race" => [Race!Next]_(Race!vars)
         /\ part = "repeats" => [Repeats!Next]_(Repeats!vars)
         /\ part \notin {"polls", "sends"} => UNCHANGED seen
BY DEF Next, OfConditions, OfTalk, OfDigests, OfRepeats, vars, conditions, talk, digests, repeats,
   Polls!vars, Sends!vars, Talk!vars, Days!vars, Race!vars, Repeats!vars


-----------------------------------------------------------------------------
(* Important reminders                                                      *)

\* A set of naturals has a least member: else the strict lower bounds would be
\* closed under successor, and a finite set onto itself but for 0.
LEMMA Least ==
  ASSUME NEW S, S \subseteq Nat, S # {}
  PROVE  \E m \in S : \A n \in S : m <= n
<1> DEFINE U == {u \in Nat : \A n \in S : u < n}
           f == [u \in U |-> u + 1]
<1>1. SUFFICES ASSUME \A m \in S : \E n \in S : n < m PROVE FALSE
  <2>1. \A m, n \in S : ~(m <= n) => n < m
    OBVIOUS
  <2>2. QED
    BY <2>1
<1>2. IsFiniteSet(U)
  <2>1. PICK m \in S : TRUE
    OBVIOUS
  <2>2. U \in SUBSET Nat /\ m \in Nat /\ \A u \in U : u <= m
    BY <2>1
  <2> HIDE DEF U
  <2>3. QED
    BY <2>2, FS_BoundedSetOfNaturals
<1>3. 0 \in U
  BY <1>1
<1>4. \A u \in U : u \in Nat /\ u + 1 \in U
  BY <1>1
<1> HIDE DEF U
<1>5. f \in Injection(U, U)
  BY <1>4 DEF Injection, IsInjective
<1>6. f \in Surjection(U, U)
  BY <1>2, <1>5, FS_Injection
<1>7. PICK u \in U : f[u] = 0
  BY <1>3, <1>6 DEF Surjection
<1>8. QED
  BY <1>4, <1>7

LEMMA Multiple ==
  ASSUME NEW d \in Nat \ {0}, NEW j \in Int, j * d < d, -d < j * d
  PROVE  j = 0
<1>1. CASE j >= 1
  <2>1. j * d >= d
    BY <1>1
  <2>2. QED
    BY <2>1
<1>2. CASE j <= -1
  <2>1. j * d <= -d
    BY <1>2
  <2>2. QED
    BY <2>1
<1>3. QED
  BY <1>1, <1>2

LEMMA Remainder ==
  ASSUME NEW d \in Nat \ {0}, NEW h \in 0..(d - 1), NEW q \in Int
  PROVE  (q * d + h) % d = h
<1> DEFINE x == q * d + h
           m == x % d
           k == x \div d
<1>1. x \in Int
  OBVIOUS
<1>2. m \in 0..(d - 1) /\ k \in Int /\ x = d * k + m
  BY <1>1
<1>3. (k - q) * d = h - m
  BY <1>2
<1>4. k - q = 0
  <2>1. (k - q) * d < d /\ -d < (k - q) * d
    BY <1>2, <1>3
  <2>2. QED
    BY <1>2, <2>1, Multiple
<1>5. QED
  BY <1>2, <1>3, <1>4

\* next_allowed_delivery comes within a day, and outside the quiet hours.
LEMMA AllowedWithinADay ==
  ASSUME hour \in 0..(Day - 1), NEW t \in Nat
  PROVE  Repeats!Allowed(t) \in t..(t + Day) /\ ~Repeats!QuietIn(Repeats!Allowed(t))
<1> DEFINE S == {u \in t..(t + Day) : ~Repeats!QuietIn(u)}
<1>1. PICK h \in 0..(Day - 1) : h \notin Quiet
  BY PolicyAssumption
<1>2. \E u \in t..(t + Day) : (hour + u) % Day = h
  <2> DEFINE x == hour + t
             r == x % Day
             q == x \div Day
  <2>1. x \in Int /\ Day \in Nat \ {0} /\ h \in 0..(Day - 1)
    BY PolicyAssumption
  <2>2. r \in 0..(Day - 1) /\ q \in Int /\ x = q * Day + r
    BY <2>1
  <2>3. (q * Day + h) % Day = h /\ ((q + 1) * Day + h) % Day = h
    <3>1. q \in Int /\ q + 1 \in Int
      BY <2>2
    <3> HIDE DEF q
    <3>2. \A k \in Int : (k * Day + h) % Day = h
      BY <2>1, Remainder
    <3>3. QED
      BY <3>1, <3>2
  <2>4. CASE h >= r
    <3>1. hour + (t + (h - r)) = q * Day + h /\ t + (h - r) \in t..(t + Day)
      BY <2>1, <2>2, <2>4
    <3>2. QED
      BY <2>3, <3>1
  <2>5. CASE h < r
    <3>1. hour + (t + (h - r + Day)) = (q + 1) * Day + h /\ t + (h - r + Day) \in t..(t + Day)
      BY <2>1, <2>2, <2>5
    <3>2. QED
      BY <2>3, <3>1
  <2>6. QED
    BY <2>1, <2>2, <2>4, <2>5
<1>3. S # {} /\ S \subseteq Nat
  <2>1. PICK u \in t..(t + Day) : (hour + u) % Day = h
    BY <1>2
  <2>2. ~Repeats!QuietIn(u)
    BY <1>1, <2>1 DEF Repeats!QuietIn
  <2>3. QED
    BY <2>1, <2>2, PolicyAssumption
<1>4. PICK m \in S : \A n \in S : m <= n
  BY <1>3, Least
<1>5. \A v \in t..(m - 1) : Repeats!QuietIn(v)
  BY <1>4, PolicyAssumption
<1>6. m \in t..(t + Day) /\ ~Repeats!QuietIn(m)
  BY <1>4
<1> HIDE DEF S
<1>7. \E u \in t..(t + Day) : ~Repeats!QuietIn(u) /\ \A v \in t..(u - 1) : Repeats!QuietIn(v)
  BY <1>5, <1>6
<1>8. QED
  BY <1>7 DEF Repeats!Allowed

\* What TypeOK says of one row and its flight.
RowFits(q, f) ==
  /\ q \in Repeats!Row /\ f \in {"none", "claimed", "sending"}
  /\ f # "none" => q.at = "processing" /\ q.lease > 0
  /\ q.card => q.at \in {"pending", "delivered"}
  /\ q.mode = "persistent" /\ q.at \in {"pending", "processing"} => q.count < MaxDeliveries

LEMMA RowsFit ==
  Repeats!TypeOK <=>
    /\ hour \in 0..(Day - 1) /\ reserved \in 0..Cooldown
    /\ row \in [Reminders -> Repeats!Row] /\ flight \in [Reminders -> {"none", "claimed", "sending"}]
    /\ \A r \in Reminders : RowFits(row[r], flight[r])
BY DEF Repeats!TypeOK, RowFits

LEMMA RowWritten ==
  ASSUME Repeats!TypeOK, NEW r \in Reminders, NEW q, NEW f, RowFits(q, f),
         hour' = hour, reserved' \in 0..Cooldown, row' = [row EXCEPT ![r] = q],
         \/ flight' = flight /\ flight[r] = f
         \/ flight' = [flight EXCEPT ![r] = f]
  PROVE  Repeats!TypeOK'
<1>1. /\ hour \in 0..(Day - 1)
      /\ row \in [Reminders -> Repeats!Row] /\ flight \in [Reminders -> {"none", "claimed", "sending"}]
      /\ \A s \in Reminders : RowFits(row[s], flight[s])
  BY RowsFit
<1>2. q \in Repeats!Row /\ f \in {"none", "claimed", "sending"}
  BY DEF RowFits
<1>3. /\ row' \in [Reminders -> Repeats!Row] /\ flight' \in [Reminders -> {"none", "claimed", "sending"}]
      /\ row'[r] = q /\ flight'[r] = f
      /\ \A s \in Reminders : s # r => row'[s] = row[s] /\ flight'[s] = flight[s]
  BY <1>1, <1>2
<1>4. \A s \in Reminders : RowFits(row'[s], flight'[s])
  BY <1>1, <1>3
<1>5. QED
  BY <1>1, <1>3, <1>4 DEF Repeats!TypeOK, RowFits, Repeats!Row

LEMMA Policy ==
  /\ Day \in Nat /\ Day > 0 /\ Interval \in Nat /\ Cooldown \in Nat /\ Lease \in Nat /\ Lease > 0
  /\ MaxDeliveries \in Nat /\ MaxDeliveries > 0 /\ MaxAttempts \in Nat
BY PolicyAssumption

\* The columns of a row.
Waits == 0..(Interval + Cooldown + Day)
Bits == 0..1
Leases == 0..Lease
Counts == 0..MaxDeliveries
Attempts == 0..MaxAttempts

Unspent(p) == p.mode = "persistent" => p.count < MaxDeliveries

\* What the end of its lease l makes of flight f.
Lapsed(l, f) == IF l = 0 THEN "none" ELSE f

\* The rows the steps write.  (The numbers are variables for the prover's sake.)
LEMMA RowFailed ==
  ASSUME NEW p \in Repeats!Row, NEW z, z = 0,
         NEW q, q = [p EXCEPT !.at = "failed", !.lease = z, !.retry = z, !.card = FALSE]
  PROVE  RowFits(q, "none")
<1>1. z \in Leases /\ z \in Bits
  BY Policy DEF Waits, Attempts, Counts, Leases, Bits
<1>2. q \in Repeats!Row
  BY <1>1 DEF Repeats!Row, Waits, Attempts, Counts, Leases, Bits
<1>3. q.at = "failed"
  BY DEF Repeats!Row
<1>4. ~q.card
  BY DEF Repeats!Row
<1>5. QED
  BY <1>2, <1>3, <1>4, Policy DEF RowFits, Unspent

LEMMA RowTaken ==
  ASSUME NEW p \in Repeats!Row, NEW z, z = 0, NEW k \in Attempts,
         NEW q, q = [p EXCEPT !.at = "processing", !.lease = Lease, !.retry = z, !.attempt = k,
                           !.card = FALSE],
         Unspent(p)
  PROVE  RowFits(q, "claimed")
<1>1. z \in Bits /\ Lease \in Leases
  BY Policy DEF Waits, Attempts, Counts, Leases, Bits
<1>2. q \in Repeats!Row
  BY <1>1 DEF Repeats!Row, Waits, Attempts, Counts, Leases, Bits
<1>3. q.at = "processing"
  BY DEF Repeats!Row
<1>4. q.lease = Lease
  BY DEF Repeats!Row
<1>5. ~q.card
  BY DEF Repeats!Row
<1>6. q.mode = p.mode
  BY DEF Repeats!Row
<1>7. q.count = p.count
  BY DEF Repeats!Row
<1>8. QED
  BY <1>2, <1>3, <1>4, <1>5, <1>6, <1>7, Policy DEF RowFits, Unspent

LEMMA RowDeferred ==
  ASSUME NEW p \in Repeats!Row, NEW z, z = 0, NEW t \in Waits,
         NEW q, q = [p EXCEPT !.at = "pending", !.wait = t, !.retry = z, !.lease = z],
         Unspent(p)
  PROVE  RowFits(q, "none")
<1>1. z \in Leases /\ z \in Bits
  BY Policy DEF Waits, Attempts, Counts, Leases, Bits
<1>2. q \in Repeats!Row
  BY <1>1 DEF Repeats!Row, Waits, Attempts, Counts, Leases, Bits
<1>3. q.at = "pending"
  BY DEF Repeats!Row
<1>4. q.mode = p.mode
  BY DEF Repeats!Row
<1>5. q.count = p.count
  BY DEF Repeats!Row
<1>6. QED
  BY <1>2, <1>3, <1>4, <1>5, Policy DEF RowFits, Unspent

LEMMA RowRenewed ==
  ASSUME NEW p \in Repeats!Row,
         NEW q, q = [p EXCEPT !.lease = Lease],
         RowFits(p, "claimed")
  PROVE  RowFits(q, "sending")
<1>1. Lease \in Leases
  BY Policy DEF Waits, Attempts, Counts, Leases, Bits
<1>2. q \in Repeats!Row
  BY <1>1 DEF Repeats!Row, Waits, Attempts, Counts, Leases, Bits
<1>3. q.at = p.at
  BY DEF Repeats!Row
<1>4. q.card = p.card
  BY DEF Repeats!Row
<1>5. q.lease = Lease
  BY DEF Repeats!Row
<1>6. q.mode = p.mode
  BY DEF Repeats!Row
<1>7. q.count = p.count
  BY DEF Repeats!Row
<1>8. QED
  BY <1>2, <1>3, <1>4, <1>5, <1>6, <1>7, Policy DEF RowFits, Unspent

LEMMA RowDelivered ==
  ASSUME NEW p \in Repeats!Row, NEW z, z = 0,
         NEW q, q = [p EXCEPT !.attempt = z, !.card = TRUE, !.at = "delivered", !.wait = z, !.lease = z]
  PROVE  RowFits(q, "none")
<1>1. z \in Leases /\ z \in Waits /\ z \in Attempts
  BY Policy DEF Waits, Attempts, Counts, Leases, Bits
<1>2. q \in Repeats!Row
  BY <1>1 DEF Repeats!Row, Waits, Attempts, Counts, Leases, Bits
<1>3. q.at = "delivered"
  BY DEF Repeats!Row
<1>4. QED
  BY <1>2, <1>3, Policy DEF RowFits, Unspent

LEMMA RowDeliveredLast ==
  ASSUME NEW p \in Repeats!Row, NEW z, z = 0, NEW n \in Counts,
         NEW q, q = [p EXCEPT !.attempt = z, !.card = TRUE, !.at = "delivered", !.wait = z,
                           !.count = n, !.lease = z]
  PROVE  RowFits(q, "none")
<1>1. z \in Leases /\ z \in Waits /\ z \in Attempts
  BY Policy DEF Waits, Attempts, Counts, Leases, Bits
<1>2. q \in Repeats!Row
  BY <1>1 DEF Repeats!Row, Waits, Attempts, Counts, Leases, Bits
<1>3. q.at = "delivered"
  BY DEF Repeats!Row
<1>4. QED
  BY <1>2, <1>3, Policy DEF RowFits, Unspent

LEMMA RowDeliveredNext ==
  ASSUME NEW p \in Repeats!Row, NEW z, z = 0,
         NEW n \in Counts, NEW t \in Waits,
         NEW q, q = [p EXCEPT !.attempt = z, !.card = TRUE, !.at = "pending", !.wait = t,
                           !.count = n, !.lease = z],
         n < MaxDeliveries
  PROVE  RowFits(q, "none")
<1>1. z \in Leases /\ z \in Attempts
  BY Policy DEF Waits, Attempts, Counts, Leases, Bits
<1>2. q \in Repeats!Row
  BY <1>1 DEF Repeats!Row, Waits, Attempts, Counts, Leases, Bits
<1>3. q.at = "pending"
  BY DEF Repeats!Row
<1>4. q.count = n
  BY DEF Repeats!Row
<1>5. QED
  BY <1>2, <1>3, <1>4, Policy DEF RowFits, Unspent

LEMMA RowGivenUp ==
  ASSUME NEW p \in Repeats!Row, NEW z, z = 0,
         NEW q, q = [p EXCEPT !.at = "failed", !.lease = z],
         RowFits(p, "sending")
  PROVE  RowFits(q, "none")
<1>1. z \in Leases
  BY Policy DEF Waits, Attempts, Counts, Leases, Bits
<1>2. q \in Repeats!Row
  BY <1>1 DEF Repeats!Row, Waits, Attempts, Counts, Leases, Bits
<1>3. q.at = "failed"
  BY DEF Repeats!Row
<1>4. q.card = p.card
  BY DEF Repeats!Row
<1>5. QED
  BY <1>2, <1>3, <1>4, Policy DEF RowFits, Unspent

LEMMA RowRetried ==
  ASSUME NEW p \in Repeats!Row, NEW z, z = 0, NEW y, y = 1,
         NEW q, q = [p EXCEPT !.at = "pending", !.retry = y, !.lease = z],
         RowFits(p, "sending")
  PROVE  RowFits(q, "none")
<1>1. z \in Leases /\ y \in Bits
  BY Policy DEF Waits, Attempts, Counts, Leases, Bits
<1>2. q \in Repeats!Row
  BY <1>1 DEF Repeats!Row, Waits, Attempts, Counts, Leases, Bits
<1>3. q.at = "pending"
  BY DEF Repeats!Row
<1>4. q.mode = p.mode
  BY DEF Repeats!Row
<1>5. q.count = p.count
  BY DEF Repeats!Row
<1>6. QED
  BY <1>2, <1>3, <1>4, <1>5, Policy DEF RowFits, Unspent

LEMMA RowTicked ==
  ASSUME NEW p \in Repeats!Row,
         NEW a \in Bits, NEW t \in Waits, NEW b \in Bits, NEW l \in Leases,
         NEW q, q = [p EXCEPT !.remind = a, !.wait = t, !.retry = b, !.lease = l],
         NEW f, RowFits(p, f)
  PROVE  RowFits(q, Lapsed(l, f))
<1>2. q \in Repeats!Row
  BY DEF Repeats!Row, Waits, Attempts, Counts, Leases, Bits
<1>3. q.at = p.at
  BY DEF Repeats!Row
<1>4. q.lease = l
  BY DEF Repeats!Row
<1>5. q.card = p.card
  BY DEF Repeats!Row
<1>6. q.mode = p.mode
  BY DEF Repeats!Row
<1>7. q.count = p.count
  BY DEF Repeats!Row
<1>8. QED
  BY <1>2, <1>3, <1>4, <1>5, <1>6, <1>7, Policy DEF RowFits, Unspent, Leases, Lapsed

LEMMA RowOver ==
  ASSUME NEW p \in Repeats!Row, NEW z, z = 0,
         NEW q, q = [p EXCEPT !.at = "over", !.wait = z, !.retry = z, !.card = FALSE]
  PROVE  RowFits(q, "none")
<1>1. z \in Bits /\ z \in Waits
  BY Policy DEF Waits, Attempts, Counts, Leases, Bits
<1>2. q \in Repeats!Row
  BY <1>1 DEF Repeats!Row, Waits, Attempts, Counts, Leases, Bits
<1>3. q.at = "over"
  BY DEF Repeats!Row
<1>4. ~q.card
  BY DEF Repeats!Row
<1>5. QED
  BY <1>2, <1>3, <1>4, Policy DEF RowFits, Unspent

LEMMA RowKept ==
  ASSUME NEW p \in Repeats!Row, NEW z, z = 0,
         NEW q, q = [p EXCEPT !.mode = "normal", !.at = "delivered", !.wait = z]
  PROVE  RowFits(q, "none")
<1>1. z \in Waits
  BY Policy DEF Waits, Attempts, Counts, Leases, Bits
<1>2. q \in Repeats!Row
  BY <1>1 DEF Repeats!Row, Waits, Attempts, Counts, Leases, Bits
<1>3. q.at = "delivered"
  BY DEF Repeats!Row
<1>4. QED
  BY <1>2, <1>3, Policy DEF RowFits, Unspent

LEMMA RowDisabled ==
  ASSUME NEW p \in Repeats!Row, NEW z, z = 0, NEW t \in Waits,
         NEW q, q = [p EXCEPT !.mode = "normal", !.wait = t, !.retry = z, !.attempt = z],
         p.at = "pending"
  PROVE  RowFits(q, "none")
<1>1. z \in Bits /\ z \in Attempts
  BY Policy DEF Waits, Attempts, Counts, Leases, Bits
<1>2. q \in Repeats!Row
  BY <1>1 DEF Repeats!Row, Waits, Attempts, Counts, Leases, Bits
<1>3. q.mode = "normal"
  BY DEF Repeats!Row
<1>4. q.at = p.at
  BY DEF Repeats!Row
<1>5. QED
  BY <1>2, <1>3, <1>4, Policy DEF RowFits, Unspent

LEMMA RowSnoozed ==
  ASSUME NEW p \in Repeats!Row, NEW z, z = 0, NEW y, y = 1,
         NEW q, q = [p EXCEPT !.mode = "normal", !.at = "pending", !.wait = y, !.retry = z, !.attempt = z,
                           !.card = FALSE]
  PROVE  RowFits(q, "none")
<1>1. z \in Bits /\ z \in Attempts /\ y \in Waits
  BY Policy DEF Waits, Attempts, Counts, Leases, Bits
<1>2. q \in Repeats!Row
  BY <1>1 DEF Repeats!Row, Waits, Attempts, Counts, Leases, Bits
<1>3. q.mode = "normal"
  BY DEF Repeats!Row
<1>4. q.at = "pending"
  BY DEF Repeats!Row
<1>5. QED
  BY <1>2, <1>3, <1>4, Policy DEF RowFits, Unspent

LEMMA RepeatsInit ==
  ASSUME Repeats!Init
  PROVE  Repeats!TypeOK
<1>1. /\ hour \in 0..(Day - 1) /\ reserved = 0 /\ flight = [r \in Reminders |-> "none"]
      /\ row \in [Reminders -> {[mode |-> "persistent", at |-> "pending", remind |-> t, wait |-> t,
                                 retry |-> 0, lease |-> 0, count |-> 0, attempt |-> 0,
                                 card |-> FALSE] : t \in 0..1}]
  BY DEF Repeats!Init
<1>2. ASSUME NEW t \in 0..1,
             NEW q, q = [mode |-> "persistent", at |-> "pending", remind |-> t, wait |-> t,
                         retry |-> 0, lease |-> 0, count |-> 0, attempt |-> 0, card |-> FALSE]
      PROVE  RowFits(q, "none")
  BY <1>2, Policy DEF RowFits, Repeats!Row
<1>3. \A r \in Reminders : flight[r] = "none" /\ RowFits(row[r], flight[r])
  BY <1>1, <1>2
<1>4. row \in [Reminders -> Repeats!Row]
  BY <1>1, <1>3 DEF RowFits
<1>5. QED
  BY <1>1, <1>3, <1>4, Policy, RowsFit

\* The row is claimed, or its attempts are used up.
LEMMA RepeatsTaken ==
  ASSUME Repeats!TypeOK, NEW r \in Reminders, Repeats!Due(r), Repeats!Taken(r),
         hour' = hour, reserved' \in 0..Cooldown
  PROVE  Repeats!TypeOK'
<1> DEFINE failed == [row[r] EXCEPT !.at = "failed", !.lease = 0, !.retry = 0, !.card = FALSE]
           taken == [row[r] EXCEPT !.at = "processing", !.lease = Lease, !.retry = 0,
                                   !.attempt = row[r].attempt + 1, !.card = FALSE]
<1>0. row[r] \in Repeats!Row
  BY RowsFit
<1>1. /\ row[r] \in Repeats!Row /\ RowFits(row[r], flight[r])
      /\ row \in [Reminders -> Repeats!Row] /\ flight \in [Reminders -> {"none", "claimed", "sending"}]
  BY RowsFit
<1>2. flight[r] = "none"
  BY <1>1 DEF Repeats!Due, RowFits
<1>3. CASE row[r].attempt >= MaxAttempts
  <2>1. RowFits(failed, "none")
    BY <1>0, RowFailed
  <2>2. row' = [row EXCEPT ![r] = failed] /\ flight' = flight
    BY <1>3 DEF Repeats!Taken, Repeats!Put
  <2> HIDE DEF failed
  <2>3. QED
    BY <1>2, <2>1, <2>2, RowWritten
<1>4. CASE ~(row[r].attempt >= MaxAttempts)
  <2>1. row[r].attempt + 1 \in Attempts
    BY <1>1, <1>4, Policy DEF Repeats!Row, Attempts
  <2>2. Unspent(row[r])
    BY <1>1 DEF RowFits, Unspent, Repeats!Due
  <2>3. RowFits(taken, "claimed")
    BY <1>0, <2>1, <2>2, RowTaken
  <2>4. row' = [row EXCEPT ![r] = taken] /\ flight' = [flight EXCEPT ![r] = "claimed"]
    BY <1>1, <1>4 DEF Repeats!Taken, Repeats!Put
  <2> HIDE DEF taken
  <2>5. QED
    BY <2>3, <2>4, RowWritten
<1>5. QED
  BY <1>3, <1>4

\* The row is put off, to the end of the quiet hours or to the next free slot.
LEMMA RepeatsDeferred ==
  ASSUME Repeats!TypeOK, NEW r \in Reminders, Repeats!Due(r), NEW t \in 0..(Cooldown + Day),
         Repeats!Put(r, Repeats!Deferred(r, t)), flight' = flight,
         hour' = hour, reserved' \in 0..Cooldown
  PROVE  Repeats!TypeOK'
<1> DEFINE q == Repeats!Deferred(r, t)
<1>0. row[r] \in Repeats!Row
  BY RowsFit
<1>1. RowFits(row[r], flight[r])
  BY RowsFit
<1>2. flight[r] = "none" /\ Unspent(row[r])
  BY <1>1 DEF Repeats!Due, RowFits, Unspent
<1>3. t \in Waits
  BY Policy DEF Waits
<1>4. RowFits(q, "none")
  BY <1>0, <1>2, <1>3, RowDeferred DEF Repeats!Deferred
<1>5. row' = [row EXCEPT ![r] = q]
  BY DEF Repeats!Put
<1> HIDE DEF q
<1>6. QED
  BY <1>2, <1>4, <1>5, RowWritten

LEMMA RepeatsClaim ==
  ASSUME Repeats!TypeOK, NEW r \in Reminders, Repeats!Claim(r)
  PROVE  Repeats!TypeOK'
<1>1. /\ Repeats!Due(r) /\ hour' = hour /\ hour \in 0..(Day - 1)
      /\ reserved \in 0..Cooldown
  BY RowsFit DEF Repeats!Claim
<1>2. Repeats!Allowed(0) \in 0..(Cooldown + Day)
  <2>1. Repeats!Allowed(0) \in 0..(0 + Day)
    BY <1>1, AllowedWithinADay
  <2> HIDE DEF Repeats!Allowed
  <2>2. QED
    BY <2>1, Policy
<1>3. reserved \in 0..(Cooldown + Day) /\ Repeats!Reserved \in 0..Cooldown
  BY <1>1, Policy DEF Repeats!Reserved
<1>4. CASE Repeats!Taken(r) /\ reserved' \in 0..Cooldown
  BY <1>1, <1>4, RepeatsTaken
<1>5. CASE /\ Repeats!Put(r, Repeats!Deferred(r, Repeats!Allowed(0)))
           /\ UNCHANGED <<reserved, flight>>
  BY <1>1, <1>2, <1>5, RepeatsDeferred
<1>6. CASE /\ Repeats!Put(r, Repeats!Deferred(r, reserved)) /\ UNCHANGED flight
           /\ reserved' = Repeats!Reserved
  BY <1>1, <1>3, <1>6, RepeatsDeferred
<1>7. QED
  BY <1>1, <1>3, <1>4, <1>5, <1>6 DEF Repeats!Claim

\* What the steps of a flight know of its row.
LEMMA InFlight ==
  ASSUME Repeats!TypeOK, NEW r \in Reminders
  PROVE  /\ row[r] \in Repeats!Row /\ RowFits(row[r], flight[r])
         /\ hour \in 0..(Day - 1) /\ reserved \in 0..Cooldown
         /\ row \in [Reminders -> Repeats!Row]
BY RowsFit

LEMMA RepeatsRenew ==
  ASSUME Repeats!TypeOK, NEW r \in Reminders, Repeats!Renew(r)
  PROVE  Repeats!TypeOK'
<1> DEFINE q == [row[r] EXCEPT !.lease = Lease]
<1>1. row[r] \in Repeats!Row
  BY InFlight
<1>2. RowFits(row[r], "claimed")
  BY InFlight DEF Repeats!Renew
<1>3. RowFits(q, "sending")
  BY <1>1, <1>2, RowRenewed
<1>4. /\ hour' = hour /\ reserved' \in 0..Cooldown
      /\ row' = [row EXCEPT ![r] = q] /\ flight' = [flight EXCEPT ![r] = "sending"]
  BY InFlight DEF Repeats!Renew, Repeats!Put
<1> HIDE DEF q
<1>5. QED
  BY <1>3, <1>4, RowWritten

LEMMA RepeatsLanded ==
  ASSUME Repeats!TypeOK, NEW r \in Reminders, NEW new, Repeats!Landed(r, new),
         NEW q, q = [new EXCEPT !.lease = 0], RowFits(q, "none")
  PROVE  Repeats!TypeOK'
<1>1. /\ hour' = hour /\ reserved' \in 0..Cooldown
      /\ row' = [row EXCEPT ![r] = q] /\ flight' = [flight EXCEPT ![r] = "none"]
  BY InFlight DEF Repeats!Landed, Repeats!Put
<1>2. QED
  BY <1>1, RowWritten

LEMMA RepeatsSuccess ==
  ASSUME Repeats!TypeOK, NEW r \in Reminders, Repeats!FinalizeSuccess(r)
  PROVE  Repeats!TypeOK'
<1> DEFINE sent == [row[r] EXCEPT !.attempt = 0, !.card = TRUE]
           normal == [sent EXCEPT !.at = "delivered", !.wait = 0]
           last == [sent EXCEPT !.at = "delivered", !.wait = 0, !.count = @ + 1]
           more == [sent EXCEPT !.at = "pending", !.wait = Repeats!Allowed(Interval), !.count = @ + 1]
<1>1. row[r] \in Repeats!Row
  BY InFlight
<1>2. flight[r] = "sending"
  BY DEF Repeats!FinalizeSuccess, Repeats!Landed
<1>3. sent.count = row[r].count
  BY <1>1 DEF Repeats!Row
<1>4. CASE Repeats!Landed(r, normal)
  <2> DEFINE q == [normal EXCEPT !.lease = 0]
  <2>1. RowFits(q, "none")
    BY <1>1, RowDelivered
  <2> HIDE DEF normal
  <2>2. QED
    BY <1>4, <2>1, RepeatsLanded
<1>5. CASE /\ row[r].mode # "normal" /\ Repeats!Landed(r, last)
  <2> DEFINE n == row[r].count + 1
             q == [last EXCEPT !.lease = 0]
  <2>1. row[r].mode = "persistent" /\ row[r].count < MaxDeliveries
    BY <1>1, <1>2, <1>5, InFlight DEF Repeats!Row, RowFits
  <2>2. n \in Counts
    BY <1>1, <2>1, Policy DEF Repeats!Row, Counts
  <2>3. q = [row[r] EXCEPT !.attempt = 0, !.card = TRUE, !.at = "delivered", !.wait = 0,
                           !.count = n, !.lease = 0]
    BY <1>1, <1>3 DEF Repeats!Row
  <2> HIDE DEF q, n
  <2>4. RowFits(q, "none")
    BY <1>1, <2>2, <2>3, RowDeliveredLast
  <2> HIDE DEF last
  <2>5. QED
    BY <1>5, <2>4, RepeatsLanded DEF q
<1>6. CASE /\ row[r].mode # "normal" /\ ~(row[r].count + 1 >= MaxDeliveries)
           /\ Repeats!Landed(r, more)
  <2> DEFINE n == row[r].count + 1
             t == Repeats!Allowed(Interval)
             q == [more EXCEPT !.lease = 0]
  <2>1. n \in Counts /\ n < MaxDeliveries
    BY <1>1, <1>6, Policy DEF Repeats!Row, Counts
  <2>2. t \in Waits
    <3>1. t \in Interval..(Interval + Day)
      BY InFlight, Policy, AllowedWithinADay
    <3> HIDE DEF t
    <3>2. QED
      BY <3>1, Policy DEF Waits
  <2>3. q = [row[r] EXCEPT !.attempt = 0, !.card = TRUE, !.at = "pending", !.wait = t,
                           !.count = n, !.lease = 0]
    BY <1>1, <1>3 DEF Repeats!Row
  <2> HIDE DEF q, n, t
  <2>4. RowFits(q, "none")
    BY <1>1, <2>1, <2>2, <2>3, RowDeliveredNext
  <2> HIDE DEF more
  <2>5. QED
    BY <1>6, <2>4, RepeatsLanded DEF q
<1>7. QED
  BY <1>4, <1>5, <1>6 DEF Repeats!FinalizeSuccess

LEMMA RepeatsFailure ==
  ASSUME Repeats!TypeOK, NEW r \in Reminders, Repeats!FinalizeFailure(r)
  PROVE  Repeats!TypeOK'
<1> DEFINE failed == [row[r] EXCEPT !.at = "failed"]
           again == [row[r] EXCEPT !.at = "pending", !.retry = 1]
<1>1. row[r] \in Repeats!Row
  BY InFlight
<1>2. RowFits(row[r], "sending")
  BY InFlight DEF Repeats!FinalizeFailure, Repeats!Landed
<1>3. CASE Repeats!Landed(r, failed)
  <2> DEFINE q == [failed EXCEPT !.lease = 0]
  <2>1. RowFits(q, "none")
    BY <1>1, <1>2, RowGivenUp
  <2> HIDE DEF failed
  <2>2. QED
    BY <1>3, <2>1, RepeatsLanded
<1>4. CASE Repeats!Landed(r, again)
  <2> DEFINE q == [again EXCEPT !.lease = 0]
  <2>1. RowFits(q, "none")
    BY <1>1, <1>2, RowRetried
  <2> HIDE DEF again
  <2>2. QED
    BY <1>4, <2>1, RepeatsLanded
<1>5. QED
  BY <1>3, <1>4 DEF Repeats!FinalizeFailure

LEMMA RepeatsAbandon ==
  ASSUME Repeats!TypeOK, NEW r \in Reminders, Repeats!Abandon(r)
  PROVE  Repeats!TypeOK'
<1>1. RowFits(row[r], "none")
  BY InFlight DEF RowFits
<1>2. /\ hour' = hour /\ reserved' \in 0..Cooldown
      /\ row' = [row EXCEPT ![r] = row[r]] /\ flight' = [flight EXCEPT ![r] = "none"]
  BY InFlight DEF Repeats!Abandon
<1>3. QED
  BY <1>1, <1>2, RowWritten

LEMMA DownBounds ==
  ASSUME NEW n \in Nat, NEW t \in 0..n
  PROVE  Repeats!Down(t) \in 0..n
BY DEF Repeats!Down

LEMMA RepeatsTick ==
  ASSUME Repeats!TypeOK, Repeats!Tick
  PROVE  Repeats!TypeOK'
<1>1. reserved' \in 0..Cooldown
  BY RowsFit, Policy, DownBounds DEF Repeats!Tick
<1>2. hour' \in 0..(Day - 1)
  <2>1. hour + 1 \in Int /\ Day \in Nat \ {0}
    BY RowsFit, Policy
  <2>2. hour' = (hour + 1) % Day
    BY DEF Repeats!Tick
  <2>3. QED
    BY <2>1, <2>2
<1>3. ASSUME NEW r \in Reminders
      PROVE  RowFits(row'[r], flight'[r])
  <2> DEFINE a == Repeats!Down(row[r].remind)
             t == Repeats!Down(row[r].wait)
             b == Repeats!Down(row[r].retry)
             l == Repeats!Down(row[r].lease)
             q == [row[r] EXCEPT !.remind = a, !.wait = t, !.retry = b, !.lease = l]
  <2>1. row[r] \in Repeats!Row
    BY InFlight
  <2>2. RowFits(row[r], flight[r])
    BY InFlight
  <2>3. a \in Bits
    BY <2>1, DownBounds DEF Repeats!Row, Bits
  <2>4. b \in Bits
    BY <2>1, DownBounds DEF Repeats!Row, Bits
  <2>5. l \in Leases
    BY <2>1, Policy, DownBounds DEF Repeats!Row, Leases
  <2>6. t \in Waits
    <3>1. row[r].wait \in 0..(Interval + Cooldown + Day) /\ Interval + Cooldown + Day \in Nat
      BY <2>1, Policy DEF Repeats!Row
    <3>2. QED
      BY <3>1, DownBounds DEF Waits
  <2>7. row'[r] = q
    BY DEF Repeats!Tick
  <2> HIDE DEF a, b, l, t
  <2>8. q.lease = l
    BY <2>1 DEF Repeats!Row
  <2>9. flight'[r] = Lapsed(l, flight[r])
    BY <2>7, <2>8 DEF Repeats!Tick, Lapsed
  <2>10. RowFits(q, Lapsed(l, flight[r]))
    BY <2>1, <2>2, <2>3, <2>4, <2>5, <2>6, RowTicked
  <2> HIDE DEF q
  <2>11. QED
    BY <2>7, <2>9, <2>10
<1>4. /\ row' \in [Reminders -> Repeats!Row]
      /\ flight' \in [Reminders -> {"none", "claimed", "sending"}]
  <2>1. \A r \in Reminders : row'[r] \in Repeats!Row
                            /\ flight'[r] \in {"none", "claimed", "sending"}
    BY <1>3 DEF RowFits
  <2>2. DOMAIN row' = Reminders /\ row' = [r \in Reminders |-> row'[r]]
    BY DEF Repeats!Tick
  <2>3. flight' = [r \in Reminders |-> flight'[r]]
    BY DEF Repeats!Tick
  <2>4. QED
    BY <2>1, <2>2, <2>3
<1>5. QED
  BY <1>1, <1>2, <1>3, <1>4 DEF Repeats!TypeOK, RowFits

\* A step of the user: the row has no flight.
LEMMA RepeatsActs ==
  ASSUME Repeats!TypeOK, NEW r \in Reminders, Repeats!OnCard(r) \/ Repeats!OnRow(r),
         NEW q, Repeats!Acts(r, q), RowFits(q, "none")
  PROVE  Repeats!TypeOK'
<1>1. flight[r] = "none"
  BY InFlight DEF Repeats!OnCard, Repeats!OnRow, RowFits
<1>2. /\ hour' = hour /\ reserved' \in 0..Cooldown
      /\ row' = [row EXCEPT ![r] = q] /\ flight' = flight
  BY InFlight DEF Repeats!Acts, Repeats!Put
<1>3. QED
  BY <1>1, <1>2, RowWritten

LEMMA RepeatsAnswered ==
  ASSUME Repeats!TypeOK, NEW r \in Reminders,
         \/ Repeats!Done(r) \/ Repeats!Delete(r) \/ Repeats!Disable(r) \/ Repeats!Snooze(r)
  PROVE  Repeats!TypeOK'
<1> DEFINE kept == [row[r] EXCEPT !.mode = "normal", !.at = "delivered", !.wait = 0]
           plain == [row[r] EXCEPT !.mode = "normal", !.wait = row[r].remind,
                                   !.retry = 0, !.attempt = 0]
           later == [row[r] EXCEPT !.mode = "normal", !.at = "pending", !.wait = 1, !.retry = 0,
                                   !.attempt = 0, !.card = FALSE]
<1>1. row[r] \in Repeats!Row
  BY InFlight
<1>2. CASE Repeats!Done(r) \/ Repeats!Delete(r)
  <2>1. RowFits(Repeats!Over(r), "none")
    BY <1>1, RowOver DEF Repeats!Over
  <2>2. QED
    BY <1>2, <2>1, RepeatsActs DEF Repeats!Done, Repeats!Delete
<1>3. CASE Repeats!OnCard(r) /\ Repeats!Acts(r, kept)
  <2>1. RowFits(kept, "none")
    BY <1>1, RowKept
  <2> HIDE DEF kept
  <2>2. QED
    BY <1>3, <2>1, RepeatsActs
<1>4. CASE Repeats!OnRow(r) /\ Repeats!Acts(r, plain)
  <2> DEFINE t == row[r].remind
  <2>1. row[r].at = "pending"
    BY <1>4 DEF Repeats!OnRow
  <2>2. t \in Waits
    BY <1>1, Policy DEF Repeats!Row, Waits
  <2> HIDE DEF t
  <2>3. RowFits(plain, "none")
    BY <1>1, <2>1, <2>2, RowDisabled DEF t
  <2> HIDE DEF plain
  <2>4. QED
    BY <1>4, <2>3, RepeatsActs
<1>5. CASE (Repeats!OnCard(r) \/ Repeats!OnRow(r)) /\ Repeats!Acts(r, later)
  <2>1. RowFits(later, "none")
    BY <1>1, RowSnoozed
  <2> HIDE DEF later
  <2>2. QED
    BY <1>5, <2>1, RepeatsActs
<1>6. QED
  BY <1>2, <1>3, <1>4, <1>5 DEF Repeats!Disable, Repeats!Snooze

LEMMA RepeatsStep ==
  ASSUME Repeats!TypeOK, [Repeats!Next]_(Repeats!vars)
  PROVE  Repeats!TypeOK'
<1>1. CASE UNCHANGED Repeats!vars
  BY <1>1 DEF Repeats!TypeOK, Repeats!vars
<1>2. CASE Repeats!Next
  BY <1>2, RepeatsTick, RepeatsClaim, RepeatsRenew, RepeatsSuccess, RepeatsFailure,
     RepeatsAbandon, RepeatsAnswered
  DEF Repeats!Next, Repeats!FlightStep
<1>3. QED
  BY <1>1, <1>2

-----------------------------------------------------------------------------
(* The whole                                                                *)

\* The invariant of the part that runs.
Inv ==
  /\ part \in {"polls", "sends", "talk", "days", "race", "repeats"}
  /\ part = "polls" => Polls!PollInv
  /\ part = "sends" => Sends!CountInv /\ Sends!PollInv
  /\ part = "talk" => Talk!FlowInv
  /\ part = "days" => Days!Chained
  /\ part = "race" => Race!Inv
  /\ part = "repeats" => Repeats!TypeOK

\* "days" is the case of one worker and two periods.
LEMMA Alone == Days!OneWorker /\ Days!TwoPeriods
BY DEF Days!OneWorker, Days!TwoPeriods

LEMMA InitInv ==
  ASSUME Init
  PROVE  Inv
<1>1. CASE part = "polls" /\ Polls!Init
  BY <1>1, Constants, Polls!InitPolls DEF Inv
<1>2. CASE part = "sends" /\ Sends!Init
  BY <1>2, Constants, Sends!InitPolls, Sends!InitCounts DEF Inv
<1>3. CASE part = "talk" /\ Talk!Init
  BY <1>3, Constants, Talk!InitFlow DEF Inv
<1>4. CASE part = "days" /\ Days!Init
  BY <1>4, Constants, Days!InitChained DEF Inv
<1>5. CASE part = "race" /\ Race!Init
  BY <1>5, Constants, Race!InitTypes, Race!InitDelivery DEF Inv, Race!Inv
<1>6. CASE part = "repeats" /\ Repeats!Init
  BY <1>6, RepeatsInit DEF Inv
<1>7. QED
  BY <1>1, <1>2, <1>3, <1>4, <1>5, <1>6 DEF Init

LEMMA StepInv ==
  ASSUME Inv, [Next]_vars
  PROVE  Inv'
<1>1. part' = part
  BY PartSteps
<1>2. part = "polls" => Polls!PollInv'
  BY PartSteps, Constants, Polls!PollStepInv DEF Inv
<1>3. part = "sends" => Sends!CountInv'
  BY PartSteps, Constants, Sends!CountStepInv DEF Inv
<1>4. part = "sends" => Sends!PollInv'
  BY PartSteps, Constants, Sends!PollStepInv DEF Inv
<1>5. part = "talk" => Talk!FlowInv'
  BY PartSteps, Constants, Talk!FlowStep DEF Inv
<1>6. part = "days" => Days!Chained'
  BY PartSteps, Constants, Alone, Days!ChainedStep DEF Inv
<1>7. part = "race" => Race!Inv'
  BY PartSteps, Constants, Race!NextInv DEF Inv
<1>8. part = "repeats" => Repeats!TypeOK'
  BY PartSteps, RepeatsStep DEF Inv
<1>9. QED
  BY <1>1, <1>2, <1>3, <1>4, <1>5, <1>6, <1>7, <1>8 DEF Inv

LEMMA Invariance == Spec => []Inv
<1>1. Init => Inv
  BY InitInv
<1>2. Inv /\ [Next]_vars => Inv'
  BY StepInv
<1>3. QED
  BY <1>1, <1>2, SpecSteps, PTL

\* The types of every part, those of the important reminders included: a flight
\* has its row and the lease of it, buttons belong to a delivery that is not
\* under way, and a cycle never outlives the limit of its deliveries.
THEOREM TypeCorrect == Spec => []TypeOK
<1>1. Inv => TypeOK
  BY DEF Inv, TypeOK, Polls!PollInv, Polls!Types, Sends!PollInv, Sends!Types, Talk!FlowInv,
         Talk!Types, Days!Chained, Days!Inv, Days!Types, Race!Inv, Race!Types
<1>2. QED
  BY <1>1, Invariance, PTL

\* No late answer disturbs the attempt under way (finalize_action_delivery).
THEOREM AttemptIsHeld == Spec => []HeldWhileSending
<1>1. Inv => HeldWhileSending
  BY DEF Inv, HeldWhileSending, Sends!CountInv, Sends!SendInv
<1>2. QED
  BY <1>1, Invariance, PTL

\* An alert comes twice only for an attempt the outbox lost track of.
THEOREM DuplicatesAreDoubted == Spec => []DuplicateNeedsDoubt
<1>1. Inv => DuplicateNeedsDoubt
  BY Constants, Sends!CountedDoubts DEF Inv, DuplicateNeedsDoubt
<1>2. QED
  BY <1>1, Invariance, PTL

\* No poll writes an older state of the pull request over a newer one
\* (_record_success, fenced by lease_token).
THEOREM PollsRecordInOrder == Spec => ObservationsInOrder
<1>1. Inv /\ [Next]_vars => [seen' >= seen]_(Polls!vars)
  <2>1. SUFFICES ASSUME Inv, [Next]_vars, ~UNCHANGED Polls!vars
                 PROVE  seen' >= seen
    OBVIOUS
  <2>2. CASE part = "polls"
    BY <2>1, <2>2, PartSteps, Constants, Polls!SeenGrows DEF Inv
  <2>3. CASE part = "sends"
    BY <2>1, <2>3, PartSteps, Constants, Sends!SeenGrows DEF Inv
  <2>4. CASE part \notin {"polls", "sends"}
    <3>1. UNCHANGED conditions
      BY <2>1, <2>4 DEF Next, OfConditions, OfTalk, OfDigests, OfRepeats, vars
    <3>2. QED
      BY <2>1, <3>1 DEF conditions, Polls!vars
  <2>5. QED
    BY <2>2, <2>3, <2>4
<1>2. QED
  BY <1>1, Invariance, SpecSteps, PTL DEF ObservationsInOrder, Polls!ObservationsInOrder

\* The user is in one flow at most: an action draft, a question or a voice draft.
THEOREM OneFlowAtMost == Spec => []OneFlow
<1>1. Inv => OneFlow
  BY DEF Inv, OneFlow, Talk!FlowInv
<1>2. QED
  BY <1>1, Invariance, PTL

\* A draft or a question takes effect once.
THEOREM FlowsAreUsedOnce == Spec => []UsedOnce
<1>1. Inv => UsedOnce
  BY DEF Inv, UsedOnce, Talk!FlowInv
<1>2. QED
  BY <1>1, Invariance, PTL

\* A digest whose sender can report it is not sent again.
THEOREM DigestsOnce == Spec => []DigestOnce
<1>1. Inv => DigestOnce
  BY DEF Inv, DigestOnce, Days!Chained, Days!Inv, Days!DeliveryInv, Race!Inv, Race!DeliveryInv
<1>2. QED
  BY <1>1, Invariance, PTL

\* While digests are on and the clock was never set back, some slot is ahead or
\* under way (one worker): _ensure_digest_schedule is called by the end of every
\* slot that could be the last one.
THEOREM ChainNeverBreaks == Spec => []ChainHolds
<1>1. Inv => ChainHolds
  BY DEF Inv, ChainHolds, Days!Chained, Days!ChainInv, Days!ChainHolds
<1>2. QED
  BY <1>1, Invariance, PTL
=============================================================================
