------------------------ MODULE DeadlinePlansProofs ------------------------
(***************************************************************************)
(* Deadline plans, for any requests, workers, leases and bounds.  The      *)
(* invariants come in layers: the types; the agreement of the plan, its    *)
(* copy and the row; the claims of the workers; and what has gone out.     *)
(***************************************************************************)
EXTENDS DeadlinePlans, WellFoundedInduction, TLAPS

WorkerState == [pc : PCs, token : Nat, step : Nat \X (Times \union {Null})]

DraftState ==
  [id : Nat, deadline : Nat, pending : SUBSET Times, skipped : SUBSET Times, until : Nat]

\* The occurrences that were made have a last one.
MadeUpTo(o, n) == \A t \in Times : o[t].status # "absent" => t <= n

TypesOf(n, r, p, m, st, o, d, ds, w, c, s) ==
  /\ n \in 0..MaxTime
  /\ r \in Reminder /\ p \in Plan /\ m \in Plan
  /\ st \in [Keys -> StepStates]
  /\ o \in [Times -> Occurrence] /\ \E i \in Nat : MadeUpTo(o, i)
  /\ d \in DraftState /\ ds \in 0..MaxDrafts
  /\ w \in [Workers -> WorkerState]
  /\ c \subseteq Card
  /\ s \in [Keys -> Nat]

Types == TypesOf(now, rem, plan, mirror, steps, occ, draft, drafts, worker, cards, sends)

-----------------------------------------------------------------------------
(* The operators: times, sets of steps and their first one                 *)

LEMMA TimesAre ==
  /\ Times \subseteq Nat \ {0}
  /\ Null \notin Times /\ Null \in Nat
  /\ \A q \in Requests : q.points \subseteq Times /\ q.points \subseteq Nat \ {0}
<1>1. \A q \in Requests : q.points \subseteq Nat \ {0}
  BY DeadlineAssumption
<1>2. QED
  BY <1>1 DEF Times, Null

LEMMA BoundsAre ==
  /\ MaxAttempts \in Nat /\ Lease \in Nat /\ Lease >= 1 /\ RetryDelay \in Nat /\ RetryDelay >= 1
  /\ DraftTTL \in Nat /\ MaxTime \in Nat /\ MaxPlans \in Nat /\ MaxPlans >= 1
  /\ MaxDrafts \in Nat /\ MaxEvents \in Nat
<1>1. {MaxAttempts, Lease, RetryDelay, DraftTTL, MaxTime, MaxPlans} \subseteq Nat \ {0}
  BY DeadlineAssumption
<1>2. {MaxDrafts, MaxEvents} \subseteq Nat
  BY DeadlineAssumption
<1>3. QED
  BY <1>1, <1>2

\* The first of a set of times.
LEMMA FirstIs ==
  ASSUME NEW ts, ts \subseteq Nat, ts # {}
  PROVE  /\ First(ts) = Min(ts) /\ Min(ts) \in ts
         /\ \A t \in ts : Min(ts) <= t
<1>1. PICK t \in ts : \A u \in ts : ~ (<<u, t>> \in OpToRel(<, Nat))
  BY NatLessThanWellFounded, WFMin
<1>2. \A u \in ts : ~ (u < t)
  BY <1>1 DEF OpToRel
<1>3. ASSUME NEW u \in ts PROVE t <= u
  <2>1. t \in Nat /\ u \in Nat /\ ~ (u < t)
    BY <1>2
  <2>2. QED
    BY <2>1
<1>4. QED
  BY <1>3 DEF Min, First

LEMMA FirstMade ==
  ASSUME NEW ts, ts \subseteq Nat, NEW t \in ts, \A u \in ts : t <= u
  PROVE  First(ts) = t /\ Min(ts) = t
<1>1. Min(ts) \in ts /\ Min(ts) <= t /\ First(ts) = Min(ts)
  BY FirstIs
<1>2. t <= Min(ts) /\ t \in Nat /\ Min(ts) \in Nat
  BY <1>1
<1>3. Min(ts) = t
  BY <1>1, <1>2
<1>4. QED
  BY <1>1, <1>3

LEMMA FirstTyped ==
  ASSUME NEW ts, ts \subseteq Times
  PROVE  First(ts) \in Times \union {Null} /\ First(ts) \in Nat
<1>1. CASE ts = {}
  BY <1>1 DEF First, Null
<1>2. CASE ts # {}
  BY <1>2, FirstIs, TimesAre
<1>3. QED
  BY <1>1, <1>2

\* The last of a bounded set of times.
LEMMA LastIs ==
  ASSUME NEW ts, ts \subseteq Nat, ts # {}, NEW n \in Nat, \A t \in ts : t <= n
  PROVE  Max(ts) \in ts
<1> DEFINE gaps == {n - t : t \in ts}
<1>1. gaps \subseteq Nat /\ gaps # {}
  <2>1. ASSUME NEW t \in ts PROVE n - t \in Nat
    <3>1. t \in Nat /\ t <= n
      OBVIOUS
    <3>2. QED
      BY <3>1
  <2>2. QED
    BY <2>1
<1>2. PICK g \in gaps : \A h \in gaps : ~ (<<h, g>> \in OpToRel(<, Nat))
  BY <1>1, NatLessThanWellFounded, WFMin
<1>3. PICK t \in ts : g = n - t
  BY <1>2
<1>4. \A u \in ts : n - t <= n - u
  <2>1. SUFFICES ASSUME NEW u \in ts PROVE n - t <= n - u
    OBVIOUS
  <2>2. n - u \in gaps /\ n - u \in Nat /\ n - t \in Nat
    BY <1>1, <1>3
  <2>3. ~ (<<n - u, n - t>> \in OpToRel(<, Nat))
    BY <1>2, <1>3, <2>2
  <2>4. QED
    BY <2>2, <2>3 DEF OpToRel
<1>5. ASSUME NEW u \in ts PROVE t >= u
  <2>1. t \in Nat /\ u \in Nat /\ n - t <= n - u
    BY <1>4
  <2>2. QED
    BY <2>1
<1>6. QED
  BY <1>5 DEF Max

-----------------------------------------------------------------------------
(* The operators: the pending steps after some of them are marked          *)

LEMMA PendingIn ==
  ASSUME NEW st, NEW n
  PROVE  /\ Pending(st, n) \subseteq Times
         /\ \A t : t \in Pending(st, n) <=> t \in Times /\ n \in Plans /\ st[<<n, t>>] = "pending"
BY DEF Pending

LEMMA MarkIs ==
  ASSUME NEW st \in [Keys -> StepStates], NEW n \in Nat, NEW ts, NEW s \in StepStates
  PROVE  /\ Mark(st, n, ts, s) \in [Keys -> StepStates]
         /\ \A t \in Times : n \in Plans /\ t \in ts => Mark(st, n, ts, s)[<<n, t>>] = s
         /\ \A i \in Plans, t \in Times :
              i # n \/ t \notin ts => Mark(st, n, ts, s)[<<i, t>>] = st[<<i, t>>]
<1>1. \A i \in Plans, t \in Times :
        <<i, t>> \in Keys /\ <<i, t>>[1] = i /\ <<i, t>>[2] = t
  BY DEF Keys
<1>2. QED
  BY <1>1 DEF Mark

LEMMA MarkTyped ==
  ASSUME NEW st \in [Keys -> StepStates], NEW n \in Nat, NEW ts, NEW s \in StepStates
  PROVE  Mark(st, n, ts, s) \in [Keys -> StepStates]
BY DEF Mark

\* Steps that leave the pending ones.
LEMMA MarkEnds ==
  ASSUME NEW st \in [Keys -> StepStates], NEW n \in Nat, NEW ts,
         NEW s \in StepStates, s # "pending"
  PROVE  /\ Pending(Mark(st, n, ts, s), n) = Pending(st, n) \ ts
         /\ \A i \in Plans : i # n => Pending(Mark(st, n, ts, s), i) = Pending(st, i)
<1> DEFINE new == Mark(st, n, ts, s)
<1>1. /\ \A t \in Times : n \in Plans /\ t \in ts => new[<<n, t>>] = s
      /\ \A i \in Plans, t \in Times : i # n \/ t \notin ts => new[<<i, t>>] = st[<<i, t>>]
  BY MarkIs
<1> HIDE DEF new
<1>2. Pending(new, n) = Pending(st, n) \ ts
  BY <1>1 DEF Pending
<1>3. \A i \in Plans : i # n => Pending(new, i) = Pending(st, i)
  BY <1>1 DEF Pending
<1>4. QED
  BY <1>2, <1>3 DEF new

\* Steps that join them.
LEMMA MarkBegins ==
  ASSUME NEW st \in [Keys -> StepStates], NEW n \in Plans, NEW ts, ts \subseteq Times
  PROVE  /\ Pending(Mark(st, n, ts, "pending"), n) = Pending(st, n) \union ts
         /\ \A i \in Plans : i # n => Pending(Mark(st, n, ts, "pending"), i) = Pending(st, i)
<1> DEFINE new == Mark(st, n, ts, "pending")
<1>1. /\ \A t \in Times : n \in Plans /\ t \in ts => new[<<n, t>>] = "pending"
      /\ \A i \in Plans, t \in Times : i # n \/ t \notin ts => new[<<i, t>>] = st[<<i, t>>]
  <2>1. "pending" \in StepStates /\ n \in Nat
    BY BoundsAre DEF StepStates, Plans
  <2>2. QED
    BY <2>1, MarkIs
<1> HIDE DEF new
<1>2. Pending(new, n) = Pending(st, n) \union ts
  BY <1>1 DEF Pending
<1>3. \A i \in Plans : i # n => Pending(new, i) = Pending(st, i)
  BY <1>1 DEF Pending
<1>4. QED
  BY <1>2, <1>3 DEF new

\* One step leaves them.
LEMMA OneEnds ==
  ASSUME NEW st \in [Keys -> StepStates], NEW n \in Plans, NEW t \in Times,
         NEW new \in [Keys -> StepStates], new[<<n, t>>] # "pending",
         \A k \in Keys : k # <<n, t>> => new[k] = st[k]
  PROVE  /\ Pending(new, n) = Pending(st, n) \ {t}
         /\ \A i \in Plans : i # n => Pending(new, i) = Pending(st, i)
<1>1. \A i \in Plans, u \in Times : <<i, u>> \in Keys /\ (i # n \/ u # t => <<i, u>> # <<n, t>>)
  BY DEF Keys
<1>2. \A i \in Plans, u \in Times : i # n \/ u # t => new[<<i, u>>] = st[<<i, u>>]
  BY <1>1
<1>3. Pending(new, n) = Pending(st, n) \ {t}
  BY <1>2 DEF Pending
<1>4. \A i \in Plans : i # n => Pending(new, i) = Pending(st, i)
  BY <1>2 DEF Pending
<1>5. QED
  BY <1>3, <1>4

-----------------------------------------------------------------------------
(* The operators: rows, plans and occurrences                              *)

LEMMA RowsAre ==
  ASSUME NEW r \in Reminder
  PROVE  /\ r.status \in {"absent", "pending", "processing", "sent", "failed"}
         /\ r.state \in {"scheduled", "delivered", "paused", "completed", "cancelled", "failed"}
         /\ r.rev \in Nat /\ r.at \in Times \union {Null} /\ r.at \in Nat
         /\ r.attempts \in Nat /\ r.retryAt \in Nat /\ r.token \in Nat /\ r.lease \in Nat
         /\ r.msg \in Nat /\ r.named \in Times \union {Null}
<1>1. r.at \in Nat
  BY TimesAre DEF Reminder
<1>2. QED
  BY <1>1 DEF Reminder, Final

\* What the operators on rows leave alone and what they set.
LEMMA ReleasedIs ==
  ASSUME NEW r \in Reminder
  PROVE  /\ Released(r) \in Reminder /\ Released(r).token = Null /\ Released(r).lease = 0
         /\ Released(r).retryAt = 0 /\ Released(r).status = r.status
         /\ Released(r).state = r.state /\ Released(r).at = r.at /\ Released(r).rev = r.rev
BY DEF Released, Reminder, Null

LEMMA AnonymousIs ==
  ASSUME NEW r \in Reminder
  PROVE  /\ Anonymous(r) \in Reminder /\ Anonymous(r).status = r.status
         /\ Anonymous(r).state = r.state /\ Anonymous(r).at = r.at
         /\ Anonymous(r).rev = r.rev /\ Anonymous(r).token = r.token
         /\ Anonymous(r).attempts = r.attempts
BY DEF Anonymous, Reminder, Null

LEMMA FreshIs ==
  ASSUME NEW r \in Reminder
  PROVE  /\ Fresh(r) \in Reminder /\ Fresh(r).token = Null /\ Fresh(r).status = r.status
         /\ Fresh(r).state = r.state /\ Fresh(r).at = r.at /\ Fresh(r).rev = r.rev
         /\ Fresh(r).retryAt = 0
<1> DEFINE a == Anonymous(r)
<1>1. a \in Reminder /\ a.status = r.status /\ a.state = r.state /\ a.at = r.at /\ a.rev = r.rev
  BY AnonymousIs
<1> HIDE DEF a
<1> DEFINE f == [a EXCEPT !.attempts = 0, !.retryAt = 0, !.token = Null, !.lease = 0]
<1>2. /\ f \in Reminder /\ f.token = Null /\ f.status = a.status /\ f.retryAt = 0
      /\ f.state = a.state /\ f.at = a.at /\ f.rev = a.rev
  BY <1>1 DEF Reminder, Null
<1> HIDE DEF f
<1>3. f = Fresh(r)
  BY DEF f, a, Fresh
<1>4. QED
  BY <1>1, <1>2, <1>3

LEMMA ScheduledIs ==
  ASSUME NEW r \in Reminder, NEW t \in Times \union {Null}
  PROVE  /\ Scheduled(r, t) \in Reminder /\ Scheduled(r, t).status = "pending"
         /\ Scheduled(r, t).state = "scheduled" /\ Scheduled(r, t).at = t
         /\ Scheduled(r, t).rev = r.rev /\ Scheduled(r, t).token = r.token
BY DEF Scheduled, Reminder

LEMMA ExhaustedRowIs ==
  ASSUME NEW r \in Reminder
  PROVE  /\ ExhaustedRow(r) \in Reminder /\ ExhaustedRow(r).status = "sent"
         /\ ExhaustedRow(r).state = "delivered" /\ ExhaustedRow(r).rev = r.rev
         /\ ExhaustedRow(r).token = r.token
BY DEF ExhaustedRow, Reminder

LEMMA FailedRowIs ==
  ASSUME NEW r \in Reminder
  PROVE  /\ FailedRow(r) \in Reminder /\ FailedRow(r).status = "failed"
         /\ FailedRow(r).state = "failed" /\ FailedRow(r).rev = r.rev
         /\ FailedRow(r).token = Null
<1> DEFINE a == Anonymous(r)
           b == Released(a)
<1>1. a \in Reminder /\ a.rev = r.rev
  BY AnonymousIs
<1>2. b \in Reminder /\ b.rev = r.rev /\ b.token = Null
  BY <1>1, ReleasedIs
<1>3. FailedRow(r) = [b EXCEPT !.status = "failed", !.state = "failed"]
  BY DEF FailedRow
<1> HIDE DEF a, b
<1>4. QED
  BY <1>2, <1>3 DEF Reminder, Final

LEMMA NoReminderIs ==
  /\ NoReminder \in Reminder /\ NoReminder.status = "absent" /\ NoReminder.rev = 0
  /\ NoReminder.token = Null
BY DEF NoReminder, Reminder, Null

\* The plans that the operations write.
LEMMA PlansAre ==
  ASSUME NEW p \in Plan
  PROVE  /\ p.state \in {"none", "active", "disabled", "exhausted", "completed", "cancelled"}
         /\ p.rev \in Nat /\ p.current \in Times \union {Null} /\ p.current \in Nat
         /\ p = [state |-> p.state, rev |-> p.rev, current |-> p.current]
<1>1. p.current \in Nat
  BY TimesAre DEF Plan
<1>2. QED
  BY <1>1 DEF Plan

LEMMA PlanMade ==
  ASSUME NEW s \in {"none", "active", "disabled", "exhausted", "completed", "cancelled"},
         NEW n \in Nat, NEW t \in Times \union {Null}
  PROVE  [state |-> s, rev |-> n, current |-> t] \in Plan
BY DEF Plan

LEMMA PlanOps ==
  ASSUME NEW p \in Plan, NEW t \in Times \union {Null},
         NEW s \in {"none", "active", "disabled", "exhausted", "completed", "cancelled"}
  PROVE  /\ [p EXCEPT !.current = t] = [state |-> p.state, rev |-> p.rev, current |-> t]
         /\ Mirror(p, t) = [state |-> p.state, rev |-> p.rev, current |-> t]
         /\ [p EXCEPT !.state = s] = [state |-> s, rev |-> p.rev, current |-> p.current]
         /\ [p EXCEPT !.state = s, !.current = t] = [state |-> s, rev |-> p.rev, current |-> t]
         /\ Exhausted(p) = [state |-> "exhausted", rev |-> p.rev, current |-> Null]
         /\ Mirror([p EXCEPT !.state = s], t) = [state |-> s, rev |-> p.rev, current |-> t]
<1>1. /\ [p EXCEPT !.current = t] = [state |-> p.state, rev |-> p.rev, current |-> t]
      /\ [p EXCEPT !.state = s] = [state |-> s, rev |-> p.rev, current |-> p.current]
  BY DEF Plan
<1> DEFINE both == [p EXCEPT !.state = s, !.current = t]
<1>2. both \in Plan /\ both.state = s /\ both.rev = p.rev /\ both.current = t
  BY DEF Plan
<1>3. both = [state |-> s, rev |-> p.rev, current |-> t]
  <2> HIDE DEF both
  <2>1. both = [state |-> both.state, rev |-> both.rev, current |-> both.current]
    BY <1>2 DEF Plan
  <2>2. QED
    BY <1>2, <2>1
<1> DEFINE over == [p EXCEPT !.state = "exhausted", !.current = Null]
<1>4. over \in Plan /\ over.state = "exhausted" /\ over.rev = p.rev /\ over.current = Null
  BY DEF Plan
<1>5. over = [state |-> "exhausted", rev |-> p.rev, current |-> Null]
  <2> HIDE DEF over
  <2>1. over = [state |-> over.state, rev |-> over.rev, current |-> over.current]
    BY <1>4 DEF Plan
  <2>2. QED
    BY <1>4, <2>1
<1> DEFINE q == [p EXCEPT !.state = s]
<1>6. q \in Plan /\ q.state = s /\ q.rev = p.rev
  BY DEF Plan
<1> HIDE DEF q
<1>7. [q EXCEPT !.current = t] = [state |-> s, rev |-> p.rev, current |-> t]
  BY <1>6 DEF Plan
<1>8. QED
  BY <1>1, <1>3, <1>5, <1>7 DEF Mirror, Exhausted, q

LEMMA MirrorIs ==
  ASSUME NEW p \in Plan, NEW t \in Times \union {Null}
  PROVE  Mirror(p, t) = [state |-> p.state, rev |-> p.rev, current |-> t]
BY DEF Plan, Mirror

LEMMA MirrorSame ==
  ASSUME NEW p \in Plan
  PROVE  Mirror(p, p.current) = p
<1>1. Mirror(p, p.current) = [state |-> p.state, rev |-> p.rev, current |-> p.current]
  BY MirrorIs, PlansAre
<1>2. QED
  BY <1>1, PlansAre

LEMMA OccurrenceIs ==
  ASSUME NEW o \in Occurrence
  PROVE  /\ o.status \in {"absent", "processing", "delivered", "failed", "completed", "cancelled"}
         /\ o.rev \in Nat /\ o.msg \in Nat /\ o.step \in Keys \union {NoStep}
BY DEF Occurrence

LEMMA HighestIs ==
  ASSUME NEW a \in Nat, NEW b \in Nat
  PROVE  Highest(a, b) \in Nat
BY DEF Highest

-----------------------------------------------------------------------------
(* The operations: the row each of them writes                             *)

LEMMA Shapes ==
  ASSUME Types
  PROVE  /\ now \in Nat /\ now <= MaxTime
         /\ rem \in Reminder /\ plan \in Plan /\ mirror \in Plan
         /\ steps \in [Keys -> StepStates] /\ occ \in [Times -> Occurrence]
         /\ worker \in [Workers -> WorkerState]
         /\ \A w \in Workers :
              /\ worker[w].pc \in PCs /\ worker[w].token \in Nat
              /\ worker[w].step \in Nat \X (Times \union {Null})
         /\ cards \subseteq Card /\ sends \in [Keys -> Nat]
         /\ draft \in DraftState
         /\ drafts \in 0..MaxDrafts
<1>1. now \in Nat /\ now <= MaxTime
  BY BoundsAre DEF Types, TypesOf
<1>2. worker \in [Workers -> WorkerState]
  BY DEF Types, TypesOf
<1>3. \A w \in Workers :
        /\ worker[w].pc \in PCs /\ worker[w].token \in Nat
        /\ worker[w].step \in Nat \X (Times \union {Null})
  BY <1>2 DEF WorkerState
<1>4. QED
  BY <1>1, <1>2, <1>3 DEF Types, TypesOf

Revised(r, x, y) == [r EXCEPT !.status = x, !.state = y, !.rev = r.rev + 1]

LEMMA RevisedIs ==
  ASSUME NEW r \in Reminder, NEW x \in {"pending", "processing", "sent", "failed"},
         NEW y \in {"scheduled", "delivered", "paused", "completed", "cancelled"}
  PROVE  /\ Revised(r, x, y) \in Reminder /\ Revised(r, x, y).status = x
         /\ Revised(r, x, y).state = y /\ Revised(r, x, y).rev = r.rev + 1
         /\ Revised(r, x, y).at = r.at /\ Revised(r, x, y).token = r.token
<1> DEFINE n == r.rev + 1
<1>1. n \in Nat
  BY RowsAre
<1> HIDE DEF n
<1> DEFINE g == [r EXCEPT !.status = x, !.state = y, !.rev = n]
<1>2. g \in Reminder /\ g.status = x /\ g.state = y /\ g.rev = n /\ g.at = r.at /\ g.token = r.token
  BY <1>1 DEF Reminder, Final
<1>3. g = Revised(r, x, y)
  BY DEF Revised, n
<1> HIDE DEF g
<1>4. QED
  BY <1>2, <1>3 DEF n

LEMMA StepsAre ==
  ASSUME Types
  PROVE  steps \in [Keys -> StepStates]
BY DEF Types, TypesOf

LEMMA DoneRow ==
  ASSUME Types, NEW c, Done(c)
  PROVE  /\ rem' \in Reminder /\ rem'.status = "sent" /\ rem'.state = "completed"
         /\ rem'.rev = rem.rev + 1 /\ rem'.token = Null
<1> DEFINE f == Fresh(rem)
<1>1. f \in Reminder /\ f.rev = rem.rev /\ f.token = Null
  BY Shapes, FreshIs
<1>2. rem' = Revised(f, "sent", "completed")
  BY DEF Done, Revised
<1> HIDE DEF f
<1>3. QED
  BY <1>1, <1>2, RevisedIs

LEMMA DisabledRowIs ==
  ASSUME Types, NEW c
  PROVE  /\ DisabledRow(c) \in Reminder /\ DisabledRow(c).status = "sent"
         /\ DisabledRow(c).state \in {"delivered", "paused"}
         /\ DisabledRow(c).rev = rem.rev + 1 /\ DisabledRow(c).token \in {rem.token, Null}
<1>1. CASE c.at # Null
  <2>1. DisabledRow(c) = Revised(rem, "sent", "delivered")
    BY <1>1 DEF DisabledRow, Revised
  <2>2. QED
    BY <2>1, Shapes, RevisedIs
<1>2. CASE c.at = Null
  <2> DEFINE f == Fresh(rem)
  <2>1. f \in Reminder /\ f.rev = rem.rev /\ f.token = Null
    BY Shapes, FreshIs
  <2>2. DisabledRow(c) = Revised(f, "sent", "paused")
    BY <1>2 DEF DisabledRow, Revised
  <2> HIDE DEF f
  <2>3. QED
    BY <2>1, <2>2, RevisedIs
<1>3. QED
  BY <1>1, <1>2

\* The row that waits for a step of its plan again.
Waiting(r, t) == [Fresh(Scheduled(r, t)) EXCEPT !.rev = @ + 1]

LEMMA WaitingIs ==
  ASSUME Types, NEW t \in Times \union {Null}
  PROVE  /\ Waiting(rem, t) \in Reminder /\ Waiting(rem, t).status = "pending"
         /\ Waiting(rem, t).state = "scheduled" /\ Waiting(rem, t).at = t
         /\ Waiting(rem, t).rev = rem.rev + 1 /\ Waiting(rem, t).token = Null
<1> DEFINE s == Scheduled(rem, t)
           f == Fresh(s)
<1>1. s \in Reminder /\ s.status = "pending" /\ s.state = "scheduled" /\ s.at = t /\ s.rev = rem.rev
  BY Shapes, ScheduledIs
<1>2. /\ f \in Reminder /\ f.status = "pending" /\ f.state = "scheduled" /\ f.at = t
      /\ f.rev = rem.rev /\ f.token = Null
  BY <1>1, FreshIs
<1>3. Waiting(rem, t) = [f EXCEPT !.rev = f.rev + 1]
  BY DEF Waiting
<1> HIDE DEF s, f
<1> DEFINE n == f.rev + 1
<1>4. n \in Nat /\ n = rem.rev + 1
  BY <1>2, RowsAre
<1> HIDE DEF n
<1>5. Waiting(rem, t) = [f EXCEPT !.rev = n]
  BY <1>3 DEF n
<1>6. QED
  BY <1>2, <1>4, <1>5 DEF Reminder

LEMMA CancelledRow ==
  ASSUME Types, NEW at, Cancel(at)
  PROVE  /\ rem' \in Reminder /\ rem'.status = "sent" /\ rem'.state = "cancelled"
         /\ rem'.rev = rem.rev + 1 /\ rem'.token = Null
<1> DEFINE f == Released(rem)
<1>1. f \in Reminder /\ f.rev = rem.rev /\ f.token = Null
  BY Shapes, ReleasedIs
<1> DEFINE g == Revised(f, "sent", "cancelled")
<1>2. rem' = [g EXCEPT !.attempts = 0]
  BY DEF Cancel, Revised
<1> HIDE DEF f
<1>3. /\ g \in Reminder /\ g.status = "sent" /\ g.state = "cancelled" /\ g.rev = rem.rev + 1
      /\ g.token = Null
  BY <1>1, RevisedIs
<1> HIDE DEF g
<1>4. QED
  BY <1>2, <1>3 DEF Reminder

\* The row that waits for the next step, without its claim.
LEMMA ReleasedWaits ==
  ASSUME NEW r \in Reminder, NEW t \in Times \union {Null}
  PROVE  /\ Released(Scheduled(r, t)) \in Reminder
         /\ Released(Scheduled(r, t)).status = "pending"
         /\ Released(Scheduled(r, t)).state = "scheduled"
         /\ Released(Scheduled(r, t)).at = t /\ Released(Scheduled(r, t)).rev = r.rev
         /\ Released(Scheduled(r, t)).token = Null
<1> DEFINE s == Scheduled(r, t)
<1>1. s \in Reminder /\ s.status = "pending" /\ s.state = "scheduled" /\ s.at = t /\ s.rev = r.rev
  BY ScheduledIs
<1> HIDE DEF s
<1>2. /\ Released(s) \in Reminder /\ Released(s).status = "pending"
      /\ Released(s).state = "scheduled" /\ Released(s).at = t /\ Released(s).rev = r.rev
      /\ Released(s).token = Null
  BY <1>1, ReleasedIs
<1>3. QED
  BY <1>2 DEF s

LEMMA ReleasedEnds ==
  ASSUME NEW r \in Reminder
  PROVE  /\ Released(ExhaustedRow(r)) \in Reminder
         /\ Released(ExhaustedRow(r)).status = "sent"
         /\ Released(ExhaustedRow(r)).state = "delivered"
         /\ Released(ExhaustedRow(r)).rev = r.rev
         /\ Released(ExhaustedRow(r)).token = Null
<1> DEFINE s == ExhaustedRow(r)
<1>1. s \in Reminder /\ s.status = "sent" /\ s.state = "delivered" /\ s.rev = r.rev
  BY ExhaustedRowIs
<1> HIDE DEF s
<1>2. /\ Released(s) \in Reminder /\ Released(s).status = "sent"
      /\ Released(s).state = "delivered" /\ Released(s).rev = r.rev /\ Released(s).token = Null
  BY <1>1, ReleasedIs
<1>3. QED
  BY <1>2 DEF s

LEMMA ClaimedRow ==
  ASSUME Types, NEW w, ClaimRow(w)
  PROVE  /\ rem' \in Reminder /\ rem'.status = "processing" /\ rem'.state = rem.state
         /\ rem'.at = rem.at /\ rem'.rev = rem.rev + 1 /\ rem'.token = rem.rev + 1
         /\ rem'.lease = now + Lease
<1> DEFINE f == Anonymous(rem)
<1>1. f \in Reminder /\ f.rev = rem.rev /\ f.at = rem.at /\ f.state = rem.state
  BY Shapes, AnonymousIs
<1> DEFINE n == rem.rev + 1
           l == now + Lease
           a == f.attempts + 1
<1>2. rem' = [f EXCEPT !.status = "processing", !.token = n, !.lease = l,
                       !.retryAt = 0, !.rev = f.rev + 1, !.attempts = a]
  BY DEF ClaimRow
<1>3. n \in Nat /\ l \in Nat /\ a \in Nat
  BY <1>1, Shapes, RowsAre, BoundsAre
<1>4. f.rev + 1 = n
  BY <1>1
<1> HIDE DEF f, n, l, a
<1>5. rem' = [f EXCEPT !.status = "processing", !.token = n, !.lease = l,
                       !.retryAt = 0, !.rev = n, !.attempts = a]
  BY <1>2, <1>4
<1>6. /\ rem' \in Reminder /\ rem'.status = "processing" /\ rem'.state = rem.state
      /\ rem'.at = rem.at /\ rem'.rev = n /\ rem'.token = n /\ rem'.lease = l
  BY <1>1, <1>3, <1>5 DEF Reminder
<1>7. QED
  BY <1>6 DEF n, l

LEMMA RenewedRow ==
  ASSUME Types, NEW w, Renew(w), Owns(w)
  PROVE  /\ rem' \in Reminder /\ rem'.status = rem.status /\ rem'.state = rem.state
         /\ rem'.at = rem.at /\ rem'.rev = rem.rev /\ rem'.token = rem.token
         /\ rem'.lease = now + Lease /\ rem'.retryAt = rem.retryAt
<1>1. rem' = [rem EXCEPT !.lease = now + Lease]
  BY DEF Renew
<1>2. now + Lease \in Nat
  BY Shapes, BoundsAre
<1>3. QED
  BY <1>1, <1>2, Shapes DEF Reminder

LEMMA RecordedRow ==
  ASSUME Types, NEW w \in Workers, Record(w), OwnsLive(w), worker[w].step[2] \in Times
  PROVE  /\ rem' \in Reminder /\ rem'.status = rem.status /\ rem'.state = rem.state
         /\ rem'.at = rem.at /\ rem'.rev = rem.rev /\ rem'.token = rem.token
         /\ rem'.lease = rem.lease /\ rem'.retryAt = rem.retryAt
<1>1. rem' = [rem EXCEPT !.msg = worker[w].token, !.named = worker[w].step[2]]
  BY DEF Record
<1>2. worker[w].token \in Nat
  BY Shapes
<1>3. QED
  BY <1>1, <1>2, Shapes DEF Reminder

Retried(r) == [Released(Anonymous(r)) EXCEPT !.status = "pending", !.retryAt = now + RetryDelay]

LEMMA RetriedIs ==
  ASSUME Types
  PROVE  /\ Retried(rem) \in Reminder /\ Retried(rem).status = "pending"
         /\ Retried(rem).state = rem.state /\ Retried(rem).at = rem.at
         /\ Retried(rem).rev = rem.rev /\ Retried(rem).token = Null
         /\ Retried(rem).retryAt = now + RetryDelay
<1> DEFINE a == Anonymous(rem)
           b == Released(a)
<1>1. a \in Reminder /\ a.rev = rem.rev /\ a.at = rem.at /\ a.state = rem.state
  BY Shapes, AnonymousIs
<1>2. b \in Reminder /\ b.rev = rem.rev /\ b.at = rem.at /\ b.state = rem.state /\ b.token = Null
  BY <1>1, ReleasedIs
<1>3. now + RetryDelay \in Nat
  BY Shapes, BoundsAre
<1>4. Retried(rem) = [b EXCEPT !.status = "pending", !.retryAt = now + RetryDelay]
  BY DEF Retried
<1> HIDE DEF a, b
<1>5. QED
  BY <1>2, <1>3, <1>4 DEF Reminder

\* finalize_delivery_success resets the attempts first.
Half(r) == [r EXCEPT !.attempts = 0]

LEMMA HalfIs ==
  ASSUME NEW r \in Reminder
  PROVE  /\ Half(r) \in Reminder /\ Half(r).status = r.status /\ Half(r).state = r.state
         /\ Half(r).at = r.at /\ Half(r).rev = r.rev /\ Half(r).token = r.token
         /\ Half(r).lease = r.lease /\ Half(r).retryAt = r.retryAt
BY DEF Half, Reminder

-----------------------------------------------------------------------------
(* The operations: the occurrence each of them writes                      *)

\* One occurrence is written, and keeps the step it is for.
WritesOne(o, p, t) ==
  /\ p \in [Times -> Occurrence]
  /\ \A u \in Times : u # t => p[u] = o[u]
  /\ \A u \in Times : p[u].step = o[u].step

LEMMA CardIs ==
  ASSUME Types, NEW c \in cards
  PROVE  c.at \in Times \union {Null} /\ c.rev \in Nat /\ c.msg \in Nat
BY Shapes DEF Card

LEMMA DoneWrites ==
  ASSUME Types, NEW c \in cards, Done(c)
  PROVE  WritesOne(occ, occ', c.at)
<1>1. c.at \in Times /\ occ[c.at] \in Occurrence /\ occ[c.at].rev + 1 \in Nat
  BY CardIs, Shapes, OccurrenceIs DEF Done
<1> DEFINE n == occ[c.at].rev + 1
           x == [occ[c.at] EXCEPT !.status = "completed", !.rev = n]
<1>2. occ' = [occ EXCEPT ![c.at] = x]
  BY DEF Done
<1> HIDE DEF n
<1>3. x \in Occurrence /\ x.step = occ[c.at].step
  BY <1>1 DEF Occurrence, n
<1> HIDE DEF x
<1>4. QED
  BY <1>1, <1>2, <1>3, Shapes DEF WritesOne

LEMMA DisableWrites ==
  ASSUME Types, NEW c \in cards, Disable(c)
  PROVE  WritesOne(occ, occ', c.at)
<1>1. CASE c.at = Null
  BY <1>1, Shapes DEF Disable, WritesOne
<1>2. CASE c.at # Null
  <2>1. c.at \in Times /\ occ[c.at] \in Occurrence
    BY <1>2, CardIs, Shapes
  <2> DEFINE n == rem.rev + 1
             x == [occ[c.at] EXCEPT !.rev = n]
  <2>2. occ' = [occ EXCEPT ![c.at] = x]
    BY <1>2 DEF Disable
  <2>3. n \in Nat
    BY Shapes, RowsAre
  <2> HIDE DEF n
  <2>4. x \in Occurrence /\ x.step = occ[c.at].step
    BY <2>1, <2>3 DEF Occurrence
  <2> HIDE DEF x
  <2>5. QED
    BY <2>1, <2>2, <2>4, Shapes DEF WritesOne
<1>3. QED
  BY <1>1, <1>2

LEMMA RecordWrites ==
  ASSUME Types, NEW w \in Workers, Record(w), OwnsLive(w), worker[w].step[2] \in Times
  PROVE  WritesOne(occ, occ', worker[w].step[2])
<1> DEFINE t == worker[w].step[2]
           n == Highest(occ[t].rev, rem.rev)
           m == worker[w].token
           x == [occ[t] EXCEPT !.status = "delivered", !.rev = n, !.msg = m]
<1>1. t \in Times /\ occ[t] \in Occurrence /\ n \in Nat /\ m \in Nat
  BY Shapes, OccurrenceIs, HighestIs, RowsAre
<1>2. occ' = [occ EXCEPT ![t] = x]
  BY DEF Record
<1> HIDE DEF t, n, m
<1>3. x \in Occurrence /\ x.step = occ[t].step
  BY <1>1 DEF Occurrence
<1> HIDE DEF x
<1>4. WritesOne(occ, occ', t)
  BY <1>1, <1>2, <1>3, Shapes DEF WritesOne
<1>5. QED
  BY <1>4 DEF t

LEMMA SuccessWrites ==
  ASSUME Types, NEW w \in Workers, FinalizeSuccess(w), OwnsLive(w), rem.at \in Times
  PROVE  WritesOne(occ, occ', rem.at)
<1> DEFINE t == rem.at
           n == Highest(occ[t].rev, rem.rev)
           x == [occ[t] EXCEPT !.status = "delivered", !.rev = n]
<1>1. t \in Times /\ occ[t] \in Occurrence /\ n \in Nat
  BY Shapes, OccurrenceIs, HighestIs, RowsAre
<1>2. occ' = [occ EXCEPT ![t] = x]
  BY DEF FinalizeSuccess
<1> HIDE DEF t, n
<1>3. x \in Occurrence /\ x.step = occ[t].step
  BY <1>1 DEF Occurrence
<1> HIDE DEF x
<1>4. WritesOne(occ, occ', t)
  BY <1>1, <1>2, <1>3, Shapes DEF WritesOne
<1>5. QED
  BY <1>4 DEF t

LEMMA FailureWrites ==
  ASSUME Types, NEW w \in Workers, FinalizeFailure(w), OwnsLive(w), rem.at \in Times
  PROVE  WritesOne(occ, occ', rem.at)
<1> DEFINE t == rem.at
           x == [occ[t] EXCEPT !.status = "failed", !.msg = Null]
<1>1. t \in Times /\ occ[t] \in Occurrence
  BY Shapes
<1>2. occ' = [occ EXCEPT ![t] = x]
  BY DEF FinalizeFailure
<1> HIDE DEF t
<1>3. x \in Occurrence /\ x.step = occ[t].step
  BY <1>1, TimesAre DEF Occurrence
<1> HIDE DEF x
<1>4. WritesOne(occ, occ', t)
  BY <1>1, <1>2, <1>3, Shapes DEF WritesOne
<1>5. QED
  BY <1>4 DEF t

LEMMA PrepareWrites ==
  ASSUME Types, NEW w \in Workers, Prepare(w), OwnsLive(w), CurrentStep # Null
  PROVE  /\ occ' \in [Times -> Occurrence] /\ CurrentStep = plan.current
         /\ plan.current \in Times /\ plan.rev \in Plans /\ plan.state = "active"
         /\ plan.current \in Pending(steps, plan.rev)
         /\ occ'[plan.current].step = <<plan.rev, plan.current>>
         /\ \A u \in Times : u # plan.current => occ'[u] = occ[u]
<1>1. /\ CurrentStep = plan.current /\ plan.current \in Pending(steps, plan.rev)
      /\ plan.state = "active"
  BY DEF CurrentStep
<1>2. plan.current \in Times /\ plan.rev \in Plans
  BY <1>1 DEF Pending
<1> DEFINE x == Opened(occ[plan.current])
<1>3. x \in Occurrence /\ x.step = <<plan.rev, plan.current>>
  <2>1. /\ Highest(occ[plan.current].rev, rem.rev) \in Nat
        /\ <<plan.rev, plan.current>> \in Keys /\ Null \in Nat
    BY <1>2, Shapes, OccurrenceIs, HighestIs, RowsAre, TimesAre DEF Keys
  <2>2. QED
    BY <2>1 DEF Opened, Occurrence
<1>4. occ' = [occ EXCEPT ![plan.current] = x]
  BY <1>1 DEF Prepare
<1> HIDE DEF x
<1>5. QED
  BY <1>1, <1>2, <1>3, <1>4, Shapes

\* Cancel ends some occurrences that there are.
LEMMA CancelWrites ==
  ASSUME Types, NEW at, Cancel(at), at \in Times \union {Null},
         at # Null => occ[at].status = "delivered"
  PROVE  /\ occ' \in [Times -> Occurrence]
         /\ \A u \in Times : occ'[u].step = occ[u].step
         /\ \A u \in Times : occ'[u].status # "absent" => occ[u].status # "absent"
<1> DEFINE x(u) == [occ[u] EXCEPT !.status = "cancelled", !.rev = @ + 1]
<1>1. ASSUME NEW u \in Times
      PROVE  x(u) \in Occurrence /\ x(u).step = occ[u].step
  <2>1. occ[u] \in Occurrence
    BY Shapes
  <2> DEFINE n == occ[u].rev + 1
  <2>2. n \in Nat
    BY <2>1, OccurrenceIs
  <2> HIDE DEF n
  <2>3. x(u) = [occ[u] EXCEPT !.status = "cancelled", !.rev = n]
    BY DEF n
  <2>4. QED
    BY <2>1, <2>2, <2>3 DEF Occurrence
<1>2. occ' = [u \in Times |-> IF u \in EndedWith(at) THEN x(u) ELSE occ[u]]
  BY DEF Cancel
<1> HIDE DEF x
<1>3. \A u \in EndedWith(at) : occ[u].status # "absent"
  BY DEF EndedWith
<1>4. occ' \in [Times -> Occurrence]
  BY <1>1, <1>2, Shapes
<1>5. \A u \in Times : occ'[u].step = occ[u].step
  BY <1>1, <1>2
<1>6. \A u \in Times : occ'[u].status # "absent" => occ[u].status # "absent"
  BY <1>2, <1>3
<1>7. QED
  BY <1>4, <1>5, <1>6

LEMMA MadeGrows ==
  ASSUME NEW o, NEW p, NEW t \in Nat, \A u \in Times : u # t => p[u] = o[u],
         \E i \in Nat : MadeUpTo(o, i)
  PROVE  \E i \in Nat : MadeUpTo(p, i)
<1>1. PICK i \in Nat : MadeUpTo(o, i)
  OBVIOUS
<1>2. ASSUME NEW u \in Times, p[u].status # "absent" PROVE u <= i + t
  <2>1. u \in Nat
    BY TimesAre
  <2>2. CASE u = t
    BY <2>1, <2>2
  <2>3. CASE u # t
    <3>1. u <= i
      BY <1>1, <1>2, <2>3 DEF MadeUpTo
    <3>2. QED
      BY <2>1, <3>1
  <2>4. QED
    BY <2>2, <2>3
<1>3. i + t \in Nat /\ MadeUpTo(p, i + t)
  BY <1>2 DEF MadeUpTo
<1>4. QED
  BY <1>3

-----------------------------------------------------------------------------
(* The agreement of the plan, its copy and the row                         *)

\* PlanAndRowAgree, with the birth of the two: there is a plan when there is a
\* row, and its revisions are those of the model.
Agreement(r, p, m, st) ==
  LET left == Pending(st, p.rev)
  IN /\ r.status = "absent" <=> p.state = "none"
     /\ p.state = "none" => p.rev = 0 /\ r.rev = 0
     /\ p.state # "none" => p.rev \in Plans
     /\ r.status \in {"pending", "processing"} <=> p.state = "active"
     /\ p.state = "active" => r.state = "scheduled" /\ r.at = p.current
     /\ p.state \in {"active", "disabled"} => left # {} /\ p.current = Min(left)
     /\ p.state = "disabled" => r.state \in {"delivered", "paused"}
     /\ p.state = "exhausted" => r.state \in {"delivered", "failed"}
     /\ p.state \in {"completed", "cancelled"} => r.state = p.state
     /\ p.state \notin {"active", "disabled"} => left = {} \/ r.state = "failed"
     /\ m = Mirror(p, IF p.state = "active" THEN p.current ELSE Null)
     /\ \A n \in Plans : n # p.rev => Pending(st, n) = {}

Agree == Agreement(rem, plan, mirror, steps)

\* What a step finds: the active plan is at its first pending step.
LEMMA ActiveIs ==
  ASSUME Types, Agree, plan.state = "active"
  PROVE  /\ rem.status \in {"pending", "processing"} /\ rem.state = "scheduled"
         /\ plan.rev \in Plans /\ plan.current \in Times /\ rem.at = plan.current
         /\ plan.current \in Pending(steps, plan.rev)
         /\ \A t \in Pending(steps, plan.rev) : plan.current <= t
         /\ mirror = plan
         /\ <<plan.rev, plan.current>> \in Keys
<1> DEFINE left == Pending(steps, plan.rev)
<1>1. /\ rem.status \in {"pending", "processing"} /\ rem.state = "scheduled"
      /\ plan.rev \in Plans /\ rem.at = plan.current /\ left # {} /\ plan.current = Min(left)
      /\ mirror = Mirror(plan, plan.current)
  BY DEF Agree, Agreement
<1>2. left \subseteq Times /\ left \subseteq Nat
  BY TimesAre, PendingIn
<1>3. Min(left) \in left /\ \A t \in left : Min(left) <= t
  BY <1>1, <1>2, FirstIs
<1>4. mirror = plan
  BY <1>1, Shapes, MirrorSame
<1>5. QED
  BY <1>1, <1>2, <1>3, <1>4 DEF Keys

LEMMA ProcessingIs ==
  ASSUME Types, Agree, rem.status \in {"pending", "processing"}
  PROVE  plan.state = "active"
BY DEF Agree, Agreement

LEMMA AgreeActive ==
  ASSUME NEW r, NEW n \in Plans, NEW st, NEW t \in Pending(st, n),
         \A u \in Pending(st, n) : t <= u,
         r.status \in {"pending", "processing"}, r.state = "scheduled", r.at = t,
         \A i \in Plans : i # n => Pending(st, i) = {},
         NEW p, p = [state |-> "active", rev |-> n, current |-> t]
  PROVE  Agreement(r, p, p, st) /\ p \in Plan
<1>1. Pending(st, n) \subseteq Nat /\ t \in Times
  BY TimesAre, PendingIn
<1>2. Min(Pending(st, n)) = t
  BY <1>1, FirstMade
<1>3. p \in Plan
  BY <1>1, PlanMade DEF Plans
<1>4. p = Mirror(p, p.current)
  BY <1>3, MirrorSame
<1>5. QED
  BY <1>2, <1>3, <1>4 DEF Agreement

LEMMA AgreeDisabled ==
  ASSUME NEW r, NEW n \in Plans, NEW st, NEW t \in Pending(st, n),
         \A u \in Pending(st, n) : t <= u,
         r.status = "sent", r.state \in {"delivered", "paused"},
         \A i \in Plans : i # n => Pending(st, i) = {},
         NEW p, p = [state |-> "disabled", rev |-> n, current |-> t],
         NEW m, m = [state |-> "disabled", rev |-> n, current |-> Null]
  PROVE  Agreement(r, p, m, st) /\ p \in Plan /\ m \in Plan
<1>1. Pending(st, n) \subseteq Nat /\ t \in Times
  BY TimesAre, PendingIn
<1>2. Min(Pending(st, n)) = t
  BY <1>1, FirstMade
<1>3. p \in Plan /\ m \in Plan
  BY <1>1, PlanMade DEF Plans
<1>4. m = Mirror(p, Null)
  BY <1>3, MirrorIs
<1>5. QED
  BY <1>2, <1>3, <1>4 DEF Agreement

LEMMA AgreeEnded ==
  ASSUME NEW r, NEW n \in Plans, NEW st, NEW s \in {"exhausted", "completed", "cancelled"},
         r.status \in {"sent", "failed"},
         s = "exhausted" => r.state \in {"delivered", "failed"},
         s # "exhausted" => r.state = s,
         Pending(st, n) = {} \/ r.state = "failed",
         \A i \in Plans : i # n => Pending(st, i) = {},
         NEW p, p = [state |-> s, rev |-> n, current |-> Null]
  PROVE  Agreement(r, p, p, st) /\ p \in Plan
<1>1. p \in Plan
  BY PlanMade DEF Plans
<1>2. p = Mirror(p, Null)
  BY <1>1, MirrorIs
<1>3. QED
  BY <1>1, <1>2 DEF Agreement

\* Operations that leave the plan, its copy and its steps alone.
LEMMA AgreeCalm ==
  ASSUME Agree, UNCHANGED <<plan, mirror, steps>>,
         rem.status = "absent" <=> rem'.status = "absent",
         rem.status \in {"pending", "processing"} <=> rem'.status \in {"pending", "processing"},
         rem'.state = rem.state, rem'.at = rem.at, rem.status = "absent" => rem'.rev = rem.rev
  PROVE  Agree'
BY DEF Agree, Agreement

-----------------------------------------------------------------------------
(* The operations that write the plan                                      *)

\* What they write: a plan and a row that agree, and the row is not claimed.
Writes ==
  /\ rem' \in Reminder /\ plan' \in Plan /\ mirror' \in Plan
  /\ steps' \in [Keys -> StepStates]
  /\ Agree'
  /\ rem'.status # "processing" /\ rem'.status # "absent"
  /\ rem.rev <= rem'.rev /\ rem'.token \in {rem.token, Null}

\* Those that end the current step, and begin none.
Ends ==
  /\ plan'.rev = plan.rev
  /\ Pending(steps', plan.rev) \subseteq Pending(steps, plan.rev) \ {plan.current}

LEMMA OthersAre ==
  ASSUME Agree
  PROVE  \A i \in Plans : i # plan.rev => Pending(steps, i) = {}
BY DEF Agree, Agreement

\* The steps Skipped leaves.
LEMMA SkippedIs ==
  ASSUME Types, Agree
  PROVE  /\ Skipped \in [Keys -> StepStates]
         /\ Pending(Skipped, plan.rev) = {}
         /\ \A i \in Plans : Pending(Skipped, i) = {}
<1>1. "skipped" \in StepStates /\ "skipped" # "pending" /\ plan.rev \in Nat
  BY Shapes, PlansAre DEF StepStates
<1>2. /\ Skipped \in [Keys -> StepStates]
      /\ Pending(Skipped, plan.rev) = Pending(steps, plan.rev) \ Pending(steps, plan.rev)
      /\ \A i \in Plans : i # plan.rev => Pending(Skipped, i) = Pending(steps, i)
  BY <1>1, Shapes, MarkIs, MarkEnds DEF Skipped
<1>3. QED
  BY <1>2, OthersAre

LEMMA EndedIs ==
  ASSUME Types, NEW s \in {"completed", "cancelled"}
  PROVE  Ended(s) = [state |-> s, rev |-> plan.rev, current |-> Null]
<1> DEFINE p == Ended(s)
<1>1. p \in Plan /\ p.state = s /\ p.rev = plan.rev /\ p.current = Null
  BY Shapes DEF Ended, Plan
<1> HIDE DEF p
<1>2. p = [state |-> p.state, rev |-> p.rev, current |-> p.current]
  BY <1>1, PlansAre
<1>3. p = [state |-> s, rev |-> plan.rev, current |-> Null]
  BY <1>1, <1>2
<1>4. QED
  BY <1>3 DEF p


LEMMA DoneAgrees ==
  ASSUME Types, Agree, NEW c, Done(c)
  PROVE  Writes /\ Ends
<1>1. /\ rem' \in Reminder /\ rem'.status = "sent" /\ rem'.state = "completed"
      /\ rem'.rev = rem.rev + 1 /\ rem'.token = Null
  BY DoneRow
<1>2. plan.rev \in Plans
  BY DEF Done, OccurrenceFence, Running, Agree, Agreement
<1>3. plan' = Ended("completed") /\ mirror' = Ended("completed") /\ steps' = Skipped
  BY DEF Done
<1>4. plan' = [state |-> "completed", rev |-> plan.rev, current |-> Null] /\ mirror' = plan'
  BY <1>3, EndedIs
<1>5. /\ steps' \in [Keys -> StepStates] /\ Pending(steps', plan.rev) = {}
      /\ \A i \in Plans : Pending(steps', i) = {}
  BY <1>3, SkippedIs
<1>6. Agree' /\ plan' \in Plan
  BY <1>1, <1>2, <1>4, <1>5, AgreeEnded DEF Agree
<1>7. rem.rev <= rem'.rev
  BY <1>1, Shapes, RowsAre
<1>8. plan'.rev = plan.rev
  BY <1>4
<1>9. QED
  BY <1>1, <1>4, <1>5, <1>6, <1>7, <1>8 DEF Writes, Ends

LEMMA CancelAgrees ==
  ASSUME Types, Agree, NEW at, Cancel(at)
  PROVE  Writes /\ Ends /\ rem'.state = "cancelled"
<1>1. /\ rem' \in Reminder /\ rem'.status = "sent" /\ rem'.state = "cancelled"
      /\ rem'.rev = rem.rev + 1 /\ rem'.token = Null
  BY CancelledRow
<1>2. plan.rev \in Plans
  BY DEF Cancel, Agree, Agreement
<1>3. plan' = Ended("cancelled") /\ mirror' = Ended("cancelled") /\ steps' = Skipped
  BY DEF Cancel
<1>4. plan' = [state |-> "cancelled", rev |-> plan.rev, current |-> Null] /\ mirror' = plan'
  BY <1>3, EndedIs
<1>5. /\ steps' \in [Keys -> StepStates] /\ Pending(steps', plan.rev) = {}
      /\ \A i \in Plans : Pending(steps', i) = {}
  BY <1>3, SkippedIs
<1>6. Agree' /\ plan' \in Plan
  BY <1>1, <1>2, <1>4, <1>5, AgreeEnded DEF Agree
<1>7. rem.rev <= rem'.rev
  BY <1>1, Shapes, RowsAre
<1>8. plan'.rev = plan.rev
  BY <1>4
<1>9. QED
  BY <1>1, <1>4, <1>5, <1>6, <1>7, <1>8 DEF Writes, Ends

LEMMA DisableAgrees ==
  ASSUME Types, Agree, NEW c, Disable(c)
  PROVE  Writes /\ plan'.rev = plan.rev /\ plan'.current = plan.current /\ steps' = steps
         /\ rem'.status # "pending"
<1>1. /\ rem' \in Reminder /\ rem'.status = "sent" /\ rem'.state \in {"delivered", "paused"}
      /\ rem'.rev = rem.rev + 1 /\ rem'.token \in {rem.token, Null}
  BY DisabledRowIs DEF Disable
<1>2. /\ plan.state = "active" /\ plan.rev \in Plans /\ steps' = steps
      /\ plan.current \in Pending(steps, plan.rev) /\ plan.current \in Times
      /\ \A t \in Pending(steps, plan.rev) : plan.current <= t
  BY ActiveIs DEF Disable
<1>3. /\ plan' = [plan EXCEPT !.state = "disabled"]
      /\ mirror' = Mirror([plan EXCEPT !.state = "disabled"], Null)
  BY DEF Disable
<1>4. /\ plan' = [state |-> "disabled", rev |-> plan.rev, current |-> plan.current]
      /\ mirror' = [state |-> "disabled", rev |-> plan.rev, current |-> Null]
  BY <1>3, Shapes, PlanOps
<1>5. Agree' /\ plan' \in Plan /\ mirror' \in Plan
  BY <1>1, <1>2, <1>4, OthersAre, AgreeDisabled DEF Agree
<1>6. rem.rev <= rem'.rev
  BY <1>1, Shapes, RowsAre
<1>7. plan'.rev = plan.rev /\ plan'.current = plan.current
  BY <1>4
<1>8. QED
  BY <1>1, <1>2, <1>5, <1>6, <1>7, Shapes DEF Writes

LEMMA EnableAgrees ==
  ASSUME Types, Agree, NEW c, Enable(c)
  PROVE  Writes /\ plan'.rev = plan.rev /\ plan'.current = plan.current /\ steps' = steps
         /\ plan.rev \in Plans /\ plan.current \in Times
<1>1. /\ plan.state = "disabled" /\ plan.current \in Pending(steps, plan.rev) /\ steps' = steps
      /\ rem' = Waiting(rem, plan.current)
      /\ plan' = [plan EXCEPT !.state = "active"] /\ mirror' = [plan EXCEPT !.state = "active"]
  BY DEF Enable, Waiting
<1>2. plan.rev \in Plans /\ plan.current \in Times
  BY <1>1, PendingIn DEF Agree, Agreement
<1>3. /\ rem' \in Reminder /\ rem'.status = "pending" /\ rem'.state = "scheduled"
      /\ rem'.at = plan.current /\ rem'.rev = rem.rev + 1 /\ rem'.token = Null
  BY <1>1, <1>2, WaitingIs
<1>4. \A t \in Pending(steps, plan.rev) : plan.current <= t
  <2>1. plan.current = Min(Pending(steps, plan.rev)) /\ Pending(steps, plan.rev) # {}
    BY <1>1 DEF Agree, Agreement
  <2>2. Pending(steps, plan.rev) \subseteq Nat
    BY TimesAre, PendingIn
  <2>3. QED
    BY <2>1, <2>2, FirstIs
<1>5. /\ plan' = [state |-> "active", rev |-> plan.rev, current |-> plan.current]
      /\ mirror' = plan'
  BY <1>1, Shapes DEF Plan
<1>6. Agree' /\ plan' \in Plan
  <2>1. \A i \in Plans : i # plan.rev => Pending(steps, i) = {}
    BY OthersAre
  <2> DEFINE t == plan.current
             n == plan.rev
  <2>a. /\ n \in Plans /\ t \in Pending(steps, n) /\ rem'.at = t
        /\ rem'.status \in {"pending", "processing"} /\ rem'.state = "scheduled"
        /\ \A u \in Pending(steps, n) : t <= u
        /\ \A i \in Plans : i # n => Pending(steps, i) = {}
        /\ plan' = [state |-> "active", rev |-> n, current |-> t]
    BY <1>1, <1>2, <1>3, <1>4, <1>5, <2>1
  <2> HIDE DEF t, n
  <2>2. Agreement(rem', plan', plan', steps) /\ plan' \in Plan
    BY <2>a, AgreeActive
  <2>3. QED
    BY <1>1, <1>5, <2>2 DEF Agree
<1>7. rem.rev <= rem'.rev
  BY <1>3, Shapes, RowsAre
<1>8. plan'.rev = plan.rev /\ plan'.current = plan.current
  BY <1>5
<1>9. QED
  BY <1>1, <1>2, <1>3, <1>5, <1>6, <1>7, <1>8, Shapes DEF Writes

LEMMA EditAgrees ==
  ASSUME Types, Agree, NEW c, NEW q \in Requests, Edit(c, q)
  PROVE  Writes /\ plan'.rev = plan.rev + 1
<1> DEFINE ahead == {t \in q.points : t >= now}
           n == plan.rev + 1
           mid == Mark(Skipped, n, ahead, "pending")
           t == First(ahead)
<1>1. /\ n \in Plans /\ ahead # {} /\ steps' = Mark(mid, n, q.points \ ahead, "skipped")
      /\ plan' = [state |-> "active", rev |-> n, current |-> t] /\ mirror' = plan'
      /\ rem' = Waiting(rem, t)
  BY DEF Edit, Waiting
<1>2. ahead \subseteq Times /\ ahead \subseteq Nat
  BY TimesAre
<1>3. t \in ahead /\ t \in Times /\ \A u \in ahead : t <= u
  BY <1>1, <1>2, FirstIs
<1>4. /\ rem' \in Reminder /\ rem'.status = "pending" /\ rem'.state = "scheduled"
      /\ rem'.at = t /\ rem'.rev = rem.rev + 1 /\ rem'.token = Null
  BY <1>1, <1>3, WaitingIs
<1>5. n \in Nat /\ "pending" \in StepStates /\ "skipped" \in StepStates
  BY <1>1, BoundsAre DEF Plans, StepStates
<1>6. /\ mid \in [Keys -> StepStates]
      /\ Pending(mid, n) = Pending(Skipped, n) \union ahead
      /\ \A i \in Plans : i # n => Pending(mid, i) = Pending(Skipped, i)
  <2> DEFINE old == Skipped
  <2>1. old \in [Keys -> StepStates]
    BY SkippedIs
  <2> HIDE DEF n, ahead, old
  <2>2. Mark(old, n, ahead, "pending") \in [Keys -> StepStates]
    BY <1>5, <2>1, MarkTyped
  <2>3. /\ Pending(Mark(old, n, ahead, "pending"), n) = Pending(old, n) \union ahead
        /\ \A i \in Plans : i # n => Pending(Mark(old, n, ahead, "pending"), i) = Pending(old, i)
    <3>1. n \in Plans /\ ahead \subseteq Times
      BY <1>1, <1>2
    <3>2. QED
      BY <2>1, <3>1, MarkBegins
  <2>4. QED
    BY <2>2, <2>3 DEF old
<1>7. Pending(mid, n) = ahead /\ \A i \in Plans : i # n => Pending(mid, i) = {}
  BY <1>1, <1>6, SkippedIs
<1>8. /\ steps' \in [Keys -> StepStates]
      /\ Pending(steps', n) = Pending(mid, n) \ (q.points \ ahead)
      /\ \A i \in Plans : i # n => Pending(steps', i) = Pending(mid, i)
  <2> HIDE DEF n, ahead, mid
  <2>1. QED
    BY <1>1, <1>5, <1>6, MarkTyped, MarkEnds
<1>9. Pending(steps', n) = ahead /\ \A i \in Plans : i # n => Pending(steps', i) = {}
  BY <1>7, <1>8
<1>10. Agree' /\ plan' \in Plan
  <2> HIDE DEF n, ahead, t
  <2>1. QED
    BY <1>1, <1>3, <1>4, <1>9, AgreeActive DEF Agree
<1>11. rem.rev <= rem'.rev
  BY <1>4, Shapes, RowsAre
<1>12. plan'.rev = n
  BY <1>1
<1>13. QED
  BY <1>1, <1>4, <1>8, <1>10, <1>11, <1>12 DEF Writes

LEMMA ConfirmAgrees ==
  ASSUME Types, Agree, NEW i, Confirm(i), ~ UNCHANGED row
  PROVE  Writes /\ plan.rev = 0 /\ plan'.rev = 1 /\ rem.rev = 0 /\ rem'.rev = 0
         /\ rem'.token = Null
<1> DEFINE ahead == Ahead(draft)
           over == (draft.pending \union draft.skipped) \ ahead
           mid == Mark(steps, 1, ahead, "pending")
           t == First(ahead)
<1>1. /\ rem.status = "absent" /\ ahead # {} /\ steps' = Mark(mid, 1, over, "skipped")
      /\ plan' = [state |-> "active", rev |-> 1, current |-> t] /\ mirror' = plan'
      /\ rem' = Scheduled(NoReminder, t)
  BY DEF Confirm
<1>2. ahead \subseteq Times /\ ahead \subseteq Nat
  BY TimesAre, Shapes DEF Ahead, DraftState
<1>3. t \in ahead /\ t \in Times /\ \A u \in ahead : t <= u
  BY <1>1, <1>2, FirstIs
<1>4. /\ rem' \in Reminder /\ rem'.status = "pending" /\ rem'.state = "scheduled"
      /\ rem'.at = t /\ rem'.rev = 0 /\ rem'.token = Null
  BY <1>1, <1>3, ScheduledIs, NoReminderIs
<1>5. 1 \in Plans /\ "pending" \in StepStates /\ "skipped" \in StepStates
  BY BoundsAre DEF Plans, StepStates
<1>6. plan.rev = 0 /\ rem.rev = 0 /\ \A j \in Plans : Pending(steps, j) = {}
  <2>1. plan.rev = 0 /\ rem.rev = 0
    BY <1>1 DEF Agree, Agreement
  <2>2. \A j \in Plans : j # 0
    BY BoundsAre DEF Plans
  <2>3. QED
    BY <2>1, <2>2, OthersAre
<1>7. mid \in [Keys -> StepStates]
  BY <1>5, Shapes, MarkTyped
<1>8. Pending(mid, 1) = ahead /\ \A j \in Plans : j # 1 => Pending(mid, j) = {}
  <2>1. /\ Pending(mid, 1) = Pending(steps, 1) \union ahead
        /\ \A j \in Plans : j # 1 => Pending(mid, j) = Pending(steps, j)
    <3> DEFINE one == 1
    <3>1. one \in Plans /\ ahead \subseteq Times /\ steps \in [Keys -> StepStates]
      BY <1>2, <1>5, StepsAre
    <3> HIDE DEF ahead, one
    <3>2. /\ Pending(Mark(steps, one, ahead, "pending"), one) = Pending(steps, one) \union ahead
          /\ \A j \in Plans :
               j # one => Pending(Mark(steps, one, ahead, "pending"), j) = Pending(steps, j)
      BY <3>1, MarkBegins
    <3>3. QED
      BY <3>2 DEF one
  <2>2. QED
    BY <1>5, <1>6, <2>1
<1>9. /\ steps' \in [Keys -> StepStates]
      /\ Pending(steps', 1) = Pending(mid, 1) \ over
      /\ \A j \in Plans : j # 1 => Pending(steps', j) = Pending(mid, j)
  <2> HIDE DEF ahead, mid, over
  <2>1. QED
    BY <1>1, <1>5, <1>7, MarkTyped, MarkEnds
<1>10. Pending(steps', 1) = ahead /\ \A j \in Plans : j # 1 => Pending(steps', j) = {}
  BY <1>8, <1>9
<1>11. Agree' /\ plan' \in Plan
  <2> HIDE DEF ahead, t
  <2>1. QED
    BY <1>1, <1>3, <1>4, <1>5, <1>10, AgreeActive DEF Agree
<1>12. plan'.rev = 1
  BY <1>1
<1>13. QED
  BY <1>1, <1>4, <1>6, <1>9, <1>11, <1>12 DEF Writes

\* The delivery of the current step fails for good.
LEMMA FailAgrees ==
  ASSUME Types, Agree, plan.state = "active", FailPlan, rem' = FailedRow(rem)
  PROVE  Writes /\ Ends /\ rem'.rev = rem.rev
<1> DEFINE n == plan.rev
           t == plan.current
<1>1. n \in Plans /\ t \in Times
  BY ActiveIs
<1>2. /\ rem' \in Reminder /\ rem'.status = "failed" /\ rem'.state = "failed"
      /\ rem'.rev = rem.rev /\ rem'.token = Null
  BY Shapes, FailedRowIs
<1>3. /\ steps' = [steps EXCEPT ![<<n, t>>] = "failed"]
      /\ plan' = [state |-> "exhausted", rev |-> n, current |-> Null] /\ mirror' = plan'
  BY Shapes, PlanOps DEF FailPlan
<1>4. \A i \in Plans : i # n => Pending(steps, i) = {}
  BY OthersAre
<1>5. n = plan.rev /\ t = plan.current
  OBVIOUS
<1> HIDE DEF n, t
<1>6. /\ steps' \in [Keys -> StepStates] /\ Pending(steps', n) = Pending(steps, n) \ {t}
      /\ \A i \in Plans : i # n => Pending(steps', i) = Pending(steps, i)
  <2>1. "failed" \in StepStates /\ "failed" # "pending"
    BY DEF StepStates
  <2>2. QED
    <3>1. steps' = [steps EXCEPT ![<<n, t>>] = "failed"] /\ steps \in [Keys -> StepStates]
      BY <1>3, StepsAre
    <3>2. <<n, t>> \in Keys
      BY <1>1 DEF Keys
    <3>3. /\ steps' \in [Keys -> StepStates] /\ steps'[<<n, t>>] = "failed"
          /\ \A k \in Keys : k # <<n, t>> => steps'[k] = steps[k]
      BY <2>1, <3>1, <3>2
    <3>4. /\ steps'[<<n, t>>] # "pending" /\ steps' \in [Keys -> StepStates]
          /\ steps \in [Keys -> StepStates]
          /\ \A k \in Keys : k # <<n, t>> => steps'[k] = steps[k]
      BY <2>1, <3>1, <3>3
    <3>5. /\ Pending(steps', n) = Pending(steps, n) \ {t}
          /\ \A i \in Plans : i # n => Pending(steps', i) = Pending(steps, i)
      BY <1>1, <3>4, OneEnds
    <3>6. QED
      BY <3>3, <3>5
<1>7. \A i \in Plans : i # n => Pending(steps', i) = {}
  BY <1>4, <1>6
<1>8. Agree' /\ plan' \in Plan
  BY <1>1, <1>2, <1>3, <1>7, AgreeEnded DEF Agree
<1>9. rem.rev <= rem'.rev
  BY <1>2, Shapes, RowsAre
<1>10. plan'.rev = n
  BY <1>3
<1>11. QED
  BY <1>2, <1>3, <1>5, <1>6, <1>8, <1>9, <1>10 DEF Writes, Ends

\* The plan goes on to the first of the steps that are left, or ends.
LEMMA GoesOn ==
  ASSUME Types, Agree, plan.state = "active", NEW rest, rest \subseteq Pending(steps, plan.rev),
         plan.current \notin rest,
         steps' \in [Keys -> StepStates], Pending(steps', plan.rev) = rest,
         \A i \in Plans : i # plan.rev => Pending(steps', i) = {},
         plan' = IF rest = {} THEN Exhausted(plan) ELSE [plan EXCEPT !.current = First(rest)],
         mirror' = plan', rem' \in Reminder, rem'.rev = rem.rev, rem'.token \in {rem.token, Null},
         rest = {} => rem'.status = "sent" /\ rem'.state = "delivered",
         rest # {} => rem'.status = "pending" /\ rem'.state = "scheduled" /\ rem'.at = First(rest)
  PROVE  Writes /\ Ends
<1> DEFINE n == plan.rev
           t == First(rest)
<1>1. n \in Plans /\ n = plan.rev
  BY ActiveIs
<1>2. rest \subseteq Times /\ rest \subseteq Nat
  BY TimesAre, PendingIn
<1>3. Agree' /\ plan' \in Plan /\ plan'.rev = n
  <2>1. CASE rest = {}
    <3>1. plan' = [state |-> "exhausted", rev |-> n, current |-> Null]
      BY <2>1, Shapes, PlanOps
    <3>2. /\ Pending(steps', n) = {} /\ \A i \in Plans : i # n => Pending(steps', i) = {}
      BY <2>1
    <3> HIDE DEF n
    <3>3. QED
      BY <1>1, <2>1, <3>1, <3>2, AgreeEnded DEF Agree
  <2>2. CASE rest # {}
    <3>1. t \in rest /\ t \in Times /\ \A u \in rest : t <= u
      BY <1>2, <2>2, FirstIs
    <3>2. plan' = [state |-> "active", rev |-> n, current |-> t]
      <4>1. plan' = [plan EXCEPT !.current = t]
        BY <2>2
      <4>2. plan.state = "active" /\ plan \in Plan
        BY Shapes
      <4> HIDE DEF t
      <4>3. QED
        BY <4>1, <4>2 DEF Plan
    <3>3. /\ Pending(steps', n) = rest /\ \A i \in Plans : i # n => Pending(steps', i) = {}
      OBVIOUS
    <3>4. rem'.status = "pending" /\ rem'.state = "scheduled" /\ rem'.at = t
      BY <2>2
    <3> HIDE DEF n, t
    <3>5. QED
      BY <1>1, <3>1, <3>2, <3>3, <3>4, AgreeActive DEF Agree
  <2>3. QED
    BY <2>1, <2>2
<1>4. rem.rev <= rem'.rev
  BY Shapes, RowsAre
<1>5. rem'.status # "processing" /\ rem'.status # "absent"
  BY DEF Reminder
<1>6. QED
  BY <1>3, <1>4, <1>5 DEF Writes, Ends

\* reconcile_deadline_for_claim passes over steps: the current one is among them.
LEMMA ReconcileAgrees ==
  ASSUME Types, Agree, Due, Reconcile
  PROVE  Writes /\ Ends /\ rem'.rev = rem.rev
<1>1. plan.state = "active"
  BY ProcessingIs DEF Due
<1> DEFINE left == Pending(steps, plan.rev)
           rest == left \ Elapsed
<1>2. /\ Elapsed # {} /\ steps' = Mark(steps, plan.rev, Elapsed, "skipped")
      /\ plan' = IF rest = {} THEN Exhausted(plan) ELSE [plan EXCEPT !.current = First(rest)]
      /\ mirror' = plan'
      /\ rem' = IF rest = {} THEN ExhaustedRow(rem) ELSE Released(Scheduled(rem, First(rest)))
  BY <1>1 DEF Reconcile
<1>3. /\ plan.current \in left /\ \A t \in left : plan.current <= t
      /\ left \subseteq Times /\ left \subseteq Nat
  BY <1>1, ActiveIs, PendingIn, TimesAre
<1>4. Elapsed \subseteq left /\ \A t \in left : t \in Elapsed <=> t < now
  BY DEF Elapsed
<1>5. plan.current \in Elapsed
  <2>1. PICK t \in Elapsed : TRUE
    BY <1>2
  <2>2. t \in left /\ t < now /\ plan.current <= t
    BY <1>3, <1>4
  <2>3. plan.current \in Nat /\ t \in Nat /\ now \in Nat
    BY <1>3, <2>2, Shapes
  <2>4. QED
    BY <1>3, <1>4, <2>2, <2>3
<1>6. /\ steps' \in [Keys -> StepStates]
      /\ Pending(steps', plan.rev) = rest
      /\ \A i \in Plans : i # plan.rev => Pending(steps', i) = {}
  <2>1. plan.rev \in Nat /\ "skipped" \in StepStates /\ "skipped" # "pending"
    BY Shapes, PlansAre DEF StepStates
  <2>2. /\ steps' \in [Keys -> StepStates]
        /\ Pending(steps', plan.rev) = left \ Elapsed
        /\ \A i \in Plans : i # plan.rev => Pending(steps', i) = Pending(steps, i)
    BY <1>2, <2>1, StepsAre, MarkTyped, MarkEnds
  <2>3. QED
    BY <2>2, OthersAre
<1>7. rest \subseteq left /\ plan.current \notin rest
  BY <1>5
<1>8. /\ rem' \in Reminder /\ rem'.rev = rem.rev /\ rem'.token \in {rem.token, Null}
      /\ rest = {} => rem'.status = "sent" /\ rem'.state = "delivered"
      /\ rest # {} => rem'.status = "pending" /\ rem'.state = "scheduled" /\ rem'.at = First(rest)
  <2>1. rest \subseteq Times /\ rem \in Reminder
    BY <1>3, Shapes
  <2> HIDE DEF rest
  <2>2. First(rest) \in Times \union {Null}
    BY <2>1, FirstTyped
  <2>3. CASE rest = {}
    BY <1>2, <2>1, <2>3, ExhaustedRowIs
  <2>4. CASE rest # {}
    BY <1>2, <2>1, <2>2, <2>4, ReleasedWaits
  <2>5. QED
    BY <2>3, <2>4
<1> HIDE DEF rest
<1>9. Writes /\ Ends
  BY <1>1, <1>2, <1>6, <1>7, <1>8, GoesOn
<1>10. QED
  BY <1>8, <1>9

\* finalize_delivery_success with its step.
LEMMA SuccessAgrees ==
  ASSUME Types, Agree, NEW w \in Workers, FinalizeSuccess(w), OwnsLive(w), StepIsThere,
         occ[rem.at].step = <<plan.rev, rem.at>>
  PROVE  Writes /\ Ends /\ rem'.rev = rem.rev
<1>1. plan.state = "active"
  BY DEF StepIsThere
<1> DEFINE left == Pending(steps, plan.rev)
           t == plan.current
           rest == After(t).rest
           mid == [steps EXCEPT ![<<plan.rev, t>>] = "delivered"]
<1>2. /\ t = rem.at /\ t \in left /\ (\A u \in left : t <= u) /\ t \in Times
      /\ left \subseteq Times /\ left \subseteq Nat /\ plan.rev \in Plans
      /\ <<plan.rev, t>> \in Keys /\ t \in Nat /\ now \in Nat
  BY <1>1, ActiveIs, PendingIn, TimesAre, Shapes
<1>3. occ[rem.at].step[2] = t /\ occ[rem.at].step = <<plan.rev, t>>
  BY <1>2
<1>4. /\ steps' = Mark(mid, plan.rev, After(t).missed, "skipped")
      /\ plan' = PlanAfter(t) /\ mirror' = PlanAfter(t)
      /\ rem' = Released(IF rest = {} THEN ExhaustedRow(Half(rem))
                         ELSE Scheduled(Half(rem), First(rest)))
  BY <1>3 DEF FinalizeSuccess, Half
<1>5. After(t).missed \union rest = left \ {t} /\ After(t).missed \intersect rest = {}
  <2>1. After(t).missed = {u \in {v \in left : v > t} : u < now}
        /\ rest = {u \in {v \in left : v > t} : u >= now}
    BY DEF After
  <2>2. \A u \in left : u \in Nat /\ t <= u /\ (u > t <=> u # t) /\ (u < now <=> ~ (u >= now))
    BY <1>2
  <2>3. QED
    BY <2>1, <2>2
<1>6. mid \in [Keys -> StepStates] /\ mid[<<plan.rev, t>>] # "pending"
      /\ \A k \in Keys : k # <<plan.rev, t>> => mid[k] = steps[k]
  <2>1. "delivered" \in StepStates
    BY DEF StepStates
  <2>2. QED
    BY <1>2, <2>1, StepsAre
<1>7. /\ Pending(mid, plan.rev) = left \ {t}
      /\ \A i \in Plans : i # plan.rev => Pending(mid, i) = {}
  <2> HIDE DEF mid
  <2>1. /\ Pending(mid, plan.rev) = left \ {t}
        /\ \A i \in Plans : i # plan.rev => Pending(mid, i) = Pending(steps, i)
    <3> DEFINE n == plan.rev
    <3>1. n \in Plans /\ t \in Times /\ steps \in [Keys -> StepStates]
          /\ mid[<<n, t>>] # "pending" /\ \A k \in Keys : k # <<n, t>> => mid[k] = steps[k]
      BY <1>2, <1>6, StepsAre
    <3> HIDE DEF n, t
    <3>2. /\ Pending(mid, n) = Pending(steps, n) \ {t}
          /\ \A i \in Plans : i # n => Pending(mid, i) = Pending(steps, i)
      BY <1>6, <3>1, OneEnds
    <3>3. QED
      BY <3>2 DEF n
  <2>2. QED
    BY <2>1, OthersAre
<1>8. /\ steps' \in [Keys -> StepStates]
      /\ Pending(steps', plan.rev) = rest
      /\ \A i \in Plans : i # plan.rev => Pending(steps', i) = {}
  <2> DEFINE missed == After(t).missed
  <2>1. plan.rev \in Nat /\ "skipped" \in StepStates /\ "skipped" # "pending"
    BY Shapes, PlansAre DEF StepStates
  <2>2. steps' = Mark(mid, plan.rev, missed, "skipped") /\ mid \in [Keys -> StepStates]
    BY <1>4, <1>6
  <2> HIDE DEF mid, missed
  <2>3. /\ steps' \in [Keys -> StepStates]
        /\ Pending(steps', plan.rev) = Pending(mid, plan.rev) \ missed
        /\ \A i \in Plans : i # plan.rev => Pending(steps', i) = Pending(mid, i)
    BY <2>1, <2>2, MarkTyped, MarkEnds
  <2>4. Pending(steps', plan.rev) = rest
    BY <1>5, <1>7, <2>3 DEF missed
  <2>5. QED
    BY <1>7, <2>3, <2>4
<1>9. rest \subseteq left /\ plan.current \notin rest
  BY <1>5
<1>10. /\ rem' \in Reminder /\ rem'.rev = rem.rev /\ rem'.token \in {rem.token, Null}
       /\ rest = {} => rem'.status = "sent" /\ rem'.state = "delivered"
       /\ rest # {} => rem'.status = "pending" /\ rem'.state = "scheduled" /\ rem'.at = First(rest)
  <2> DEFINE h == Half(rem)
  <2>1. rest \subseteq Times /\ h \in Reminder /\ h.rev = rem.rev /\ h.token = rem.token
    BY <1>2, <1>9, Shapes, HalfIs
  <2>2. rem' = Released(IF rest = {} THEN ExhaustedRow(h) ELSE Scheduled(h, First(rest)))
    BY <1>4
  <2> HIDE DEF rest, h
  <2>3. First(rest) \in Times \union {Null}
    BY <2>1, FirstTyped
  <2>4. CASE rest = {}
    BY <2>1, <2>2, <2>4, ReleasedEnds
  <2>5. CASE rest # {}
    BY <2>1, <2>2, <2>3, <2>5, ReleasedWaits
  <2>6. QED
    BY <2>4, <2>5
<1>11. /\ plan' = IF rest = {} THEN Exhausted(plan) ELSE [plan EXCEPT !.current = First(rest)]
       /\ mirror' = plan'
  BY <1>4 DEF PlanAfter
<1> HIDE DEF rest
<1>12. Writes /\ Ends
  BY <1>1, <1>8, <1>9, <1>10, <1>11, GoesOn
<1>13. QED
  BY <1>10, <1>12

-----------------------------------------------------------------------------
(* The claims of the workers                                               *)

\* A claim is named by the revision it wrote, so no two are the same.
Tokens ==
  /\ rem.token <= rem.rev
  /\ \A w \in Workers :
       /\ worker[w].token <= rem.rev /\ worker[w].step[1] <= plan.rev
       /\ worker[w].pc # "idle" => worker[w].token # Null
  /\ \A w, v \in Workers :
       worker[w].pc # "idle" /\ worker[w].token = worker[v].token => w = v

\* The row is claimed by w, whether or not its lease has ended.
Holds(w) ==
  worker[w].pc # "idle" /\ rem.status = "processing" /\ rem.token = worker[w].token

\* A claim is for the current step, the occurrence is opened for it, and the
\* lease lasts through the call.
Held ==
  /\ rem.status = "processing" => rem.at <= now /\ rem.at < rem.lease
  /\ \A w \in Workers : Holds(w) =>
       /\ worker[w].step = <<plan.rev, rem.at>>
       /\ worker[w].pc \notin {"renew", "prepare"} => occ[rem.at].step = <<plan.rev, rem.at>>
       /\ worker[w].pc = "send" => now < rem.lease

\* One call at a time, of the worker that holds the row, unless /cancel came.
Calls ==
  /\ \A w \in Workers : worker[w].pc = "send" => Holds(w) \/ rem.state = "cancelled"
  /\ \A w, v \in Workers : worker[w].pc = "send" /\ worker[v].pc = "send" => w = v

Claims == Tokens /\ Held /\ Calls

LEMMA IdleIs == Idle \in WorkerState /\ Idle.pc = "idle" /\ Idle.token = 0 /\ Idle.step[1] = 0
BY DEF Idle, WorkerState, PCs, NoStep, Null

LEMMA StopIs ==
  ASSUME Types, NEW w \in Workers, Stop(w)
  PROVE  /\ worker' \in [Workers -> WorkerState] /\ worker'[w] = Idle
         /\ \A v \in Workers : v # w => worker'[v] = worker[v]
         /\ \A v \in Workers : worker'[v] \in {worker[v], Idle}
<1>1. worker' = [worker EXCEPT ![w] = Idle] /\ worker \in [Workers -> WorkerState]
  BY Shapes DEF Stop
<1>2. QED
  BY <1>1, IdleIs

LEMMA GoToIs ==
  ASSUME Types, NEW w \in Workers, NEW pc \in PCs, GoTo(w, pc)
  PROVE  /\ worker' \in [Workers -> WorkerState] /\ worker'[w].pc = pc
         /\ worker'[w].token = worker[w].token /\ worker'[w].step = worker[w].step
         /\ \A v \in Workers : v # w => worker'[v] = worker[v]
<1> DEFINE x == [worker[w] EXCEPT !.pc = pc]
<1>1. worker \in [Workers -> WorkerState] /\ worker[w] \in WorkerState
  BY Shapes
<1>2. worker' = [worker EXCEPT ![w] = x]
  BY DEF GoTo
<1>3. x \in WorkerState /\ x.pc = pc /\ x.token = worker[w].token /\ x.step = worker[w].step
  BY <1>1 DEF WorkerState
<1> HIDE DEF x
<1>4. QED
  BY <1>1, <1>2, <1>3

LEMMA WorkersAre ==
  ASSUME Types, NEW w \in Workers
  PROVE  /\ worker[w].pc \in PCs /\ worker[w].token \in Nat
         /\ worker[w].step[1] \in Nat /\ worker[w].step[2] \in Times \union {Null}
         /\ worker[w].step = <<worker[w].step[1], worker[w].step[2]>>
<1>1. /\ worker[w].step \in Nat \X (Times \union {Null})
      /\ worker[w].pc \in PCs /\ worker[w].token \in Nat
  BY Shapes
<1>2. QED
  BY <1>1

\* What the owner of the row finds.
LEMMA HoldsIs ==
  ASSUME Types, Agree, Claims, NEW w \in Workers, Holds(w)
  PROVE  /\ plan.state = "active" /\ rem.state = "scheduled" /\ rem.status = "processing"
         /\ rem.at \in Times /\ rem.at = plan.current /\ plan.rev \in Plans
         /\ worker[w].step = <<plan.rev, rem.at>> /\ worker[w].step[2] = rem.at
         /\ <<plan.rev, rem.at>> \in Keys /\ steps[<<plan.rev, rem.at>>] = "pending"
         /\ rem.at <= now
         /\ \A v \in Workers : Holds(v) => v = w
         /\ \A v \in Workers : v # w => worker[v].pc # "send"
<1>1. rem.status = "processing"
  BY DEF Holds
<1>2. plan.state = "active"
  BY <1>1, ProcessingIs
<1>3. worker[w].step = <<plan.rev, rem.at>> /\ rem.at <= now
  BY <1>1 DEF Claims, Held
<1>4. \A v \in Workers : Holds(v) => v = w
  BY DEF Claims, Tokens, Holds
<1>5. rem.state = "scheduled"
  BY <1>2, ActiveIs
<1>6. \A v \in Workers : v # w => worker[v].pc # "send"
  BY <1>4, <1>5 DEF Claims, Calls
<1>7. steps[<<plan.rev, rem.at>>] = "pending"
  BY <1>2, ActiveIs, PendingIn
<1>8. QED
  BY <1>1, <1>2, <1>3, <1>4, <1>5, <1>6, <1>7, ActiveIs

LEMMA OwnsIs ==
  ASSUME NEW w \in Workers, Owns(w), worker[w].pc # "idle"
  PROVE  Holds(w) /\ rem.lease > now
BY DEF Owns, Holds

\* Nobody calls for a row that is not being delivered.
LEMMA NobodyCalls ==
  ASSUME Claims, rem.status # "processing", rem.state # "cancelled"
  PROVE  \A w \in Workers : worker[w].pc # "send"
BY DEF Claims, Calls, Holds

LEMMA NobodyCallsWhenDue ==
  ASSUME Types, Agree, Claims, Due
  PROVE  \A w \in Workers : worker[w].pc # "send"
<1>1. rem.state = "scheduled" /\ rem.status \in {"pending", "processing"}
  BY DEF Due
<1>2. SUFFICES ASSUME NEW w \in Workers, worker[w].pc = "send" PROVE FALSE
  OBVIOUS
<1>3. Holds(w)
  BY <1>1, <1>2 DEF Claims, Calls
<1>4. now < rem.lease /\ rem.status = "processing"
  BY <1>2, <1>3 DEF Claims, Held, Holds
<1>5. rem.lease <= now
  BY <1>4 DEF Due
<1>6. QED
  BY <1>4, <1>5, Shapes, RowsAre

\* The row is given up, or was not claimed.
LEMMA ClaimsParked ==
  ASSUME Types, Claims, rem' \in Reminder, rem'.status # "processing", rem.rev <= rem'.rev,
         rem'.token \in {rem.token, Null},
         plan.rev <= plan'.rev, plan' \in Plan,
         \A v \in Workers : worker'[v] \in {worker[v], Idle},
         (\A v \in Workers : worker'[v].pc # "send") \/ rem'.state = "cancelled"
  PROVE  Claims'
<1>1. /\ rem.rev \in Nat /\ rem'.rev \in Nat /\ rem.token \in Nat
      /\ plan.rev \in Nat /\ plan'.rev \in Nat
  BY Shapes, RowsAre, PlansAre
<1>2. Tokens'
  <2>1. rem'.token <= rem'.rev
    BY <1>1 DEF Claims, Tokens, Null
  <2>2. ASSUME NEW v \in Workers
        PROVE  /\ worker'[v].token <= rem'.rev /\ worker'[v].step[1] <= plan'.rev
               /\ worker'[v].pc # "idle" => worker'[v].token # Null
    <3>1. CASE worker'[v] = Idle
      BY <1>1, <3>1, IdleIs
    <3>2. CASE worker'[v] = worker[v]
      <4>1. worker[v].token <= rem.rev /\ worker[v].step[1] <= plan.rev
            /\ (worker[v].pc # "idle" => worker[v].token # Null)
        BY DEF Claims, Tokens
      <4>2. QED
        BY <1>1, <3>2, <4>1, WorkersAre
    <3>3. QED
      BY <3>1, <3>2
  <2>3. ASSUME NEW u \in Workers, NEW v \in Workers, worker'[u].pc # "idle",
               worker'[u].token = worker'[v].token
        PROVE  u = v
    <3>1. worker'[u] = worker[u] /\ worker[u].token # Null /\ worker[u].pc # "idle"
      BY <2>3, IdleIs DEF Claims, Tokens
    <3>2. worker'[v] = worker[v]
      BY <2>3, <3>1, IdleIs DEF Null
    <3>3. QED
      BY <2>3, <3>1, <3>2 DEF Claims, Tokens
  <2>4. QED
    BY <2>1, <2>2, <2>3 DEF Tokens
<1>3. Held'
  BY DEF Held, Holds
<1>4. Calls'
  <2>1. \A u, v \in Workers : worker'[u].pc = "send" /\ worker'[v].pc = "send" => u = v
    BY IdleIs DEF Claims, Calls
  <2>2. QED
    BY <2>1 DEF Calls
<1>5. QED
  BY <1>2, <1>3, <1>4 DEF Claims

\* The row stays as it was claimed, and workers go on or stop.
LEMMA ClaimsKept ==
  ASSUME Types, Agree, Claims, now' = now, plan' = plan, rem' \in Reminder,
         rem'.status = rem.status, rem'.state = rem.state, rem'.at = rem.at,
         rem'.rev = rem.rev, rem'.token = rem.token,
         rem.lease <= rem'.lease \/ now < rem'.lease,
         \A v \in Workers :
            \/ worker'[v] = Idle
            \/ /\ worker'[v].token = worker[v].token /\ worker'[v].step = worker[v].step
               /\ worker'[v].pc = "idle" <=> worker[v].pc = "idle",
         \A v \in Workers : Holds(v) /\ worker'[v].pc \notin {"idle", "renew", "prepare"} =>
            occ'[rem.at].step = <<plan.rev, rem.at>>,
         \A v \in Workers : worker'[v].pc = "send" =>
            worker[v].pc = "send" \/ (Holds(v) /\ now < rem'.lease)
  PROVE  Claims'
<1>1. /\ now \in Nat /\ rem.rev \in Nat /\ rem.at \in Nat /\ rem.lease \in Nat
      /\ rem'.lease \in Nat /\ plan.rev \in Nat
  BY Shapes, RowsAre, PlansAre
<1>2. Tokens'
  <2>1. rem'.token <= rem'.rev
    BY DEF Claims, Tokens
  <2>2. ASSUME NEW v \in Workers
        PROVE  /\ worker'[v].token <= rem'.rev /\ worker'[v].step[1] <= plan'.rev
               /\ worker'[v].pc # "idle" => worker'[v].token # Null
    <3>1. CASE worker'[v] = Idle
      BY <1>1, <3>1, IdleIs
    <3>2. CASE worker'[v] # Idle
      BY <3>2 DEF Claims, Tokens
    <3>3. QED
      BY <3>1, <3>2
  <2>3. ASSUME NEW u \in Workers, NEW v \in Workers, worker'[u].pc # "idle",
               worker'[u].token = worker'[v].token
        PROVE  u = v
    <3>1. /\ worker'[u].token = worker[u].token /\ worker[u].token # Null
          /\ worker[u].pc # "idle"
      BY <2>3, IdleIs DEF Claims, Tokens
    <3>2. worker'[v].token = worker[v].token
      BY <2>3, <3>1, IdleIs DEF Null
    <3>3. QED
      BY <2>3, <3>1, <3>2 DEF Claims, Tokens
  <2>4. QED
    BY <2>1, <2>2, <2>3 DEF Tokens
<1>3. \A v \in Workers : Holds(v)' => Holds(v) /\ worker'[v].step = worker[v].step
  BY IdleIs DEF Holds
<1>4. Held'
  <2>1. rem'.status = "processing" => rem'.at <= now' /\ rem'.at < rem'.lease
    BY <1>1 DEF Claims, Held
  <2>2. ASSUME NEW v \in Workers, Holds(v)'
        PROVE  /\ worker'[v].step = <<plan'.rev, rem'.at>>
               /\ worker'[v].pc \notin {"renew", "prepare"} =>
                    occ'[rem'.at].step = <<plan'.rev, rem'.at>>
               /\ worker'[v].pc = "send" => now' < rem'.lease
    <3>1. Holds(v) /\ worker'[v].step = worker[v].step /\ worker'[v].pc # "idle"
      BY <1>3, <2>2 DEF Holds
    <3>2. worker[v].step = <<plan.rev, rem.at>>
      BY <3>1 DEF Claims, Held
    <3>3. worker'[v].pc \notin {"renew", "prepare"} => occ'[rem.at].step = <<plan.rev, rem.at>>
      BY <3>1
    <3>4. ASSUME worker'[v].pc = "send" PROVE now < rem'.lease
      <4>1. CASE worker[v].pc = "send"
        <5>1. now < rem.lease
          BY <3>1, <4>1 DEF Claims, Held
        <5>2. QED
          BY <1>1, <5>1
      <4>2. CASE worker[v].pc # "send"
        BY <3>4, <4>2
      <4>3. QED
        BY <4>1, <4>2
    <3>5. QED
      BY <3>1, <3>2, <3>3, <3>4
  <2>3. QED
    BY <2>1, <2>2 DEF Held
<1>5. Calls'
  <2>1. ASSUME NEW v \in Workers, worker'[v].pc = "send"
        PROVE  Holds(v)' \/ rem'.state = "cancelled"
    <3>1. Holds(v) \/ rem.state = "cancelled"
      BY <2>1 DEF Claims, Calls
    <3>2. worker'[v].token = worker[v].token
      BY <2>1, IdleIs
    <3>3. QED
      BY <2>1, <3>1, <3>2 DEF Holds
  <2>2. ASSUME NEW u \in Workers, NEW v \in Workers,
               worker'[u].pc = "send", worker'[v].pc = "send"
        PROVE  u = v
    <3>1. /\ worker[u].pc = "send" \/ Holds(u)
          /\ worker[v].pc = "send" \/ Holds(v)
      BY <2>2
    <3>2. CASE worker[u].pc = "send" /\ worker[v].pc = "send"
      BY <3>2 DEF Claims, Calls
    <3>3. CASE Holds(u)
      BY <3>1, <3>3, HoldsIs
    <3>4. CASE Holds(v)
      BY <3>1, <3>4, HoldsIs
    <3>5. QED
      BY <3>1, <3>2, <3>3, <3>4
  <2>3. QED
    BY <2>1, <2>2 DEF Calls
<1>6. QED
  BY <1>2, <1>4, <1>5 DEF Claims

-----------------------------------------------------------------------------
(* What has gone out                                                       *)

\* A pending step that went out is the current one, and while its row waits
\* it is over before the row may be claimed again; the others did not go out.
Spent(s) ==
  \A k \in Keys : s[k] # 0 =>
    /\ k[1] <= plan.rev
    /\ k[1] = plan.rev /\ steps[k] = "pending" => k[2] = plan.current
    /\ rem.status = "pending" /\ k = <<plan.rev, plan.current>> =>
         rem.at < rem.retryAt \/ rem.at < now

\* The step a worker is about to send did not go out.
Unsent ==
  \A w \in Workers :
    worker[w].pc = "send" \/ (worker[w].pc \in {"renew", "prepare"} /\ Holds(w)) =>
      sends[worker[w].step] = 0

Once == SentOnce /\ Spent(sends) /\ Unsent

LEMMA KeysAre ==
  \A k \in Keys : k = <<k[1], k[2]>> /\ k[1] \in Plans /\ k[2] \in Times /\ k[1] \in Nat /\ k[2] \in Nat
<1>1. SUFFICES ASSUME NEW k \in Keys
               PROVE  /\ k = <<k[1], k[2]>> /\ k[1] \in Plans /\ k[2] \in Times
                      /\ k[1] \in Nat /\ k[2] \in Nat
  OBVIOUS
<1>2. PICK n \in Plans, t \in Times : k = <<n, t>>
  BY DEF Keys
<1>3. k[1] = n /\ k[2] = t /\ n \in Nat /\ t \in Nat
  BY <1>2, TimesAre DEF Plans
<1>4. QED
  BY <1>2, <1>3

\* The current step ends, or the plan gets another revision.
LEMMA OnceEnds ==
  ASSUME Types, Once, Writes, sends' = sends,
         Ends \/ (plan'.rev \in Nat /\ plan.rev < plan'.rev),
         \A v \in Workers : worker'[v] \in {worker[v], Idle}
  PROVE  Once'
<1>1. rem'.status # "processing" /\ Agree' /\ plan' \in Plan
  BY DEF Writes
<1>2. plan.rev \in Nat /\ plan'.rev \in Nat
  BY <1>1, Shapes, PlansAre
<1>3. ASSUME NEW k \in Keys, sends[k] # 0
      PROVE  k[1] < plan'.rev \/ (k[1] = plan'.rev /\ steps'[k] # "pending")
  <2>1. k[1] <= plan.rev /\ (k[1] = plan.rev /\ steps[k] = "pending" => k[2] = plan.current)
    BY <1>3 DEF Once, Spent
  <2>2. /\ k = <<k[1], k[2]>> /\ k[1] \in Plans /\ k[2] \in Times /\ k[1] \in Nat
    BY KeysAre
  <2>3. CASE plan.rev < plan'.rev
    BY <1>2, <2>1, <2>2, <2>3
  <2>4. CASE Ends
    <3>1. plan'.rev = plan.rev
      BY <2>4 DEF Ends
    <3>2. CASE k[1] = plan.rev
      <4>1. k[2] \notin Pending(steps', plan.rev)
        <5>1. SUFFICES ASSUME k[2] \in Pending(steps', plan.rev) PROVE FALSE
          OBVIOUS
        <5>2. k[2] \in Pending(steps, plan.rev) /\ k[2] # plan.current
          BY <2>4, <5>1 DEF Ends
        <5>3. steps[<<plan.rev, k[2]>>] = "pending"
          BY <5>2, PendingIn
        <5>4. <<plan.rev, k[2]>> = k
          BY <2>2, <3>2
        <5>5. QED
          BY <2>1, <3>2, <5>2, <5>3, <5>4
      <4>2. steps'[<<plan.rev, k[2]>>] # "pending"
        BY <2>2, <3>2, <4>1, PendingIn
      <4>3. <<plan.rev, k[2]>> = k
        BY <2>2, <3>2
      <4>4. steps'[k] # "pending"
        BY <4>2, <4>3
      <4>5. QED
        BY <3>1, <3>2, <4>4
    <3>3. CASE k[1] # plan.rev
      BY <1>2, <2>1, <2>2, <3>1, <3>3
    <3>4. QED
      BY <3>2, <3>3
  <2>5. QED
    BY <2>3, <2>4
<1>4. Spent(sends)'
  <2>1. SUFFICES ASSUME NEW k \in Keys, sends'[k] # 0
                 PROVE  /\ k[1] <= plan'.rev
                        /\ k[1] = plan'.rev /\ steps'[k] = "pending" => k[2] = plan'.current
                        /\ rem'.status = "pending" /\ k = <<plan'.rev, plan'.current>> =>
                             rem'.at < rem'.retryAt \/ rem'.at < now'
    BY DEF Spent
  <2>2. k[1] < plan'.rev \/ (k[1] = plan'.rev /\ steps'[k] # "pending")
    BY <1>3, <2>1
  <2>3. k = <<k[1], k[2]>> /\ k[1] \in Nat
    BY KeysAre
  <2>4. ~ (rem'.status = "pending" /\ k = <<plan'.rev, plan'.current>>)
    <3>1. SUFFICES ASSUME rem'.status = "pending", k = <<plan'.rev, plan'.current>> PROVE FALSE
      OBVIOUS
    <3>2. k[1] = plan'.rev
      BY <3>1
    <3>3. plan'.state = "active"
      BY <1>1, <3>1 DEF Agree, Agreement
    <3>4. Pending(steps', plan'.rev) # {} /\ plan'.current = Min(Pending(steps', plan'.rev))
      BY <1>1, <3>3 DEF Agree, Agreement
    <3>5. Pending(steps', plan'.rev) \subseteq Nat
      BY PendingIn, TimesAre
    <3>6. plan'.current \in Pending(steps', plan'.rev)
      BY <3>4, <3>5, FirstIs
    <3>7. steps'[k] = "pending"
      BY <3>1, <3>6, PendingIn
    <3>8. QED
      BY <1>2, <2>2, <3>2, <3>7
  <2>5. QED
    BY <1>2, <2>2, <2>3, <2>4
<1>5. Unsent'
  <2>1. SUFFICES ASSUME NEW v \in Workers,
                        worker'[v].pc = "send" \/ (worker'[v].pc \in {"renew", "prepare"} /\ Holds(v)')
                 PROVE  sends'[worker'[v].step] = 0
    BY DEF Unsent
  <2>2. worker'[v].pc = "send"
    BY <1>1, <2>1 DEF Holds
  <2>3. worker'[v] = worker[v]
    BY <2>2, IdleIs
  <2>4. QED
    BY <2>2, <2>3 DEF Once, Unsent
<1>6. QED
  BY <1>4, <1>5 DEF Once, SentOnce

\* The plan and its steps stay, nothing goes out, and workers go on or stop.
LEMMA OnceKept ==
  ASSUME Types, Agree, Claims, Once, sends' = sends, plan' = plan, steps' = steps,
         now <= now', now' \in Nat, rem'.at = rem.at,
         rem'.status = "pending" =>
            \/ rem.status = "pending" /\ rem'.retryAt = rem.retryAt
            \/ rem'.at < rem'.retryAt,
         \A v \in Workers : worker'[v].pc \in {"renew", "prepare"} /\ Holds(v)' =>
            worker[v].pc \in {"renew", "prepare"} /\ Holds(v) /\ worker'[v].step = worker[v].step,
         \A v \in Workers : worker'[v].pc = "send" =>
            /\ worker'[v].step = worker[v].step
            /\ worker[v].pc = "send" \/ (worker[v].pc = "prepare" /\ Holds(v))
  PROVE  Once'
<1>1. now \in Nat /\ rem.at \in Nat
  BY Shapes, RowsAre
<1>2. Spent(sends)'
  <2>1. SUFFICES ASSUME NEW k \in Keys, sends[k] # 0
                 PROVE  /\ k[1] <= plan.rev
                        /\ k[1] = plan.rev /\ steps[k] = "pending" => k[2] = plan.current
                        /\ rem'.status = "pending" /\ k = <<plan.rev, plan.current>> =>
                             rem'.at < rem'.retryAt \/ rem'.at < now'
    BY DEF Spent
  <2>2. /\ k[1] <= plan.rev
        /\ k[1] = plan.rev /\ steps[k] = "pending" => k[2] = plan.current
        /\ rem.status = "pending" /\ k = <<plan.rev, plan.current>> =>
             rem.at < rem.retryAt \/ rem.at < now
    BY <2>1 DEF Once, Spent
  <2>3. QED
    BY <1>1, <2>2
<1>3. Unsent'
  BY DEF Once, Unsent
<1>4. QED
  BY <1>2, <1>3 DEF Once, SentOnce

-----------------------------------------------------------------------------
(* The inductive invariant, and the steps that keep it                     *)

IInv == Types /\ Agree /\ Claims /\ Once

\* Steps that write the plan and leave the row unclaimed.
LEMMA ParkedStep ==
  ASSUME IInv, Writes, now' = now, cards' = cards, sends' \in [Keys -> Nat],
         draft' \in DraftState, drafts' \in 0..MaxDrafts,
         occ' \in [Times -> Occurrence], \E i \in Nat : MadeUpTo(occ', i),
         worker' \in [Workers -> WorkerState],
         \A v \in Workers : worker'[v] \in {worker[v], Idle},
         plan.rev <= plan'.rev,
         (\A v \in Workers : worker'[v].pc # "send") \/ rem'.state = "cancelled",
         Once'
  PROVE  IInv'
<1>1. Types'
  BY DEF IInv, Types, TypesOf, Writes
<1>2. Claims'
  BY ClaimsParked DEF IInv, Writes
<1>3. QED
  BY <1>1, <1>2 DEF IInv, Writes

\* The owner's operations find the row unclaimed.
LEMMA RunningIs ==
  ASSUME IInv, Running
  PROVE  \A v \in Workers : worker[v].pc # "send"
BY NobodyCalls DEF IInv, Running, Final

LEMMA FenceRuns ==
  ASSUME NEW c, Fence(c)
  PROVE  Running
BY DEF Fence, OccurrenceFence

LEMMA CardStep ==
  ASSUME IInv, Writes, UNCHANGED <<now, worker, cards, draft, drafts>>, sends' \in [Keys -> Nat],
         occ' \in [Times -> Occurrence], \E i \in Nat : MadeUpTo(occ', i),
         Running, plan.rev <= plan'.rev, Once'
  PROVE  IInv'
<1>1. /\ worker' \in [Workers -> WorkerState] /\ draft' \in DraftState /\ drafts' \in 0..MaxDrafts
      /\ \A v \in Workers : worker'[v] \in {worker[v], Idle}
      /\ \A v \in Workers : worker'[v].pc # "send"
  BY Shapes, RunningIs DEF IInv
<1>2. QED
  BY <1>1, ParkedStep

LEMMA RevKept ==
  ASSUME Types, plan'.rev = plan.rev
  PROVE  plan.rev <= plan'.rev
BY Shapes, PlansAre

LEMMA MadeIs ==
  ASSUME Types
  PROVE  \E i \in Nat : MadeUpTo(occ, i)
BY DEF Types, TypesOf

LEMMA WrittenIs ==
  ASSUME Types, NEW t \in Times \union {Null}, WritesOne(occ, occ', t)
  PROVE  occ' \in [Times -> Occurrence] /\ \E i \in Nat : MadeUpTo(occ', i)
<1>1. t \in Nat
  BY TimesAre
<1>2. occ' \in [Times -> Occurrence] /\ \A u \in Times : u # t => occ'[u] = occ[u]
  BY DEF WritesOne
<1>3. QED
  BY <1>1, <1>2, MadeIs, MadeGrows

LEMMA DoneStep ==
  ASSUME IInv, NEW c \in cards, Done(c), UNCHANGED <<now, worker, cards, draft, drafts, sends>>
  PROVE  IInv'
<1>1. Writes /\ Ends
  BY DoneAgrees DEF IInv
<1>2. Running
  BY DEF Done, OccurrenceFence
<1>3. occ' \in [Times -> Occurrence] /\ \E i \in Nat : MadeUpTo(occ', i)
  BY DoneWrites, WrittenIs, CardIs DEF IInv
<1>4. Once'
  BY <1>1, OnceEnds DEF IInv
<1>5. plan.rev <= plan'.rev
  BY <1>1, RevKept DEF IInv, Ends
<1>6. QED
  BY <1>1, <1>2, <1>3, <1>4, <1>5, Shapes, CardStep DEF IInv

LEMMA EditStep ==
  ASSUME IInv, NEW c \in cards, NEW q \in Requests, Edit(c, q),
         UNCHANGED <<now, worker, cards, draft, drafts, sends>>
  PROVE  IInv'
<1>1. Writes /\ plan'.rev = plan.rev + 1 /\ plan.rev \in Nat
  BY EditAgrees, Shapes, PlansAre DEF IInv
<1>2. Running
  BY FenceRuns DEF Edit
<1>3. occ' = occ
  BY DEF Edit
<1>4. plan'.rev \in Nat /\ plan.rev < plan'.rev /\ plan.rev <= plan'.rev
  BY <1>1
<1>5. Once'
  BY <1>1, <1>4, OnceEnds DEF IInv
<1>6. QED
  BY <1>1, <1>2, <1>3, <1>4, <1>5, Shapes, MadeIs, CardStep DEF IInv

LEMMA DisableStep ==
  ASSUME IInv, NEW c \in cards, Disable(c), UNCHANGED <<now, worker, cards, draft, drafts, sends>>
  PROVE  IInv'
<1>1. /\ Writes /\ plan'.rev = plan.rev /\ plan'.current = plan.current /\ steps' = steps
      /\ rem'.status # "pending"
  BY DisableAgrees DEF IInv
<1>2. Running
  BY FenceRuns DEF Disable
<1>3. occ' \in [Times -> Occurrence] /\ \E i \in Nat : MadeUpTo(occ', i)
  BY DisableWrites, WrittenIs, CardIs DEF IInv
<1>4. Once'
  <2>1. Spent(sends)'
    BY <1>1 DEF IInv, Once, Spent
  <2>2. \A v \in Workers : ~ Holds(v)' /\ worker'[v].pc # "send"
    BY <1>1, <1>2, RunningIs DEF Holds, Writes
  <2>3. Unsent'
    BY <2>2 DEF Unsent
  <2>4. QED
    BY <2>1, <2>3 DEF IInv, Once, SentOnce
<1>5. plan.rev <= plan'.rev
  BY <1>1, RevKept DEF IInv
<1>6. QED
  BY <1>1, <1>2, <1>3, <1>4, <1>5, Shapes, CardStep DEF IInv

\* The plan is switched on again: its current step starts afresh.
LEMMA EnableStep ==
  ASSUME IInv, NEW c \in cards, Enable(c), UNCHANGED <<now, worker, cards, draft, drafts>>
  PROVE  IInv'
<1>1. /\ Writes /\ plan'.rev = plan.rev /\ plan'.current = plan.current /\ steps' = steps
      /\ plan.rev \in Plans /\ plan.current \in Times
  BY EnableAgrees DEF IInv
<1>2. Running /\ sends' = [sends EXCEPT ![<<plan.rev, plan.current>>] = 0] /\ occ' = occ
  BY FenceRuns DEF Enable
<1>3. /\ sends' \in [Keys -> Nat] /\ sends'[<<plan.rev, plan.current>>] = 0
      /\ \A k \in Keys : k # <<plan.rev, plan.current>> => sends'[k] = sends[k]
  <2>1. <<plan.rev, plan.current>> \in Keys /\ sends \in [Keys -> Nat]
    BY <1>1, Shapes DEF IInv, Keys
  <2>2. QED
    BY <1>2, <2>1
<1>4. Once'
  <2>1. \A k \in Keys : sends'[k] # 0 =>
          k # <<plan.rev, plan.current>> /\ sends'[k] = sends[k] /\ sends[k] # 0
    BY <1>3
  <2>2. Spent(sends)'
    BY <1>1, <2>1 DEF IInv, Once, Spent
  <2>3. \A v \in Workers : ~ Holds(v)' /\ worker'[v].pc # "send"
    BY <1>1, <1>2, RunningIs DEF Holds, Writes
  <2>4. Unsent'
    BY <2>3 DEF Unsent
  <2>5. SentOnce'
    <3>1. SUFFICES ASSUME NEW k \in Keys PROVE sends'[k] <= 1
      BY DEF SentOnce
    <3>2. CASE sends'[k] = 0
      BY <3>2
    <3>3. CASE sends'[k] # 0
      BY <2>1, <3>3 DEF IInv, Once, SentOnce
    <3>4. QED
      BY <3>2, <3>3
  <2>6. QED
    BY <2>2, <2>4, <2>5 DEF Once
<1>5. plan.rev <= plan'.rev
  BY <1>1, RevKept DEF IInv
<1>6. QED
  BY <1>1, <1>2, <1>3, <1>4, <1>5, Shapes, MadeIs, CardStep DEF IInv

LEMMA CancelStep ==
  ASSUME IInv, NEW at, Cancel(at), at \in Times \union {Null},
         at # Null => occ[at].status = "delivered",
         UNCHANGED <<now, worker, cards, draft, drafts, sends>>
  PROVE  IInv'
<1>1. Writes /\ Ends /\ rem'.state = "cancelled"
  BY CancelAgrees DEF IInv
<1>2. /\ occ' \in [Times -> Occurrence]
      /\ \A u \in Times : occ'[u].status # "absent" => occ[u].status # "absent"
  BY CancelWrites DEF IInv
<1>3. \E i \in Nat : MadeUpTo(occ', i)
  BY <1>2, MadeIs DEF IInv, MadeUpTo
<1>4. Once'
  BY <1>1, OnceEnds DEF IInv
<1>5. plan.rev <= plan'.rev
  BY <1>1, RevKept DEF IInv, Ends
<1>6. QED
  BY <1>1, <1>2, <1>3, <1>4, <1>5, Shapes, ParkedStep DEF IInv

LEMMA ActStep ==
  ASSUME IInv, Act, UNCHANGED <<now, worker, cards, draft, drafts>>
  PROVE  IInv'
<1>1. ASSUME NEW c \in cards, Enable(c) PROVE IInv'
  BY <1>1, EnableStep
<1>2. ASSUME NEW c \in cards, Done(c), sends' = sends PROVE IInv'
  BY <1>2, DoneStep
<1>3. ASSUME NEW c \in cards, Disable(c), sends' = sends PROVE IInv'
  BY <1>3, DisableStep
<1>4. ASSUME NEW c \in cards, Delete(c), sends' = sends PROVE IInv'
  <2>1. Cancel(c.at) /\ c.at \in Times \union {Null}
    BY <1>4, CardIs DEF Delete, IInv
  <2>2. c.at # Null => occ[c.at].status = "delivered"
    BY <1>4 DEF Delete, OccurrenceFence
  <2>3. QED
    BY <1>4, <2>1, <2>2, CancelStep
<1>5. ASSUME NEW c \in cards, NEW q \in Requests, Edit(c, q), sends' = sends PROVE IInv'
  BY <1>5, EditStep
<1>6. ASSUME Cancel(Null), sends' = sends PROVE IInv'
  BY <1>6, CancelStep
<1>7. QED
  BY <1>1, <1>2, <1>3, <1>4, <1>5, <1>6 DEF Act

\* Steps that touch neither the rows nor what went out.
LEMMA QuietStep ==
  ASSUME IInv, UNCHANGED <<row, occ, sends, now>>, cards' \subseteq Card,
         draft' \in DraftState, drafts' \in 0..MaxDrafts,
         worker' \in [Workers -> WorkerState],
         \A v \in Workers : worker'[v] \in {worker[v], Idle}
  PROVE  IInv'
<1>1. Types /\ Agree /\ Claims /\ Once
  BY DEF IInv
<1>2. /\ rem' = rem /\ plan' = plan /\ mirror' = mirror /\ steps' = steps /\ occ' = occ
      /\ sends' = sends /\ now' = now
  BY DEF row
<1>3. Types'
  BY <1>1, <1>2 DEF Types, TypesOf
<1>4. Agree'
  BY <1>1, <1>2 DEF Agree
<1>5. rem \in Reminder /\ rem.lease \in Nat /\ now \in Nat /\ now <= now
  BY <1>1, Shapes, RowsAre
<1>6. Claims'
  <2>1. \A v \in Workers :
          \/ worker'[v] = Idle
          \/ /\ worker'[v].token = worker[v].token /\ worker'[v].step = worker[v].step
             /\ worker'[v].pc = "idle" <=> worker[v].pc = "idle"
    OBVIOUS
  <2>2. \A v \in Workers : Holds(v) /\ worker'[v].pc \notin {"idle", "renew", "prepare"} =>
          occ'[rem.at].step = <<plan.rev, rem.at>>
    BY <1>1, <1>2, IdleIs DEF Claims, Held
  <2>3. \A v \in Workers : worker'[v].pc = "send" => worker[v].pc = "send"
    BY IdleIs
  <2>4. QED
    BY <1>1, <1>2, <1>5, <2>1, <2>2, <2>3, ClaimsKept
<1>7. Once'
  <2>1. \A v \in Workers : worker'[v].pc \in {"renew", "prepare"} /\ Holds(v)' =>
          worker[v].pc \in {"renew", "prepare"} /\ Holds(v) /\ worker'[v].step = worker[v].step
    BY <1>2, IdleIs DEF Holds
  <2>2. \A v \in Workers : worker'[v].pc = "send" =>
          worker'[v].step = worker[v].step /\ worker[v].pc = "send"
    BY IdleIs
  <2>3. QED
    BY <1>1, <1>2, <1>5, <2>1, <2>2, OnceKept
<1>8. QED
  BY <1>3, <1>4, <1>6, <1>7 DEF IInv

LEMMA CreateStep ==
  ASSUME IInv, NEW q \in Requests, CreateDraft(q), now' = now
  PROVE  IInv'
<1>1. drafts \in Nat /\ drafts < MaxDrafts /\ MaxDrafts \in Nat /\ drafts' = drafts + 1
  BY Shapes, BoundsAre DEF IInv, CreateDraft
<1>2. drafts' \in 0..MaxDrafts /\ drafts + 1 \in Nat
  BY <1>1
<1>3. draft' \in DraftState
  <2>1. q.deadline \in Nat /\ q.points \subseteq Times
    BY DeadlineAssumption, TimesAre
  <2>2. now + DraftTTL \in Nat
    BY Shapes, BoundsAre DEF IInv
  <2>3. {t \in q.points : t >= now} \in SUBSET Times /\ {t \in q.points : t < now} \in SUBSET Times
    BY <2>1
  <2>4. QED
    BY <1>2, <2>1, <2>2, <2>3 DEF CreateDraft, DraftState
<1>4. UNCHANGED <<row, occ, worker, cards, sends>>
  BY DEF CreateDraft
<1>5. QED
  BY <1>2, <1>3, <1>4, Shapes, QuietStep DEF IInv

LEMMA NoDraftIs == NoDraft \in DraftState
BY TimesAre DEF NoDraft, DraftState, Null

LEMMA DropStep ==
  ASSUME IInv, DropDraft, now' = now
  PROVE  IInv'
<1>1. UNCHANGED <<row, occ, worker, cards, sends, drafts>> /\ draft' = NoDraft
  BY DEF DropDraft
<1>2. QED
  BY <1>1, NoDraftIs, Shapes, QuietStep DEF IInv

LEMMA ConfirmStep ==
  ASSUME IInv, NEW i, Confirm(i), now' = now
  PROVE  IInv'
<1>1. UNCHANGED <<occ, worker, cards, sends, drafts>> /\ draft' = NoDraft
  BY DEF Confirm
<1>2. CASE UNCHANGED row
  BY <1>1, <1>2, NoDraftIs, Shapes, QuietStep DEF IInv
<1>3. CASE ~ UNCHANGED row
  <2>1. /\ Writes /\ plan.rev = 0 /\ plan'.rev = 1 /\ rem.rev = 0
    BY <1>3, ConfirmAgrees DEF IInv
  <2>2. \A v \in Workers : worker[v].pc # "send"
    <3>1. SUFFICES ASSUME NEW v \in Workers PROVE worker[v].pc = "idle"
      OBVIOUS
    <3>2. worker[v].token <= rem.rev /\ worker[v].token \in Nat
      BY WorkersAre DEF IInv, Claims, Tokens
    <3>3. worker[v].token = Null
      BY <2>1, <3>2 DEF Null
    <3>4. QED
      BY <3>3 DEF IInv, Claims, Tokens
  <2>3. plan'.rev \in Nat /\ plan.rev < plan'.rev /\ plan.rev <= plan'.rev
    BY <2>1
  <2>4. Once'
    BY <1>1, <2>1, <2>3, OnceEnds DEF IInv
  <2>5. QED
    BY <1>1, <2>1, <2>2, <2>3, <2>4, NoDraftIs, Shapes, MadeIs, ParkedStep DEF IInv
<1>4. QED
  BY <1>2, <1>3

LEMMA LatestIs ==
  ASSUME Types
  PROVE  Latest \in Times \union {Null}
<1>1. CASE Made = {}
  BY <1>1 DEF Latest
<1>2. CASE Made # {}
  <2>1. PICK n \in Nat : MadeUpTo(occ, n)
    BY MadeIs
  <2>2. Made \subseteq Times /\ Made \subseteq Nat /\ \A t \in Made : t <= n
    BY <2>1, TimesAre DEF Made, MadeUpTo
  <2>3. Max(Made) \in Made
    BY <1>2, <2>2, LastIs
  <2>4. QED
    BY <1>2, <2>2, <2>3 DEF Latest
<1>3. QED
  BY <1>1, <1>2

LEMMA ListedIs ==
  ASSUME Types
  PROVE  Listed \in Card
<1> DEFINE shown == IF Latest # Null /\ occ[Latest].status = "delivered" /\ occ[Latest].msg # Null
                       /\ occ[Latest].msg = rem.msg /\ rem.named # Null
                    THEN Latest ELSE Null
           switch == CASE mirror.state = "active" -> {"disable"}
                       [] mirror.state = "disabled" -> {"enable"}
                       [] OTHER -> {}
<1>1. shown \in Times \union {Null} /\ switch \subseteq Buttons
  <2>1. shown \in Times \union {Null}
    BY LatestIs
  <2>2. switch \subseteq Buttons
    BY DEF Buttons
  <2>3. QED
    BY <2>1, <2>2
<1> DEFINE rev == IF shown # Null THEN occ[shown].rev ELSE rem.rev
<1>2. rev \in Nat
  BY <1>1, Shapes, RowsAre, OccurrenceIs
<1> HIDE DEF shown, switch, rev
<1> DEFINE long == [at |-> shown, rev |-> rev, msg |-> Null,
                    offers |-> {"done", "edit", "delete"} \union switch]
           short == [at |-> Null, rev |-> rem.rev, msg |-> Null,
                     offers |-> {"edit", "delete"} \union
                                IF rem.state = "paused" THEN {"enable"} ELSE switch]
<1>3. long \in Card
  BY <1>1, <1>2, TimesAre DEF Card, Buttons
<1>4. short \in Card
  <2>1. rem.rev \in Nat
    BY Shapes, RowsAre
  <2>2. QED
    BY <1>1, <2>1, TimesAre DEF Card, Buttons
<1>5. Listed \in {long, short}
  BY DEF Listed, shown, switch, rev
<1>6. QED
  BY <1>3, <1>4, <1>5

LEMMA ListStep ==
  ASSUME IInv, List, UNCHANGED <<now, worker, sends, book>>
  PROVE  IInv'
<1>1. UNCHANGED <<row, occ>> /\ cards' = cards \union {Listed}
  BY DEF List
<1>2. cards' \subseteq Card
  BY <1>1, ListedIs, Shapes DEF IInv
<1>3. QED
  BY <1>1, <1>2, Shapes, QuietStep DEF IInv, book

LEMMA CrashStep ==
  ASSUME IInv, NEW w \in Workers, Crash(w), now' = now
  PROVE  IInv'
<1>1. UNCHANGED <<row, occ, book, cards, sends>> /\ Stop(w)
  BY DEF Crash
<1>2. /\ worker' \in [Workers -> WorkerState]
      /\ \A v \in Workers : worker'[v] \in {worker[v], Idle}
  BY <1>1, StopIs DEF IInv
<1>3. QED
  BY <1>1, <1>2, Shapes, QuietStep DEF IInv, book

LEMMA TickStep ==
  ASSUME IInv, Tick
  PROVE  IInv'
<1>1. Types /\ Agree /\ Claims /\ Once
  BY DEF IInv
<1>2. /\ UNCHANGED <<row, occ, book, worker, cards, sends>> /\ now' = now + 1 /\ now < MaxTime
      /\ \A w \in Workers : worker[w].pc = "send" /\ Owns(w) => rem.lease > now + 1
  BY DEF Tick
<1>3. /\ rem' = rem /\ plan' = plan /\ mirror' = mirror /\ steps' = steps /\ occ' = occ
      /\ sends' = sends /\ worker' = worker /\ cards' = cards /\ draft' = draft /\ drafts' = drafts
  BY <1>2 DEF row, book
<1>4. now \in Nat /\ now' \in Nat /\ now <= now' /\ now' \in 0..MaxTime
  BY <1>1, <1>2, Shapes, BoundsAre
<1>5. Types'
  BY <1>1, <1>3, <1>4 DEF Types, TypesOf
<1>6. Agree'
  BY <1>1, <1>3 DEF Agree
<1>7. Claims'
  <2>1. Tokens' /\ Calls'
    BY <1>1, <1>3 DEF Claims, Tokens, Calls, Holds
  <2>2. ASSUME NEW w \in Workers, Holds(w), worker[w].pc = "send" PROVE now' < rem.lease
    <3>1. now < rem.lease /\ rem.lease \in Nat
      BY <1>1, <2>2, Shapes, RowsAre DEF Claims, Held
    <3>2. Owns(w)
      BY <1>4, <2>2, <3>1 DEF Owns, Holds
    <3>3. QED
      BY <1>2, <1>4, <2>2, <3>1, <3>2
  <2>3. rem.status = "processing" => rem.at <= now' /\ rem.at < rem.lease
    BY <1>1, <1>4, Shapes, RowsAre DEF Claims, Held
  <2>4. Held'
    BY <1>1, <1>3, <2>2, <2>3 DEF Claims, Held, Holds
  <2>5. QED
    BY <2>1, <2>4 DEF Claims
<1>8. Once'
  <2>1. \A v \in Workers : Holds(v)' => Holds(v)
    BY <1>3 DEF Holds
  <2>2. QED
    BY <1>1, <1>3, <1>4, <2>1, OnceKept
<1>9. QED
  BY <1>5, <1>6, <1>7, <1>8 DEF IInv

-----------------------------------------------------------------------------
(* The steps of a worker that claims                                       *)

LEMMA ReconcileStep ==
  ASSUME IInv, Due, Reconcile, UNCHANGED <<now, book>>
  PROVE  IInv'
<1>1. Writes /\ Ends
  BY ReconcileAgrees DEF IInv
<1>2. UNCHANGED <<occ, worker, cards, sends, draft, drafts>>
  BY DEF Reconcile, book
<1>3. \A v \in Workers : worker'[v].pc # "send"
  BY <1>2, NobodyCallsWhenDue DEF IInv
<1>4. Once'
  BY <1>1, <1>2, OnceEnds DEF IInv
<1>5. plan.rev <= plan'.rev
  BY <1>1, RevKept DEF IInv, Ends
<1>6. QED
  BY <1>1, <1>2, <1>3, <1>4, <1>5, Shapes, MadeIs, ParkedStep DEF IInv

LEMMA ExhaustStep ==
  ASSUME IInv, Due, Exhaust, UNCHANGED <<now, book>>
  PROVE  IInv'
<1>1. Writes /\ Ends
  BY FailAgrees DEF IInv, Exhaust, Claimable
<1>2. UNCHANGED <<occ, worker, cards, sends, draft, drafts>>
  BY DEF Exhaust, book
<1>3. \A v \in Workers : worker'[v].pc # "send"
  BY <1>2, NobodyCallsWhenDue DEF IInv
<1>4. Once'
  BY <1>1, <1>2, OnceEnds DEF IInv
<1>5. plan.rev <= plan'.rev
  BY <1>1, RevKept DEF IInv, Ends
<1>6. QED
  BY <1>1, <1>2, <1>3, <1>4, <1>5, Shapes, MadeIs, ParkedStep DEF IInv

\* A row is claimed at the very time of its step, and the step did not go out:
\* a claim that is taken over finds the step over, a retry comes after it.
LEMMA ClaimableIs ==
  ASSUME IInv, Due, Claimable
  PROVE  /\ rem.status = "pending" /\ rem.at = now /\ mirror = plan
         /\ plan.rev \in Plans /\ rem.at \in Times /\ rem.at = plan.current
         /\ sends[<<plan.rev, rem.at>>] = 0
<1>1. plan.state = "active" /\ Elapsed = {}
  BY DEF Claimable
<1>2. /\ plan.rev \in Plans /\ plan.current \in Times /\ rem.at = plan.current
      /\ plan.current \in Pending(steps, plan.rev) /\ mirror = plan
      /\ <<plan.rev, plan.current>> \in Keys
  BY <1>1, ActiveIs DEF IInv
<1>3. ~ (rem.at < now)
  BY <1>1, <1>2 DEF Elapsed
<1>4. /\ now \in Nat /\ rem.at \in Nat /\ rem.retryAt \in Nat /\ rem.lease \in Nat
  BY Shapes, RowsAre DEF IInv
<1>5. ~ (rem.status = "processing" /\ rem.lease <= now)
  <2>1. rem.status = "processing" => rem.at < rem.lease
    BY DEF IInv, Claims, Held
  <2>2. QED
    BY <1>3, <1>4, <2>1
<1>6. rem.status = "pending" /\ rem.at <= now /\ rem.retryAt <= now
  BY <1>5 DEF Due
<1>7. rem.at = now
  BY <1>3, <1>4, <1>6
<1>8. sends[<<plan.rev, rem.at>>] = 0
  <2>1. SUFFICES ASSUME sends[<<plan.rev, rem.at>>] # 0 PROVE FALSE
    OBVIOUS
  <2>2. rem.at < rem.retryAt \/ rem.at < now
    BY <1>2, <1>6, <2>1 DEF IInv, Once, Spent
  <2>3. QED
    BY <1>3, <1>4, <1>6, <2>2
<1>9. QED
  BY <1>2, <1>6, <1>7, <1>8

LEMMA ClaimStep ==
  ASSUME IInv, NEW w \in Workers, worker[w].pc = "idle", Due, ClaimRow(w), UNCHANGED <<now, book>>
  PROVE  IInv'
<1> DEFINE n == rem.rev + 1
           x == [pc |-> "renew", token |-> n, step |-> <<plan.rev, rem.at>>]
<1>1. Types /\ Agree /\ Claims /\ Once
  BY DEF IInv
<1>2. /\ rem.status = "pending" /\ rem.at = now /\ mirror = plan /\ plan.rev \in Plans
      /\ rem.at \in Times /\ rem.at = plan.current /\ sends[<<plan.rev, rem.at>>] = 0
  BY ClaimableIs DEF ClaimRow
<1>3. /\ rem' \in Reminder /\ rem'.status = "processing" /\ rem'.state = rem.state
      /\ rem'.at = rem.at /\ rem'.rev = n /\ rem'.token = n /\ rem'.lease = now + Lease
  BY <1>1, ClaimedRow
<1>4. /\ n \in Nat /\ rem.rev \in Nat /\ rem.rev < n /\ now \in Nat /\ plan.rev \in Nat
      /\ now < now + Lease /\ n # Null
  BY <1>1, Shapes, RowsAre, PlansAre, BoundsAre DEF Null
<1>5. UNCHANGED <<now, plan, mirror, steps, occ, cards, sends, draft, drafts>>
  BY DEF ClaimRow, book
<1>6. /\ worker' \in [Workers -> WorkerState] /\ worker'[w] = x
      /\ \A v \in Workers : v # w => worker'[v] = worker[v]
  <2>1. worker' = [worker EXCEPT ![w] = x] /\ worker \in [Workers -> WorkerState]
    BY <1>1, <1>2, Shapes DEF ClaimRow
  <2>2. x \in WorkerState
    BY <1>2, <1>4 DEF WorkerState, PCs
  <2> HIDE DEF x
  <2>3. QED
    BY <2>1, <2>2
<1>7. x.pc = "renew" /\ x.token = n /\ x.step = <<plan.rev, rem.at>> /\ x.step[1] = plan.rev
  OBVIOUS
<1> HIDE DEF n, x
<1>8. Types'
  BY <1>1, <1>3, <1>5, <1>6 DEF Types, TypesOf
<1>9. Agree'
  BY <1>1, <1>2, <1>3, <1>5, AgreeCalm
<1>10. \A v \in Workers : v # w => /\ worker[v].token \in Nat /\ worker[v].token < n
                                  /\ worker[v].token <= n /\ worker[v].pc # "send"
  <2>1. ASSUME NEW v \in Workers PROVE worker[v].token <= rem.rev /\ worker[v].token \in Nat
    BY <1>1, WorkersAre DEF Claims, Tokens
  <2>2. \A v \in Workers : worker[v].pc # "send"
    BY <1>1, NobodyCallsWhenDue
  <2>3. QED
    BY <1>4, <2>1, <2>2
<1>11. \A v \in Workers : Holds(v)' => v = w
  BY <1>3, <1>6, <1>10, <1>4 DEF Holds
<1>12. Claims'
  <2>1. Tokens'
    <3>1. rem'.token <= rem'.rev
      BY <1>3, <1>4
    <3>2. ASSUME NEW v \in Workers
          PROVE  /\ worker'[v].token <= rem'.rev /\ worker'[v].step[1] <= plan'.rev
                 /\ worker'[v].pc # "idle" => worker'[v].token # Null
      <4>1. CASE v = w
        BY <1>3, <1>4, <1>5, <1>6, <1>7, <4>1
      <4>2. CASE v # w
        BY <1>1, <1>3, <1>5, <1>6, <1>10, <4>2 DEF Claims, Tokens
      <4>3. QED
        BY <4>1, <4>2
    <3>3. ASSUME NEW u \in Workers, NEW v \in Workers, worker'[u].pc # "idle",
                 worker'[u].token = worker'[v].token
          PROVE  u = v
      <4>1. CASE u # w /\ v # w
        BY <1>1, <1>6, <3>3, <4>1 DEF Claims, Tokens
      <4>2. CASE u = w \/ v = w
        BY <1>4, <1>6, <1>7, <1>10, <3>3, <4>2
      <4>3. QED
        BY <4>1, <4>2
    <3>4. QED
      BY <3>1, <3>2, <3>3 DEF Tokens
  <2>2. Held'
    <3>1. rem'.at <= now' /\ rem'.at < rem'.lease
      <4>1. now' = now /\ now \in Nat /\ now < now + Lease
        BY <1>4, <1>5
      <4>2. rem'.at = now' /\ rem'.lease = now + Lease
        BY <1>2, <1>3, <4>1
      <4>3. now' <= now' /\ now' < now + Lease
        BY <4>1
      <4>4. QED
        BY <4>2, <4>3
    <3>2. ASSUME NEW v \in Workers, Holds(v)'
          PROVE  /\ worker'[v].step = <<plan'.rev, rem'.at>>
                 /\ worker'[v].pc = "renew"
      <4>1. v = w
        BY <1>11, <3>2
      <4>2. worker'[v].step = <<plan.rev, rem.at>> /\ worker'[v].pc = "renew"
        BY <1>6, <1>7, <4>1
      <4>3. QED
        BY <1>3, <1>5, <4>2
    <3>3. \A v \in Workers : Holds(v)' =>
            worker'[v].step = <<plan'.rev, rem'.at>> /\ worker'[v].pc = "renew"
      BY <3>2
    <3>4. QED
      BY <3>1, <3>3 DEF Held
  <2>3. Calls'
    BY <1>6, <1>7, <1>10 DEF Calls
  <2>4. QED
    BY <2>1, <2>2, <2>3 DEF Claims
<1>13. Once'
  <2>1. Spent(sends)'
    BY <1>1, <1>3, <1>5 DEF Once, Spent
  <2>2. Unsent'
    BY <1>2, <1>5, <1>6, <1>7, <1>10, <1>11 DEF Unsent
  <2>3. QED
    BY <1>1, <1>5, <2>1, <2>2 DEF Once, SentOnce
<1>14. QED
  BY <1>8, <1>9, <1>12, <1>13 DEF IInv

LEMMA ClaimDueStep ==
  ASSUME IInv, NEW w \in Workers, ClaimDue(w)
  PROVE  IInv'
<1>1. worker[w].pc = "idle" /\ Due /\ UNCHANGED <<now, book>>
  BY DEF ClaimDue
<1>2. CASE Reconcile
  BY <1>1, <1>2, ReconcileStep
<1>3. CASE Exhaust
  BY <1>1, <1>3, ExhaustStep
<1>4. CASE ClaimRow(w)
  BY <1>1, <1>4, ClaimStep
<1>5. QED
  BY <1>2, <1>3, <1>4 DEF ClaimDue

-----------------------------------------------------------------------------
(* The steps of a worker that delivers                                     *)

\* A worker that finds the row taken from it stops.
LEMMA StopStep ==
  ASSUME IInv, NEW w \in Workers, Stop(w), UNCHANGED <<now, row, occ, book, cards, sends>>
  PROVE  IInv'
<1>1. /\ worker' \in [Workers -> WorkerState]
      /\ \A v \in Workers : worker'[v] \in {worker[v], Idle}
  BY StopIs DEF IInv
<1>2. QED
  BY <1>1, Shapes, QuietStep DEF IInv, book

LEMMA RenewStep ==
  ASSUME IInv, NEW w \in Workers, Renew(w)
  PROVE  IInv'
<1>1. Types /\ Agree /\ Claims /\ Once /\ worker[w].pc = "renew"
  BY DEF IInv, Renew
<1>2. CASE ~ Owns(w)
  BY <1>2, StopStep DEF Renew, row
<1>3. CASE Owns(w)
  <2>1. /\ rem' \in Reminder /\ rem'.status = rem.status /\ rem'.state = rem.state
        /\ rem'.at = rem.at /\ rem'.rev = rem.rev /\ rem'.token = rem.token
        /\ rem'.lease = now + Lease /\ rem'.retryAt = rem.retryAt
    BY <1>1, <1>3, RenewedRow
  <2>2. UNCHANGED <<now, plan, mirror, steps, occ, draft, drafts, cards, sends>>
        /\ GoTo(w, "prepare")
    BY <1>3 DEF Renew, book
  <2>3. /\ worker' \in [Workers -> WorkerState] /\ worker'[w].pc = "prepare"
        /\ worker'[w].token = worker[w].token /\ worker'[w].step = worker[w].step
        /\ \A v \in Workers : v # w => worker'[v] = worker[v]
    BY <1>1, <2>2, GoToIs DEF PCs
  <2>4. rem.status = "processing" /\ Holds(w)
    BY <1>1, <1>3 DEF Owns, Holds
  <2>5. Types'
    BY <1>1, <2>1, <2>2, <2>3 DEF Types, TypesOf
  <2>6. Agree'
    BY <1>1, <2>1, <2>2, <2>4, AgreeCalm
  <2>7. now \in Nat /\ now < rem'.lease
    BY <1>1, <2>1, Shapes, BoundsAre
  <2>8. Claims'
    <3>1. \A v \in Workers :
            \/ worker'[v] = Idle
            \/ /\ worker'[v].token = worker[v].token /\ worker'[v].step = worker[v].step
               /\ worker'[v].pc = "idle" <=> worker[v].pc = "idle"
      BY <1>1, <2>3
    <3>2. \A v \in Workers : Holds(v) /\ worker'[v].pc \notin {"idle", "renew", "prepare"} =>
            occ'[rem.at].step = <<plan.rev, rem.at>>
      BY <1>1, <2>2, <2>3 DEF Claims, Held
    <3>3. \A v \in Workers : worker'[v].pc = "send" => worker[v].pc = "send"
      BY <2>3
    <3>4. QED
      BY <1>1, <2>1, <2>2, <2>7, <3>1, <3>2, <3>3, ClaimsKept
  <2>9. Once'
    <3>1. \A v \in Workers : worker'[v].pc \in {"renew", "prepare"} /\ Holds(v)' =>
            worker[v].pc \in {"renew", "prepare"} /\ Holds(v) /\ worker'[v].step = worker[v].step
      BY <1>1, <2>1, <2>3 DEF Holds
    <3>2. \A v \in Workers : worker'[v].pc = "send" =>
            worker'[v].step = worker[v].step /\ worker[v].pc = "send"
      BY <2>3
    <3>3. rem'.status # "pending"
      BY <2>1, <2>4
    <3>4. now <= now' /\ now' \in Nat
      BY <2>2, <2>7
    <3>5. QED
      BY <1>1, <2>1, <2>2, <3>1, <3>2, <3>3, <3>4, OnceKept
  <2>10. QED
    BY <2>5, <2>6, <2>8, <2>9 DEF IInv
<1>4. QED
  BY <1>2, <1>3

LEMMA PrepareStep ==
  ASSUME IInv, NEW w \in Workers, Prepare(w)
  PROVE  IInv'
<1>1. Types /\ Agree /\ Claims /\ Once /\ worker[w].pc = "prepare"
  BY DEF IInv, Prepare
<1>2. CASE ~ (OwnsLive(w) /\ CurrentStep # Null)
  BY <1>2, StopStep DEF Prepare
<1>3. CASE OwnsLive(w) /\ CurrentStep # Null
  <2>1. /\ occ' \in [Times -> Occurrence] /\ plan.current \in Times
        /\ occ'[plan.current].step = <<plan.rev, plan.current>>
        /\ \A u \in Times : u # plan.current => occ'[u] = occ[u]
    BY <1>1, <1>3, PrepareWrites
  <2>2. UNCHANGED <<now, rem, plan, mirror, steps, draft, drafts, cards, sends>>
        /\ GoTo(w, "send")
    BY <1>3 DEF Prepare, book, row
  <2>3. /\ worker' \in [Workers -> WorkerState] /\ worker'[w].pc = "send"
        /\ worker'[w].token = worker[w].token /\ worker'[w].step = worker[w].step
        /\ \A v \in Workers : v # w => worker'[v] = worker[v]
    BY <1>1, <2>2, GoToIs DEF PCs
  <2>4. Holds(w) /\ now < rem.lease /\ rem.status = "processing"
    <3>1. Owns(w)
      BY <1>3 DEF OwnsLive
    <3>2. Holds(w) /\ rem.lease > now
      BY <1>1, <3>1, OwnsIs
    <3>3. QED
      BY <1>1, <3>2, Shapes, RowsAre DEF Holds
  <2>5. rem.at = plan.current
    BY <1>1, <2>4, HoldsIs
  <2>6. Types'
    <3>1. \E i \in Nat : MadeUpTo(occ', i)
      BY <1>1, <2>1, MadeIs, MadeGrows, TimesAre
    <3>2. QED
      BY <1>1, <2>1, <2>2, <2>3, <3>1 DEF Types, TypesOf
  <2>7. Agree'
    BY <1>1, <2>2 DEF Agree
  <2>8. now \in Nat /\ rem.lease \in Nat /\ rem \in Reminder /\ rem.lease <= rem.lease /\ now <= now
    BY <1>1, Shapes, RowsAre
  <2>9. Claims'
    <3>1. \A v \in Workers :
            \/ worker'[v] = Idle
            \/ /\ worker'[v].token = worker[v].token /\ worker'[v].step = worker[v].step
               /\ worker'[v].pc = "idle" <=> worker[v].pc = "idle"
      BY <1>1, <2>3
    <3>2. \A v \in Workers : Holds(v) /\ worker'[v].pc \notin {"idle", "renew", "prepare"} =>
            occ'[rem.at].step = <<plan.rev, rem.at>>
      BY <2>1, <2>5
    <3>3. \A v \in Workers : worker'[v].pc = "send" =>
            worker[v].pc = "send" \/ (Holds(v) /\ now < rem'.lease)
      BY <2>2, <2>3, <2>4
    <3>4. QED
      BY <1>1, <2>2, <2>8, <3>1, <3>2, <3>3, ClaimsKept
  <2>10. Once'
    <3>1. \A v \in Workers : worker'[v].pc \in {"renew", "prepare"} /\ Holds(v)' =>
            worker[v].pc \in {"renew", "prepare"} /\ Holds(v) /\ worker'[v].step = worker[v].step
      BY <1>1, <2>2, <2>3 DEF Holds
    <3>2. \A v \in Workers : worker'[v].pc = "send" =>
            /\ worker'[v].step = worker[v].step
            /\ worker[v].pc = "send" \/ (worker[v].pc = "prepare" /\ Holds(v))
      BY <1>1, <2>3, <2>4
    <3>3. QED
      BY <1>1, <2>2, <2>4, <2>8, <3>1, <3>2, OnceKept
  <2>11. QED
    BY <2>6, <2>7, <2>9, <2>10 DEF IInv
<1>4. QED
  BY <1>2, <1>3

LEMMA RecordStep ==
  ASSUME IInv, NEW w \in Workers, Record(w)
  PROVE  IInv'
<1>1. Types /\ Agree /\ Claims /\ Once /\ worker[w].pc = "record"
  BY DEF IInv, Record
<1>2. CASE ~ OwnsLive(w)
  BY <1>2, StopStep DEF Record, row
<1>3. CASE OwnsLive(w)
  <2>1. Holds(w)
    BY <1>1, <1>3, OwnsIs DEF OwnsLive
  <2>2. /\ rem.at \in Times /\ worker[w].step[2] = rem.at /\ rem.status = "processing"
        /\ worker[w].step[2] \in Times
    BY <1>1, <2>1, HoldsIs
  <2>3. /\ rem' \in Reminder /\ rem'.status = rem.status /\ rem'.state = rem.state
        /\ rem'.at = rem.at /\ rem'.rev = rem.rev /\ rem'.token = rem.token
        /\ rem'.lease = rem.lease /\ rem'.retryAt = rem.retryAt
    BY <1>1, <1>3, <2>2, RecordedRow
  <2>4. /\ occ' \in [Times -> Occurrence] /\ (\E i \in Nat : MadeUpTo(occ', i))
        /\ \A u \in Times : occ'[u].step = occ[u].step
    BY <1>1, <1>3, <2>2, RecordWrites, WrittenIs DEF WritesOne
  <2>5. UNCHANGED <<now, plan, mirror, steps, draft, drafts, cards, sends>> /\ GoTo(w, "finalize")
    BY <1>3 DEF Record, book
  <2>6. /\ worker' \in [Workers -> WorkerState] /\ worker'[w].pc = "finalize"
        /\ worker'[w].token = worker[w].token /\ worker'[w].step = worker[w].step
        /\ \A v \in Workers : v # w => worker'[v] = worker[v]
    BY <1>1, <2>5, GoToIs DEF PCs
  <2>7. Types'
    BY <1>1, <2>3, <2>4, <2>5, <2>6 DEF Types, TypesOf
  <2>8. Agree'
    BY <1>1, <2>2, <2>3, <2>5, AgreeCalm
  <2>9. now \in Nat /\ rem.lease <= rem'.lease /\ now <= now' /\ now' \in Nat
    BY <1>1, <2>3, <2>5, Shapes, RowsAre
  <2>10. Claims'
    <3>1. \A v \in Workers :
            \/ worker'[v] = Idle
            \/ /\ worker'[v].token = worker[v].token /\ worker'[v].step = worker[v].step
               /\ worker'[v].pc = "idle" <=> worker[v].pc = "idle"
      BY <1>1, <2>6
    <3>2. \A v \in Workers : Holds(v) /\ worker'[v].pc \notin {"idle", "renew", "prepare"} =>
            occ'[rem.at].step = <<plan.rev, rem.at>>
      BY <1>1, <2>2, <2>4, <2>6 DEF Claims, Held
    <3>3. \A v \in Workers : worker'[v].pc = "send" => worker[v].pc = "send"
      BY <2>6
    <3>4. QED
      BY <1>1, <2>3, <2>5, <2>9, <3>1, <3>2, <3>3, ClaimsKept
  <2>11. Once'
    <3>1. \A v \in Workers : worker'[v].pc \in {"renew", "prepare"} /\ Holds(v)' =>
            worker[v].pc \in {"renew", "prepare"} /\ Holds(v) /\ worker'[v].step = worker[v].step
      BY <1>1, <2>3, <2>6 DEF Holds
    <3>2. \A v \in Workers : worker'[v].pc = "send" =>
            worker'[v].step = worker[v].step /\ worker[v].pc = "send"
      BY <2>6
    <3>3. QED
      BY <1>1, <2>2, <2>3, <2>5, <2>9, <3>1, <3>2, OnceKept
  <2>12. QED
    BY <2>7, <2>8, <2>10, <2>11 DEF IInv
<1>4. QED
  BY <1>2, <1>3

\* The worker that calls: its step did not go out, and nobody else is under way
\* with a step.
LEMMA CallIs ==
  ASSUME IInv, NEW w \in Workers, worker[w].pc = "send"
  PROVE  /\ sends[worker[w].step] = 0 /\ worker[w].step[1] <= plan.rev
         /\ rem.status # "pending"
         /\ \A k \in Keys : k = worker[w].step /\ k[1] = plan.rev /\ steps[k] = "pending" =>
              k[2] = plan.current
         /\ \A v \in Workers : v # w => worker[v].pc # "send" /\ ~ Holds(v)
<1>1. Types /\ Agree /\ Claims /\ Once
  BY DEF IInv
<1>2. sends[worker[w].step] = 0 /\ worker[w].step[1] <= plan.rev
  BY <1>1 DEF Once, Unsent, Claims, Tokens
<1>3. \A v \in Workers : v # w => worker[v].pc # "send"
  BY <1>1 DEF Claims, Calls
<1>4. CASE Holds(w)
  <2>1. /\ worker[w].step = <<plan.rev, rem.at>> /\ rem.status = "processing"
        /\ rem.at = plan.current /\ \A v \in Workers : Holds(v) => v = w
    BY <1>1, <1>4, HoldsIs
  <2>2. QED
    BY <1>2, <1>3, <2>1
<1>5. CASE ~ Holds(w)
  <2>1. rem.state = "cancelled"
    BY <1>1, <1>5 DEF Claims, Calls
  <2>2. rem.status \notin {"pending", "processing"}
    BY <1>1, <2>1 DEF Agree, Agreement
  <2>3. Pending(steps, plan.rev) = {}
    BY <1>1, <2>1 DEF Agree, Agreement
  <2>4. ASSUME NEW k \in Keys, k[1] = plan.rev, steps[k] = "pending" PROVE FALSE
    <3>1. k = <<k[1], k[2]>> /\ k[1] \in Plans /\ k[2] \in Times
      BY KeysAre
    <3>2. k = <<plan.rev, k[2]>> /\ plan.rev \in Plans /\ k[2] \in Times
      BY <2>4, <3>1
    <3>3. k[2] \in Pending(steps, plan.rev)
      BY <2>4, <3>2, PendingIn
    <3>4. QED
      BY <2>3, <3>3
  <2>5. \A v \in Workers : ~ Holds(v)
    BY <2>2 DEF Holds
  <2>6. QED
    BY <1>2, <1>3, <2>2, <2>4, <2>5
<1>6. QED
  BY <1>4, <1>5

LEMMA DeliveryCardIs ==
  ASSUME Types, NEW w \in Workers
  PROVE  DeliveryCard(w) \in Card
<1>1. worker[w].token \in Nat /\ worker[w].step[2] \in Times \union {Null}
  BY WorkersAre
<1>2. QED
  BY <1>1 DEF DeliveryCard, Card, Buttons

LEMMA SendStep ==
  ASSUME IInv, NEW w \in Workers, Send(w)
  PROVE  IInv'
<1>1. Types /\ Agree /\ Claims /\ Once /\ worker[w].pc = "send"
  BY DEF IInv, Send
<1>2. PICK end \in {"record", "transient", "terminal"}, arrived \in BOOLEAN :
        /\ GoTo(w, end)
        /\ IF arrived
           THEN /\ cards' = cards \union {DeliveryCard(w)}
                /\ sends' = [sends EXCEPT ![worker[w].step] = @ + 1]
           ELSE UNCHANGED <<cards, sends>>
  BY DEF Send
<1>3. UNCHANGED <<now, rem, plan, mirror, steps, occ, draft, drafts>>
  BY DEF Send, row, book
<1>4. /\ worker' \in [Workers -> WorkerState] /\ worker'[w].pc = end
      /\ worker'[w].token = worker[w].token /\ worker'[w].step = worker[w].step
      /\ \A v \in Workers : v # w => worker'[v] = worker[v]
  <2>1. end \in PCs
    BY DEF PCs
  <2>2. QED
    BY <1>1, <1>2, <2>1, GoToIs
<1>5. cards' \subseteq Card
  BY <1>1, <1>2, Shapes, DeliveryCardIs
<1>6. /\ sends' \in [Keys -> Nat]
      /\ \A k \in Keys : sends'[k] # sends[k] => k = worker[w].step /\ sends'[k] = sends[k] + 1
  <2>1. sends \in [Keys -> Nat]
    BY <1>1, Shapes
  <2> DEFINE p == worker[w].step
             n == sends[p] + 1
  <2>2. sends' \in {sends, [sends EXCEPT ![p] = n]}
    BY <1>2
  <2>3. p \in Keys => n \in Nat
    BY <2>1
  <2> HIDE DEF p, n
  <2>4. sends' \in [Keys -> Nat] /\ \A k \in Keys : sends'[k] # sends[k] => k = p /\ sends'[k] = n
    BY <2>1, <2>2, <2>3
  <2>5. QED
    BY <2>4 DEF p, n
<1>7. Types'
  BY <1>1, <1>3, <1>4, <1>5, <1>6 DEF Types, TypesOf
<1>8. Agree'
  BY <1>1, <1>3 DEF Agree
<1>9. now \in Nat /\ rem.lease \in Nat /\ rem \in Reminder /\ rem.lease <= rem.lease
  BY <1>1, Shapes, RowsAre
<1>10. Claims'
  <2>1. \A v \in Workers :
          \/ worker'[v] = Idle
          \/ /\ worker'[v].token = worker[v].token /\ worker'[v].step = worker[v].step
             /\ worker'[v].pc = "idle" <=> worker[v].pc = "idle"
    BY <1>1, <1>4
  <2>2. \A v \in Workers : Holds(v) /\ worker'[v].pc \notin {"idle", "renew", "prepare"} =>
          occ'[rem.at].step = <<plan.rev, rem.at>>
    BY <1>1, <1>3, <1>4 DEF Claims, Held
  <2>3. \A v \in Workers : worker'[v].pc = "send" => worker[v].pc = "send"
    BY <1>4
  <2>4. QED
    BY <1>1, <1>3, <1>9, <2>1, <2>2, <2>3, ClaimsKept
<1>11. Once'
  <2>1. /\ sends[worker[w].step] = 0 /\ worker[w].step[1] <= plan.rev
        /\ rem.status # "pending"
        /\ \A k \in Keys : k = worker[w].step /\ k[1] = plan.rev /\ steps[k] = "pending" =>
             k[2] = plan.current
        /\ \A v \in Workers : v # w => worker[v].pc # "send" /\ ~ Holds(v)
    BY <1>1, CallIs
  <2>2. SentOnce'
    <3>1. SUFFICES ASSUME NEW k \in Keys PROVE sends'[k] <= 1
      BY DEF SentOnce
    <3>2. CASE sends'[k] = sends[k]
      BY <1>1, <3>2 DEF Once, SentOnce
    <3>3. CASE sends'[k] # sends[k]
      BY <1>6, <2>1, <3>3
    <3>4. QED
      BY <3>2, <3>3
  <2>3. Spent(sends)'
    <3>1. SUFFICES ASSUME NEW k \in Keys, sends'[k] # 0
                   PROVE  /\ k[1] <= plan.rev
                          /\ k[1] = plan.rev /\ steps[k] = "pending" => k[2] = plan.current
      BY <1>3, <2>1 DEF Spent
    <3>2. CASE sends'[k] = sends[k]
      BY <1>1, <3>1, <3>2 DEF Once, Spent
    <3>3. CASE sends'[k] # sends[k]
      BY <1>6, <2>1, <3>3
    <3>4. QED
      BY <3>2, <3>3
  <2>4. Unsent'
    <3>1. SUFFICES ASSUME NEW v \in Workers
                   PROVE  ~ (worker'[v].pc = "send" \/
                             (worker'[v].pc \in {"renew", "prepare"} /\ Holds(v)'))
      BY DEF Unsent
    <3>2. CASE v = w
      BY <1>4, <3>2
    <3>3. CASE v # w
      <4>1. worker'[v] = worker[v] /\ worker[v].pc # "send" /\ ~ Holds(v)
        BY <1>4, <2>1, <3>3
      <4>2. QED
        BY <1>3, <4>1 DEF Holds
    <3>4. QED
      BY <3>2, <3>3
  <2>5. QED
    BY <2>2, <2>3, <2>4 DEF Once
<1>12. QED
  BY <1>7, <1>8, <1>10, <1>11 DEF IInv

\* The step finalize_delivery_success looks for is there.
LEMMA StepFound ==
  ASSUME IInv, NEW w \in Workers, worker[w].pc = "finalize", OwnsLive(w)
  PROVE  /\ StepIsThere /\ occ[rem.at].step = <<plan.rev, rem.at>> /\ rem.at \in Times
         /\ Holds(w)
<1>1. Types /\ Agree /\ Claims
  BY DEF IInv
<1>2. Holds(w)
  BY OwnsIs DEF OwnsLive
<1>3. /\ plan.state = "active" /\ rem.at \in Times /\ steps[<<plan.rev, rem.at>>] = "pending"
  BY <1>1, <1>2, HoldsIs
<1>4. occ[rem.at].step = <<plan.rev, rem.at>>
  BY <1>1, <1>2 DEF Claims, Held
<1>5. QED
  BY <1>2, <1>3, <1>4 DEF StepIsThere

LEMMA SuccessStep ==
  ASSUME IInv, NEW w \in Workers, FinalizeSuccess(w)
  PROVE  IInv'
<1>1. Types /\ Agree /\ Claims /\ Once /\ worker[w].pc = "finalize" /\ Stop(w)
  BY DEF IInv, FinalizeSuccess
<1>2. CASE ~ OwnsLive(w)
  BY <1>1, <1>2, StopStep DEF FinalizeSuccess
<1>3. CASE OwnsLive(w)
  <2>1. /\ StepIsThere /\ occ[rem.at].step = <<plan.rev, rem.at>> /\ rem.at \in Times
        /\ Holds(w)
    BY <1>1, <1>3, StepFound
  <2>2. Writes /\ Ends
    BY <1>1, <1>3, <2>1, SuccessAgrees
  <2>3. occ' \in [Times -> Occurrence] /\ \E i \in Nat : MadeUpTo(occ', i)
    BY <1>1, <1>3, <2>1, SuccessWrites, WrittenIs
  <2>4. UNCHANGED <<now, cards, sends, draft, drafts>>
    BY DEF FinalizeSuccess, book
  <2>5. /\ worker' \in [Workers -> WorkerState] /\ worker'[w] = Idle
        /\ \A v \in Workers : v # w => worker'[v] = worker[v]
        /\ \A v \in Workers : worker'[v] \in {worker[v], Idle}
    BY <1>1, StopIs
  <2>6. \A v \in Workers : worker'[v].pc # "send"
    <3>1. \A v \in Workers : v # w => worker[v].pc # "send"
      BY <1>1, <2>1, HoldsIs
    <3>2. QED
      BY <2>5, <3>1, IdleIs
  <2>7. Once'
    BY <1>1, <2>2, <2>4, <2>5, OnceEnds
  <2>8. plan.rev <= plan'.rev
    BY <1>1, <2>2, RevKept DEF Ends
  <2>9. QED
    BY <1>1, <2>2, <2>3, <2>4, <2>5, <2>6, <2>7, <2>8, Shapes, ParkedStep
<1>4. QED
  BY <1>2, <1>3

LEMMA FailureStep ==
  ASSUME IInv, NEW w \in Workers, FinalizeFailure(w)
  PROVE  IInv'
<1>1. Types /\ Agree /\ Claims /\ Once /\ worker[w].pc # "idle" /\ worker[w].pc # "send" /\ Stop(w)
  BY DEF IInv, FinalizeFailure
<1>2. CASE ~ OwnsLive(w)
  BY <1>1, <1>2, StopStep DEF FinalizeFailure
<1>3. CASE OwnsLive(w)
  <2>1. Holds(w)
    BY <1>1, <1>3, OwnsIs DEF OwnsLive
  <2>2. /\ plan.state = "active" /\ rem.status = "processing" /\ rem.at \in Times
        /\ rem.at <= now /\ \A v \in Workers : v # w => worker[v].pc # "send"
    BY <1>1, <2>1, HoldsIs
  <2>3. occ' \in [Times -> Occurrence] /\ \E i \in Nat : MadeUpTo(occ', i)
    BY <1>1, <1>3, <2>2, FailureWrites, WrittenIs
  <2>4. UNCHANGED <<now, cards, sends, draft, drafts>>
    BY DEF FinalizeFailure, book
  <2>5. /\ worker' \in [Workers -> WorkerState] /\ worker'[w] = Idle
        /\ \A v \in Workers : v # w => worker'[v] = worker[v]
        /\ \A v \in Workers : worker'[v] \in {worker[v], Idle}
    BY <1>1, StopIs
  <2>6. \A v \in Workers : worker'[v].pc # "send"
    BY <2>2, <2>5, IdleIs
  <2>7. CASE FailPlan /\ rem' = FailedRow(rem)
    <3>1. Writes /\ Ends
      BY <1>1, <2>2, <2>7, FailAgrees
    <3>2. Once'
      BY <1>1, <2>4, <2>5, <3>1, OnceEnds
    <3>3. plan.rev <= plan'.rev
      BY <1>1, <3>1, RevKept DEF Ends
    <3>4. QED
      BY <1>1, <2>3, <2>4, <2>5, <2>6, <3>1, <3>2, <3>3, Shapes, ParkedStep
  <2>8. CASE rem' = Retried(rem) /\ UNCHANGED <<plan, mirror, steps>>
    <3>1. /\ rem' \in Reminder /\ rem'.status = "pending" /\ rem'.state = rem.state
          /\ rem'.at = rem.at /\ rem'.rev = rem.rev /\ rem'.token = Null
          /\ rem'.retryAt = now + RetryDelay
      BY <1>1, <2>8, RetriedIs
    <3>2. /\ now \in Nat /\ rem.at \in Nat /\ rem.rev <= rem'.rev /\ now <= now
          /\ rem.at < now + RetryDelay /\ plan.rev <= plan.rev
      BY <1>1, <2>2, <3>1, Shapes, RowsAre, PlansAre, BoundsAre
    <3>3. Agree'
      BY <1>1, <2>2, <2>8, <3>1, AgreeCalm
    <3>4. Writes
      BY <1>1, <2>8, <3>1, <3>2, <3>3, Shapes DEF Writes
    <3>5. Once'
      <4>1. \A v \in Workers : ~ Holds(v)'
        BY <3>1 DEF Holds
      <4>2. rem'.at < rem'.retryAt
        BY <3>1, <3>2
      <4>3. QED
        BY <1>1, <2>4, <2>6, <2>8, <3>1, <3>2, <4>1, <4>2, OnceKept
    <3>6. QED
      BY <1>1, <2>3, <2>4, <2>5, <2>6, <2>8, <3>2, <3>4, <3>5, Shapes, ParkedStep
  <2>9. QED
    BY <1>3, <2>7, <2>8 DEF FinalizeFailure, Retried
<1>4. QED
  BY <1>2, <1>3

-----------------------------------------------------------------------------
(* The initial state, and every step                                       *)

LEMMA NoPlanIs ==
  /\ NoPlan \in Plan /\ NoPlan.state = "none" /\ NoPlan.rev = 0
  /\ Mirror(NoPlan, Null) = NoPlan
<1>1. NoPlan \in Plan /\ NoPlan.state = "none" /\ NoPlan.rev = 0 /\ NoPlan.current = Null
  BY DEF NoPlan, Plan
<1>2. QED
  BY <1>1, MirrorSame

LEMMA InitHolds == Init => IInv
<1>1. SUFFICES ASSUME Init PROVE IInv
  OBVIOUS
<1> DEFINE none == [status |-> "absent", rev |-> 0, msg |-> Null, step |-> NoStep]
<1>a. none \in Occurrence /\ none.status = "absent"
  BY TimesAre DEF Occurrence
<1>b. /\ now = 0 /\ rem = NoReminder /\ plan = NoPlan /\ mirror = NoPlan
      /\ draft = NoDraft /\ drafts = 0 /\ cards = {}
  BY <1>1 DEF Init
<1>c. occ = [t \in Times |-> none]
  BY <1>1 DEF Init
<1> HIDE DEF none
<1>d. /\ \A w \in Workers : worker[w] = Idle
      /\ worker \in [Workers -> WorkerState]
  <2>1. worker = [w \in Workers |-> Idle]
    BY <1>1 DEF Init
  <2>2. QED
    BY <2>1, IdleIs
<1>e. (\A k \in Keys : steps[k] = "none") /\ steps \in [Keys -> StepStates]
  <2>1. steps = [k \in Keys |-> "none"]
    BY <1>1 DEF Init
  <2>2. QED
    BY <2>1 DEF StepStates
<1>f. (\A k \in Keys : sends[k] = 0) /\ sends \in [Keys -> Nat]
  <2>1. sends = [k \in Keys |-> 0]
    BY <1>1 DEF Init
  <2>2. QED
    BY <2>1
<1>2. \A t \in Times : occ[t].status = "absent"
  BY <1>a, <1>c
<1>3. Types
  <2>1. now \in 0..MaxTime /\ drafts \in 0..MaxDrafts
    BY <1>b, BoundsAre
  <2>3. occ \in [Times -> Occurrence]
    BY <1>a, <1>c
  <2>4. \E i \in Nat : MadeUpTo(occ, i)
    <3>1. MadeUpTo(occ, 0)
      BY <1>2 DEF MadeUpTo
    <3>2. QED
      BY <3>1
  <2>5. cards \subseteq Card
    BY <1>b
  <2>6. QED
    BY <1>b, <1>d, <1>e, <1>f, <2>1, <2>3, <2>4, <2>5, NoReminderIs, NoPlanIs, NoDraftIs DEF Types, TypesOf
<1>4. Agree
  <2>1. \A i \in Plans : Pending(steps, i) = {}
    <3>1. \A i \in Plans, t \in Times : steps[<<i, t>>] # "pending"
      BY <1>e DEF Keys
    <3>2. QED
      BY <3>1 DEF Pending
  <2>2. Pending(steps, 0) = {}
    BY BoundsAre DEF Pending, Plans
  <2>3. rem.status = "absent" /\ rem.rev = 0 /\ plan.state = "none" /\ plan.rev = 0
        /\ mirror = Mirror(plan, Null)
    BY <1>b, NoReminderIs, NoPlanIs
  <2>4. QED
    BY <2>1, <2>2, <2>3 DEF Agree, Agreement
<1>5. Claims
  <2>1. rem.token = 0 /\ rem.rev = 0 /\ plan.rev = 0 /\ rem.status # "processing"
    BY <1>b, NoReminderIs, NoPlanIs DEF Null
  <2>2. \A w \in Workers : worker[w].pc = "idle" /\ worker[w].token = 0 /\ worker[w].step[1] = 0
    BY <1>d, IdleIs
  <2>3. Tokens
    BY <2>1, <2>2 DEF Tokens
  <2>4. Held /\ Calls
    BY <2>1, <2>2 DEF Held, Calls, Holds
  <2>5. QED
    BY <2>3, <2>4 DEF Claims
<1>6. Once
  <2>1. \A k \in Keys : sends[k] = 0
    BY <1>f
  <2>2. \A w \in Workers : worker[w].pc = "idle"
    BY <1>d, IdleIs
  <2>3. SentOnce
    <3>1. \A k \in Keys : sends[k] <= 1
      BY <2>1
    <3>2. QED
      BY <3>1 DEF SentOnce
  <2>4. Spent(sends) /\ Unsent
    BY <2>1, <2>2 DEF Spent, Unsent
  <2>5. QED
    BY <2>3, <2>4 DEF Once
<1>7. QED
  BY <1>3, <1>4, <1>5, <1>6 DEF IInv

LEMMA WorkStep ==
  ASSUME IInv, NEW w \in Workers, Work(w)
  PROVE  IInv'
<1>1. CASE Renew(w)
  BY <1>1, RenewStep
<1>2. CASE Prepare(w)
  BY <1>2, PrepareStep
<1>3. CASE Send(w)
  BY <1>3, SendStep
<1>4. CASE Record(w)
  BY <1>4, RecordStep
<1>5. CASE FinalizeSuccess(w)
  BY <1>5, SuccessStep
<1>6. CASE FinalizeFailure(w)
  BY <1>6, FailureStep
<1>7. QED
  BY <1>1, <1>2, <1>3, <1>4, <1>5, <1>6 DEF Work

LEMMA NextStep ==
  ASSUME IInv, [Next]_vars
  PROVE  IInv'
<1>1. CASE Drafting
  <2>1. ASSUME NEW q \in Requests, CreateDraft(q), now' = now PROVE IInv'
    BY <2>1, CreateStep
  <2>2. ASSUME DropDraft, now' = now PROVE IInv'
    BY <2>2, DropStep
  <2>3. ASSUME NEW i \in 1..MaxDrafts, Confirm(i), now' = now PROVE IInv'
    BY <2>3, ConfirmStep
  <2>4. QED
    BY <1>1, <2>1, <2>2, <2>3 DEF Drafting
<1>2. CASE Event
  <2>1. now' = now
    BY <1>2 DEF Event
  <2>2. CASE Act /\ UNCHANGED <<cards, worker, book>>
    BY <2>1, <2>2, ActStep DEF book
  <2>3. CASE List /\ UNCHANGED <<worker, sends, book>>
    BY <2>1, <2>3, ListStep
  <2>4. ASSUME NEW w \in Workers, Crash(w) PROVE IInv'
    BY <2>1, <2>4, CrashStep
  <2>5. QED
    BY <1>2, <2>2, <2>3, <2>4 DEF Event
<1>3. CASE Tick
  BY <1>3, TickStep
<1>4. ASSUME NEW w \in Workers, ClaimDue(w) PROVE IInv'
  BY <1>4, ClaimDueStep
<1>5. ASSUME NEW w \in Workers, Work(w) PROVE IInv'
  BY <1>5, WorkStep
<1>6. CASE UNCHANGED vars
  <2>1. /\ UNCHANGED <<row, occ, sends, now>> /\ worker' = worker /\ draft' = draft
        /\ drafts' = drafts /\ cards' = cards
    BY <1>6 DEF vars, row
  <2>2. QED
    BY <2>1, Shapes, QuietStep DEF IInv
<1>7. QED
  BY <1>1, <1>2, <1>3, <1>4, <1>5, <1>6 DEF Next

LEMMA Invariance == Spec => []IInv
<1>1. IInv /\ [Next]_vars => IInv'
  BY NextStep
<1>2. QED
  BY <1>1, InitHolds, PTL DEF Spec

-----------------------------------------------------------------------------
(* What they show                                                          *)

\* Every variable keeps its type, for any requests the plan's own checks let
\* through and any number of workers.
THEOREM TypeCorrect == Spec => []TypeOK
<1>1. IInv => TypeOK
  <2>1. SUFFICES ASSUME IInv PROVE TypeOK
    OBVIOUS
  <2>2. draft \in DraftState /\ \A w \in Workers : worker[w].pc \in PCs
    BY <2>1, WorkersAre DEF IInv, Types, TypesOf
  <2>3. draft.pending \union draft.skipped \subseteq Times
    BY <2>2 DEF DraftState
  <2>4. QED
    BY <2>1, <2>2, <2>3 DEF TypeOK, IInv, Types, TypesOf
<1>2. QED
  BY <1>1, Invariance, PTL

\* The seven operations that write the plan, its copy in the row and the row
\* itself (confirm, the claim that skips steps, the success and the failure of
\* a delivery, done, disable and enable, edit, delete) never let them disagree.
THEOREM PlanAndRow == Spec => []PlanAndRowAgree
<1>1. IInv => PlanAndRowAgree
  BY DEF IInv, Agree, Agreement, PlanAndRowAgree
<1>2. QED
  BY <1>1, Invariance, PTL

\* finalize_delivery_success never commits its first half alone: a worker that
\* still owns the row at its end finds the step it was for.
THEOREM StepIsFound == Spec => []FinalizeFindsItsStep
<1>1. IInv => FinalizeFindsItsStep
  BY StepFound DEF FinalizeFindsItsStep
<1>2. QED
  BY <1>1, Invariance, PTL

\* A step is one message at the most while its plan stays on, through crashes,
\* lost answers, retries and takeovers, whatever the lease and the retry delay.
THEOREM StepsGoOutOnce == Spec => []SentOnce
<1>1. IInv => SentOnce
  BY DEF IInv, Once
<1>2. QED
  BY <1>1, Invariance, PTL

\* Only the Telegram call of a worker raises sends.
LEMMA OnlySendSends ==
  ASSUME IInv, [Next]_vars, NEW k \in Keys, sends'[k] > sends[k]
  PROVE  \E w \in Workers : Send(w) /\ k = worker[w].step
<1>1. sends \in [Keys -> Nat] /\ ~ (sends[k] > sends[k]) /\ sends' # sends
  BY Shapes DEF IInv
<1>2. ASSUME NEW c \in cards, Enable(c) PROVE FALSE
  <2>1. sends' = [sends EXCEPT ![<<plan.rev, plan.current>>] = 0]
    BY <1>2 DEF Enable
  <2>2. sends'[k] \in {0, sends[k]} /\ sends[k] \in Nat
    BY <1>1, <2>1
  <2>3. QED
    BY <2>2
<1>3. ASSUME NEW w \in Workers, Send(w) PROVE k = worker[w].step
  <2>1. sends' \in {sends, [sends EXCEPT ![worker[w].step] = @ + 1]}
    BY <1>3 DEF Send
  <2>2. QED
    BY <1>1, <2>1
<1>4. \E w \in Workers : Send(w)
  <2>1. ~ Drafting
    BY <1>1 DEF Drafting, CreateDraft, DropDraft, Confirm
  <2>2. ~ Event
    BY <1>1, <1>2 DEF Event, Act, Crash
  <2>3. ~ Tick
    BY <1>1 DEF Tick
  <2>4. ASSUME NEW w \in Workers, ClaimDue(w) PROVE FALSE
    BY <1>1, <2>4 DEF ClaimDue, Reconcile, Exhaust, ClaimRow
  <2>5. ASSUME NEW w \in Workers, Work(w) PROVE Send(w)
    BY <1>1, <2>5 DEF Work, Renew, Prepare, Record, FinalizeSuccess, FinalizeFailure
  <2>6. ~ UNCHANGED vars
    BY <1>1 DEF vars
  <2>7. QED
    BY <2>1, <2>2, <2>3, <2>4, <2>5, <2>6 DEF Next
<1>5. QED
  BY <1>3, <1>4

\* A message is for a pending step of the plan as it is when the call begins,
\* although the worker took the row, the lease and the occurrence in earlier
\* transactions.
THEOREM MessagesAreDue == Spec => MessagesFollowThePlan
<1> DEFINE P == \A k \in Keys : sends'[k] > sends[k] =>
                  \/ rem.state = "cancelled"
                  \/ plan.state = "active" /\ k[1] = plan.rev /\ steps[k] = "pending"
<1>1. IInv /\ [Next]_vars => P
  <2>1. SUFFICES ASSUME IInv, [Next]_vars, NEW k \in Keys, sends'[k] > sends[k],
                        rem.state # "cancelled"
                 PROVE  plan.state = "active" /\ k[1] = plan.rev /\ steps[k] = "pending"
    OBVIOUS
  <2>2. PICK w \in Workers : Send(w) /\ k = worker[w].step
    BY <2>1, OnlySendSends
  <2>3. Types /\ Agree /\ Claims /\ worker[w].pc = "send"
    BY <2>1, <2>2 DEF IInv, Send
  <2>4. Holds(w)
    BY <2>1, <2>3 DEF Claims, Calls
  <2>5. /\ plan.state = "active" /\ k = <<plan.rev, rem.at>>
        /\ steps[<<plan.rev, rem.at>>] = "pending"
    BY <2>2, <2>3, <2>4, HoldsIs
  <2>6. QED
    BY <2>5
<1> HIDE DEF P
<1>2. Spec => [][P]_vars
  BY <1>1, Invariance, PTL DEF Spec
<1>3. QED
  BY <1>2 DEF P, MessagesFollowThePlan
=============================================================================
