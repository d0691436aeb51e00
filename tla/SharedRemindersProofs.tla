----------------------- MODULE SharedRemindersProofs -----------------------
(***************************************************************************)
(* The shared reminder, for any number of people, links, workers and       *)
(* attempts.  The invariants come in layers: the types, with the bounds on *)
(* revisions that the rest needs; the memberships and their locks; the     *)
(* buttons; and the fan-out.                                               *)
(***************************************************************************)
EXTENDS SharedReminders, FiniteSetTheorems, WellFoundedInduction, TLAPS

\* The delivery rows of an occurrence of revision n: none is ahead of it.
Rows(n) == {rows \in [Keys -> Delivery] : \A k \in Keys : rows[k].rev <= n}

\* An active membership is of a generation that has delivery rows.
Generation == {m \in Membership : m.state = "active" => m.rev \in 1..MaxRevision}

WorkerState ==
  [pc : Steps, token : Nat, todo : SUBSET Keys, key : Keys, keyRev : Nat,
   transient : BOOLEAN, terminal : BOOLEAN, msg : Nat]

LinkStates == {"unused", "pending", "accepted", "revoked", "expired"}
Opening == {Closed} \union [link : Invites, seen : LinkStates]

TypesOf(r, o, d, m, i, w, op, rd, c, a, ad, cf) ==
  /\ r \in Reminder /\ o \in Occurrence /\ d \in Rows(o.rev)
  /\ m \in [Participants -> Generation] /\ i \in [Invites -> Invite]
  /\ w \in [Workers -> WorkerState]
  /\ op \in [Participants -> Opening] /\ rd \in [Participants -> Card]
  /\ c \subseteq Card /\ IsFiniteSet(c)
  /\ \A x \in a : x.card \in Card
  /\ ad \in [Invites -> SUBSET Participants] /\ cf \subseteq Keys

Types == TypesOf(rem, occ, deliv, member, invite, worker, opening, reading, cards, acts,
                 admitted, confirmed)

-----------------------------------------------------------------------------
(* What the operators make of rows, memberships and revisions               *)

LEMMA KeysAre ==
  /\ OwnerKey \in Keys /\ \A p \in Participants, n \in 1..MaxRevision : <<p, n>> \in Keys
  /\ \A k \in Keys : k = <<k[1], k[2]>> /\ k[1] \in Nat /\ k[2] \in Nat
                     /\ (k = OwnerKey \/ (k[1] \in Participants /\ k[2] \in 1..MaxRevision))
  /\ \A k \in Keys : k[1] = Owner => k = OwnerKey
  /\ Owner \notin Participants
<1>1. Owner \notin Participants /\ Participants \subseteq Nat /\ MaxRevision \in Nat
  BY SharingAssumption DEF Owner
<1>2. OwnerKey \in Keys /\ \A p \in Participants, n \in 1..MaxRevision : <<p, n>> \in Keys
  BY DEF Keys
<1>3. ASSUME NEW k \in Keys
      PROVE  /\ k = <<k[1], k[2]>> /\ k[1] \in Nat /\ k[2] \in Nat
             /\ k = OwnerKey \/ (k[1] \in Participants /\ k[2] \in 1..MaxRevision)
             /\ k[1] = Owner => k = OwnerKey
  <2>1. CASE k = OwnerKey
    BY <2>1 DEF OwnerKey, Owner
  <2>2. CASE k \in Participants \X (1..MaxRevision)
    <3>1. PICK p \in Participants, n \in 1..MaxRevision : k = <<p, n>>
      BY <2>2
    <3>2. p \in Nat /\ n \in Nat /\ p # Owner
      BY <1>1
    <3>3. k[1] = p /\ k[2] = n
      BY <3>1
    <3>4. QED
      BY <3>1, <3>2, <3>3
  <2>3. QED
    BY <2>1, <2>2 DEF Keys
<1>4. QED
  BY <1>1, <1>2, <1>3

LEMMA MaxOfTwo ==
  ASSUME NEW m \in Nat, NEW n \in Nat
  PROVE  Max({m, n}) \in {m, n} /\ Max({m, n}) >= m /\ Max({m, n}) >= n
<1>1. \E x \in {m, n} : \A y \in {m, n} : x >= y
  <2>1. CASE m >= n
    BY <2>1
  <2>2. CASE n >= m
    BY <2>2
  <2>3. QED
    BY <2>1, <2>2
<1>2. QED
  BY <1>1 DEF Max

\* The revision every recipient is reset to is the one the occurrence has.
LEMMA SharedRevisionIs ==
  ASSUME occ \in Occurrence, deliv \in Rows(occ.rev)
  PROVE  SharedRevision = occ.rev
<1> DEFINE all == {occ.rev} \union {deliv[k].rev : k \in Sent(deliv)}
<1>1. occ.rev \in Nat /\ \A x \in all : x \in Nat /\ x <= occ.rev
  BY DEF Occurrence, Rows, Delivery, Sent
<1>2. occ.rev \in all
  OBVIOUS
<1> HIDE DEF all
<1>3. \E x \in all : \A y \in all : x >= y
  BY <1>1, <1>2
<1>4. Max(all) \in all /\ \A y \in all : Max(all) >= y
  BY <1>3 DEF Max
<1>5. Max(all) = occ.rev
  BY <1>1, <1>2, <1>4
<1>6. QED
  BY <1>5 DEF SharedRevision, all

LEMMA RowsGrow ==
  ASSUME NEW m \in Nat, NEW n \in Nat, m <= n
  PROVE  Rows(m) \subseteq Rows(n)
BY DEF Rows, Delivery

LEMMA RowsAre ==
  ASSUME NEW n \in Nat, NEW rows \in Rows(n)
  PROVE  /\ rows \in [Keys -> Delivery]
         /\ \A k \in Keys : rows[k] \in Delivery /\ rows[k].rev \in Nat /\ rows[k].rev <= n
BY DEF Rows, Delivery

\* Rows one by one.
LEMMA RowsMade ==
  ASSUME NEW n \in Nat, NEW rows, rows = [k \in Keys |-> rows[k]],
         \A k \in Keys : rows[k] \in Delivery /\ rows[k].rev <= n
  PROVE  rows \in Rows(n)
<1>1. rows \in [Keys -> Delivery]
  OBVIOUS
<1>2. QED
  BY <1>1 DEF Rows

\* One row changes.
LEMMA RowChanged ==
  ASSUME NEW n \in Nat, NEW rows \in Rows(n), NEW k \in Keys, NEW d \in Delivery, d.rev <= n
  PROVE  /\ [rows EXCEPT ![k] = d] \in Rows(n) /\ [rows EXCEPT ![k] = d][k] = d
         /\ \A j \in Keys : j # k => [rows EXCEPT ![k] = d][j] = rows[j]
<1>1. rows \in [Keys -> Delivery] /\ \A j \in Keys : rows[j].rev <= n
  BY DEF Rows
<1> DEFINE new == [rows EXCEPT ![k] = d]
<1>2. new \in [Keys -> Delivery] /\ new[k] = d /\ \A j \in Keys : j # k => new[j] = rows[j]
  BY <1>1
<1> HIDE DEF new
<1>3. \A j \in Keys : new[j].rev <= n
  BY <1>1, <1>2
<1>4. new \in Rows(n)
  BY <1>2, <1>3 DEF Rows
<1>5. QED
  BY <1>2, <1>4 DEF new

LEMMA NoDeliveryIs ==
  NoDelivery \in Delivery /\ NoDelivery.rev = 0 /\ NoDelivery.state = "absent"
BY DEF NoDelivery, Delivery, Null

LEMMA CancelledRow ==
  ASSUME NEW d \in Delivery
  PROVE  Cancelled(d) \in Delivery /\ Cancelled(d).rev = d.rev /\ Cancelled(d).state = "cancelled"
BY DEF Cancelled, Delivery, Null

LEMMA FreshRow ==
  ASSUME NEW d \in Delivery, NEW n \in Nat
  PROVE  Fresh(d, n) \in Delivery /\ Fresh(d, n).rev = n /\ Fresh(d, n).state = "pending"
BY DEF Fresh, Delivery, Null

\* The fence lets no row of the generations that end go on.
LEMMA FencedRows ==
  ASSUME NEW n \in Nat, NEW rows \in Rows(n), NEW ps
  PROVE  /\ Fenced(ps, rows) \in Rows(n)
         /\ \A k \in Keys :
              \/ Fenced(ps, rows)[k] = rows[k]
                 /\ ~(k[1] \in ps /\ k[2] = member[k[1]].rev /\ rows[k].state \in Unfinished)
              \/ rows[k].state \in Unfinished /\ Fenced(ps, rows)[k] = Cancelled(rows[k])
                 /\ Fenced(ps, rows)[k].state = "cancelled"
<1>1. \A k \in Keys : /\ rows[k] \in Delivery /\ rows[k].rev <= n
                      /\ Cancelled(rows[k]) \in Delivery /\ Cancelled(rows[k]).rev = rows[k].rev
                      /\ Cancelled(rows[k]).state = "cancelled"
  BY RowsAre, CancelledRow
<1>2. \A k \in Keys : Fenced(ps, rows)[k] =
        IF k[1] \in ps /\ k[2] = member[k[1]].rev /\ rows[k].state \in Unfinished
        THEN Cancelled(rows[k]) ELSE rows[k]
  BY DEF Fenced
<1>3. Fenced(ps, rows) = [k \in Keys |-> Fenced(ps, rows)[k]]
  BY DEF Fenced
<1>4. Fenced(ps, rows) \in Rows(n)
  <2> DEFINE f == Fenced(ps, rows)
  <2>1. \A k \in Keys : f[k] \in Delivery /\ f[k].rev <= n
    BY <1>1, <1>2
  <2>2. f = [k \in Keys |-> f[k]]
    BY <1>3
  <2> HIDE DEF f
  <2>3. f \in Rows(n)
    BY <2>1, <2>2, RowsMade
  <2>4. QED
    BY <2>3 DEF f
<1>5. QED
  BY <1>1, <1>2, <1>4

LEMMA RowMap ==
  ASSUME NEW n \in Nat, NEW f, f = [k \in Keys |-> f[k]],
         NEW rows \in Rows(n),
         \A k \in Keys : \/ f[k] = rows[k] \/ f[k] = Cancelled(rows[k]) \/ f[k] = NoDelivery
                         \/ \E m \in 0..n : f[k] = Fresh(rows[k], m)
                         \/ f[k] \in Delivery /\ f[k].rev = rows[k].rev
  PROVE  f \in Rows(n)
<1>1. ASSUME NEW k \in Keys PROVE f[k] \in Delivery /\ f[k].rev <= n
  <2>1. rows[k] \in Delivery /\ rows[k].rev \in Nat /\ rows[k].rev <= n
    BY RowsAre
  <2>2. CASE f[k] = rows[k] \/ (f[k] \in Delivery /\ f[k].rev = rows[k].rev)
    BY <2>1, <2>2
  <2>3. CASE f[k] = Cancelled(rows[k])
    BY <2>1, <2>3, CancelledRow
  <2>4. CASE f[k] = NoDelivery
    BY <2>4, NoDeliveryIs
  <2>5. ASSUME NEW m \in 0..n, f[k] = Fresh(rows[k], m) PROVE f[k] \in Delivery /\ f[k].rev <= n
    BY <2>1, <2>5, FreshRow
  <2>6. QED
    BY <2>2, <2>3, <2>4, <2>5
<1>2. QED
  BY <1>1, RowsMade

LEMMA CancelRowsAre ==
  ASSUME NEW n \in Nat, NEW rows \in Rows(n)
  PROVE  /\ CancelRows(rows) \in Rows(n)
         /\ \A k \in Keys : CancelRows(rows)[k] = IF rows[k].state \in Unfinished
                                                  THEN Cancelled(rows[k]) ELSE rows[k]
<1>1. \A k \in Keys : CancelRows(rows)[k] = IF rows[k].state \in Unfinished
                                            THEN Cancelled(rows[k]) ELSE rows[k]
  BY DEF CancelRows
<1>2. CancelRows(rows) = [k \in Keys |-> CancelRows(rows)[k]]
  BY DEF CancelRows
<1> DEFINE f == CancelRows(rows)
<1>3. f = [k \in Keys |-> f[k]] /\ \A k \in Keys : f[k] = rows[k] \/ f[k] = Cancelled(rows[k])
  BY <1>1, <1>2
<1> HIDE DEF f
<1>4. f \in Rows(n)
  BY <1>3, RowMap
<1>5. QED
  BY <1>1, <1>4 DEF f

LEMMA ReconciledRows ==
  ASSUME NEW n \in Nat, NEW rows \in Rows(n)
  PROVE  /\ Reconciled(rows) \in Rows(n)
         /\ \A k \in Keys : /\ Reconciled(rows)[k].state # "processing"
                            /\ Reconciled(rows)[k].state = "sent" <=> rows[k].state = "sent"
                            /\ rows[k].state = "sent" => Reconciled(rows)[k] = rows[k]
<1> DEFINE ended(d) == [d EXCEPT !.state = "failed", !.terminal = TRUE, !.token = Null, !.live = FALSE]
           f == Reconciled(rows)
<1>1. ASSUME NEW d \in Delivery PROVE ended(d) \in Delivery /\ ended(d).rev = d.rev /\ ended(d).state = "failed"
  BY DEF Delivery, Null
<1>2. \A k \in Keys : f[k] = IF rows[k].state \in Unfinished \union {"failed"} THEN ended(rows[k]) ELSE rows[k]
  BY DEF Reconciled
<1>3. f = [k \in Keys |-> f[k]]
  BY DEF Reconciled
<1>4. \A k \in Keys : rows[k] \in Delivery
  BY RowsAre
<1> HIDE DEF ended, f
<1>5. \A k \in Keys : f[k] = rows[k] \/ (f[k] \in Delivery /\ f[k].rev = rows[k].rev)
  BY <1>1, <1>2, <1>4
<1>6. f \in Rows(n)
  BY <1>3, <1>5, RowMap
<1>7. \A k \in Keys : /\ f[k].state # "processing" /\ (f[k].state = "sent" <=> rows[k].state = "sent")
                      /\ rows[k].state = "sent" => f[k] = rows[k]
  BY <1>1, <1>2, <1>4 DEF Unfinished
<1>8. QED
  BY <1>6, <1>7 DEF f

LEMMA PreparedRow ==
  ASSUME NEW d \in Delivery, NEW n \in Nat
  PROVE  /\ Prepared(d, n) = d \/ Prepared(d, n) = Fresh(d, n)
         /\ d.state = "sent" => Prepared(d, n) = d
         /\ Prepared(d, n) \in Delivery
         /\ Prepared(d, n).state = "sent" => d.state = "sent"
         /\ Prepared(d, n).state = "processing" => d.state = "processing" /\ Prepared(d, n) = d
BY FreshRow DEF Prepared, Settled

LEMMA ResetRowsAre ==
  ASSUME NEW n \in Nat, deliv \in Rows(n), ResetRows
  PROVE  /\ deliv' \in Rows(n) /\ confirmed' = {}
         /\ \A k \in Keys : deliv'[k].state \in {"absent", "pending"}
<1>1. deliv' = [k \in Keys |-> IF deliv[k].state = "absent" THEN NoDelivery ELSE Fresh(deliv[k], 0)]
  BY DEF ResetRows
<1>2. \A k \in Keys : deliv[k] \in Delivery
  BY RowsAre
<1>3. \A k \in Keys : deliv'[k] = NoDelivery \/ deliv'[k] = Fresh(deliv[k], 0)
  BY <1>1
<1>4. deliv' = [k \in Keys |-> deliv'[k]]
  BY <1>1
<1>5. 0 \in 0..n
  OBVIOUS
<1>6. deliv' \in Rows(n)
  BY <1>3, <1>4, <1>5, RowMap
<1>7. \A k \in Keys : deliv'[k].state \in {"absent", "pending"}
  BY <1>2, <1>3, NoDeliveryIs, FreshRow
<1>8. QED
  BY <1>6, <1>7 DEF ResetRows

LEMMA RevokedMembers ==
  ASSUME member \in [Participants -> Generation], NEW ps \in SUBSET Participants
  PROVE  /\ Revoked(ps) \in [Participants -> Generation]
         /\ \A p \in Participants : /\ p \in ps => Revoked(ps)[p].state = "revoked"
                                    /\ p \notin ps => Revoked(ps)[p] = member[p]
<1> DEFINE out(m) == [m EXCEPT !.state = "revoked", !.rev = m.rev + 1]
           f == Revoked(ps)
<1>1. ASSUME NEW m \in Generation PROVE out(m) \in Generation /\ out(m).state = "revoked"
  <2>1. m \in Membership
    BY DEF Generation
  <2>2. m.rev + 1 \in Nat
    BY <2>1 DEF Membership
  <2>3. out(m) \in Membership /\ out(m).state = "revoked"
    BY <2>1, <2>2 DEF Membership
  <2> HIDE DEF out
  <2>4. QED
    BY <2>3 DEF Generation
<1>2. f = [p \in Participants |-> IF p \in ps THEN out(member[p]) ELSE member[p]]
  BY DEF Revoked
<1> HIDE DEF out, f
<1>3. \A p \in Participants : f[p] = IF p \in ps THEN out(member[p]) ELSE member[p]
  BY <1>2
<1>4. \A p \in Participants : f[p] \in Generation
  BY <1>1, <1>3
<1>5. f \in [Participants -> Generation]
  BY <1>2, <1>4
<1>6. QED
  BY <1>1, <1>3, <1>5 DEF f

-----------------------------------------------------------------------------
(* Types                                                                    *)

LEMMA IdleIs ==
  Idle \in WorkerState /\ Idle.pc = "idle" /\ Idle.token = Null /\ Idle.todo = {}
<1>1. OwnerKey \in Keys /\ {} \subseteq Keys
  BY KeysAre
<1>2. QED
  BY <1>1 DEF Idle, WorkerState, Steps, Null

LEMMA InitTypes ==
  ASSUME Init
  PROVE  Types
<1>1. /\ rem \in Reminder /\ occ \in Occurrence /\ occ.rev = 0
  BY DEF Init, Reminder, Occurrence, Null, Live
<1>2. \A k \in Keys : deliv[k] \in Delivery /\ deliv[k].rev <= occ.rev
  BY <1>1, NoDeliveryIs DEF Init
<1>3. deliv \in Rows(occ.rev)
  BY <1>1, <1>2, RowsMade DEF Init
<1>4. member \in [Participants -> Generation]
  <2>1. [state |-> "active", rev |-> 1, id |-> 0] \in Generation
        /\ [state |-> "none", rev |-> 0, id |-> 0] \in Generation
    BY SharingAssumption DEF Generation, Membership
  <2>2. QED
    BY <2>1 DEF Init
<1>5. invite \in [Invites -> Invite]
  <2>1. NoInvite \in Invite /\ [NoInvite EXCEPT !.state = "pending"] \in Invite
    BY DEF NoInvite, Invite, Null
  <2>2. QED
    BY <2>1 DEF Init
<1>6. worker \in [Workers -> WorkerState]
  BY IdleIs DEF Init
<1>7. opening \in [Participants -> Opening] /\ reading \in [Participants -> Card]
  BY DEF Init, Closed, Opening, LinkStates, NoCard, Card
<1>8. cards \subseteq Card /\ IsFiniteSet(cards) /\ acts = {} /\ confirmed = {}
  BY FS_EmptySet DEF Init
<1>9. admitted \in [Invites -> SUBSET Participants]
  BY DEF Init
<1>10. \A a \in acts : a.card \in Card
  BY <1>8
<1>11. confirmed \subseteq Keys
  BY <1>8
<1>12. QED
  BY <1>1, <1>3, <1>4, <1>5, <1>6, <1>7, <1>8, <1>9, <1>10, <1>11 DEF Types, TypesOf

LEMMA TypesImplyTypeOK ==
  ASSUME Types
  PROVE  TypeOK
<1>1. \A w \in Workers : worker[w] \in WorkerState
  BY DEF Types, TypesOf
<1>2. \A w \in Workers : worker[w].pc \in Steps /\ worker[w].todo \subseteq Keys
  BY <1>1 DEF WorkerState
<1>3. deliv \in [Keys -> Delivery] /\ member \in [Participants -> Membership]
  BY DEF Types, TypesOf, Rows, Generation
<1>4. QED
  BY <1>2, <1>3 DEF Types, TypesOf, TypeOK

LEMMA Shapes ==
  ASSUME Types
  PROVE  /\ rem \in Reminder /\ rem.rev \in Nat /\ occ \in Occurrence /\ occ.rev \in Nat
         /\ deliv \in Rows(occ.rev) /\ \A k \in Keys : deliv[k] \in Delivery
         /\ member \in [Participants -> Generation] /\ \A p \in Participants : member[p] \in Generation
         /\ invite \in [Invites -> Invite] /\ \A i \in Invites : invite[i] \in Invite
         /\ worker \in [Workers -> WorkerState] /\ \A w \in Workers : worker[w] \in WorkerState
         /\ opening \in [Participants -> Opening] /\ \A p \in Participants : opening[p] \in Opening
         /\ reading \in [Participants -> Card]
         /\ cards \subseteq Card /\ IsFiniteSet(cards)
         /\ \A a \in acts : a.card \in Card
         /\ admitted \in [Invites -> SUBSET Participants] /\ confirmed \subseteq Keys
BY RowsAre DEF Types, TypesOf, Reminder, Occurrence

\* A later revision of the occurrence leaves the rows below it.
LEMMA RowsKept ==
  ASSUME Types, occ' \in Occurrence, occ.rev <= occ'.rev
  PROVE  Rows(occ.rev) \subseteq Rows(occ'.rev) /\ deliv \in Rows(occ'.rev)
<1>1. occ.rev \in Nat /\ occ'.rev \in Nat
  BY Shapes DEF Occurrence
<1>2. QED
  BY <1>1, Shapes, RowsGrow

\* One worker goes on, keeping the rest of what it remembers, or stops.
LEMMA WorkerChanged ==
  ASSUME Types, NEW w \in Workers, NEW a \in WorkerState, worker' = [worker EXCEPT ![w] = a]
  PROVE  /\ worker' \in [Workers -> WorkerState] /\ worker'[w] = a
         /\ \A u \in Workers : u # w => worker'[u] = worker[u]
BY Shapes

LEMMA GoToIs ==
  ASSUME Types, NEW w \in Workers, NEW pc \in Steps, GoTo(w, pc)
  PROVE  /\ worker' \in [Workers -> WorkerState] /\ worker'[w].pc = pc
         /\ worker'[w] = [worker[w] EXCEPT !.pc = pc]
         /\ \A u \in Workers : u # w => worker'[u] = worker[u]
<1> DEFINE a == [worker[w] EXCEPT !.pc = pc]
<1>1. a \in WorkerState /\ a.pc = pc
  BY Shapes DEF WorkerState
<1>2. worker' = [worker EXCEPT ![w] = a]
  BY Shapes DEF GoTo
<1> HIDE DEF a
<1>3. /\ worker' \in [Workers -> WorkerState] /\ worker'[w] = a
      /\ \A u \in Workers : u # w => worker'[u] = worker[u]
  BY <1>1, <1>2, WorkerChanged
<1>4. QED
  BY <1>1, <1>3 DEF a

LEMMA StopIs ==
  ASSUME Types, NEW w \in Workers, Stop(w)
  PROVE  /\ worker' \in [Workers -> WorkerState] /\ worker'[w] = Idle
         /\ \A u \in Workers : u # w => worker'[u] = worker[u]
BY IdleIs, WorkerChanged DEF Stop

LEMMA ToNextIs ==
  ASSUME Types, NEW w \in Workers, NEW b \in BOOLEAN, ToNext(w, b)
  PROVE  /\ worker' \in [Workers -> WorkerState] /\ worker'[w].pc = "next"
         /\ worker'[w].token = worker[w].token /\ worker'[w].todo = worker[w].todo
         /\ \A u \in Workers : u # w => worker'[u] = worker[u]
<1> DEFINE a == [worker[w] EXCEPT !.pc = "next", !.key = OwnerKey, !.keyRev = 0, !.msg = Null,
                                  !.transient = worker[w].transient \/ b]
<1>1. worker[w] \in WorkerState /\ OwnerKey \in Keys
  BY Shapes, KeysAre
<1>2. a \in WorkerState /\ a.pc = "next" /\ a.token = worker[w].token /\ a.todo = worker[w].todo
  BY <1>1 DEF WorkerState, Steps, Null
<1>3. worker' = [worker EXCEPT ![w] = a]
  BY Shapes DEF ToNext
<1> HIDE DEF a
<1>4. QED
  BY <1>2, <1>3, WorkerChanged

-----------------------------------------------------------------------------
(* Types: memberships, links and cards                                      *)

LEMMA CreateInviteTypes ==
  ASSUME Types, NEW i \in Invites, CreateInvite(i)
  PROVE  Types'
<1>1. invite' \in [Invites -> Invite]
  BY Shapes DEF CreateInvite, Invite
<1>2. QED
  BY <1>1, Shapes DEF CreateInvite, Types, TypesOf

LEMMA RevokeInviteTypes ==
  ASSUME Types, NEW i \in Invites, RevokeInvite(i)
  PROVE  Types'
<1>1. invite' \in [Invites -> Invite]
  BY Shapes DEF RevokeInvite, Invite
<1>2. QED
  BY <1>1, Shapes DEF RevokeInvite, Types, TypesOf

LEMMA OpenLinkTypes ==
  ASSUME Types, NEW p \in Participants, NEW i \in Invites, OpenLink(p, i)
  PROVE  Types'
<1>1. [link |-> i, seen |-> invite[i].state] \in Opening
  BY Shapes DEF Opening, LinkStates, Invite
<1>2. opening' \in [Participants -> Opening]
  BY <1>1, Shapes DEF OpenLink
<1>3. QED
  BY <1>2, Shapes DEF OpenLink, Types, TypesOf

LEMMA JoinedIs ==
  ASSUME NEW m \in Generation, m.rev < MaxRevision
  PROVE  Joined(m) \in Generation /\ Joined(m).state = "active" /\ Joined(m).rev = m.rev + 1
<1>1. m \in Membership /\ m.rev \in Nat /\ MaxRevision \in Nat
  BY SharingAssumption DEF Generation, Membership
<1>2. m.rev + 1 \in Nat /\ m.rev + 1 \in 1..MaxRevision
  BY <1>1
<1>3. Joined(m) \in Membership /\ Joined(m).state = "active" /\ Joined(m).rev = m.rev + 1
  BY <1>1, <1>2 DEF Joined, Membership
<1>4. QED
  BY <1>2, <1>3 DEF Generation

\* What becomes of the link and the memberships when p answers link i.
LEMMA AcceptedIs ==
  ASSUME Types, NEW p \in Participants, NEW i \in Invites, member[p].rev < MaxRevision,
         NEW seen, Accepted(p, i, seen)
  PROVE  \/ /\ \/ invite' = invite
               \/ \E s \in {"expired", "revoked"} : invite' = [invite EXCEPT ![i].state = s]
               \/ seen = "pending" /\ invite' = [invite EXCEPT ![i].state = "accepted", ![i].by = p]
            /\ member' = member /\ admitted' = admitted
         \/ /\ seen = "pending" /\ Supported /\ p \notin Members /\ Cardinality(Members) < Limit
            /\ invite' = [invite EXCEPT ![i].state = "accepted", ![i].by = p]
            /\ member' = [member EXCEPT ![p] = Joined(member[p])]
            /\ admitted' = [admitted EXCEPT ![i] = admitted[i] \union {p}]
<1>1. CASE ~Supported
  BY <1>1 DEF Accepted
<1>2. CASE Supported /\ seen # "pending"
  BY <1>2 DEF Accepted
<1>3. CASE Supported /\ seen = "pending"
  <2>1. member \in [Participants -> Generation] /\ admitted \in [Invites -> SUBSET Participants]
    BY Shapes
  <2>2. QED
    BY <1>3, <2>1 DEF Accepted
<1>4. QED
  BY <1>1, <1>2, <1>3

LEMMA AcceptInviteTypes ==
  ASSUME Types, NEW p \in Participants, AcceptInvite(p)
  PROVE  Types'
<1> DEFINE i == opening[p].link
           seen == opening[p].seen
<1>1. Accepted(p, i, seen) /\ member[p].rev < MaxRevision /\ i \in Invites
  BY Shapes DEF AcceptInvite, Opening
<1>2. opening' \in [Participants -> Opening]
  BY Shapes DEF AcceptInvite, Closed, Opening, LinkStates
<1>3. invite' \in [Invites -> Invite]
  <2>1. invite' = invite \/ (\E s \in {"expired", "revoked"} : invite' = [invite EXCEPT ![i].state = s])
        \/ invite' = [invite EXCEPT ![i].state = "accepted", ![i].by = p]
    BY <1>1, AcceptedIs
  <2>2. p \in Nat
    BY SharingAssumption
  <2>3. QED
    BY <2>1, <2>2, Shapes DEF Invite
<1>4. member' \in [Participants -> Generation]
  <2>1. member' = member \/ member' = [member EXCEPT ![p] = Joined(member[p])]
    BY <1>1, AcceptedIs
  <2>2. QED
    BY <1>1, <2>1, Shapes, JoinedIs
<1>5. admitted' \in [Invites -> SUBSET Participants]
  <2>1. admitted' = admitted \/ admitted' = [admitted EXCEPT ![i] = admitted[i] \union {p}]
    BY <1>1, AcceptedIs
  <2>2. QED
    BY <2>1, Shapes
<1>6. QED
  BY <1>2, <1>3, <1>4, <1>5, Shapes DEF AcceptInvite, Types, TypesOf

LEMMA RevokeMembershipTypes ==
  ASSUME Types, NEW p \in Participants, RevokeMembership(p)
  PROVE  Types'
<1>1. member' \in [Participants -> Generation]
  BY Shapes, RevokedMembers DEF RevokeMembership
<1>2. deliv' \in Rows(occ.rev)
  BY Shapes, FencedRows DEF RevokeMembership
<1>3. QED
  BY <1>1, <1>2, Shapes DEF RevokeMembership, Types, TypesOf

\* What the cleanup leaves of a membership and of a row.
LEMMA CleanupIs ==
  ASSUME Types, NEW old, NEW lapsed, Cleanup(old, lapsed)
  PROVE  /\ \A p \in Swept : ~Locked(p)
         /\ Swept \subseteq Members
         /\ \A i \in lapsed : invite[i].state = "pending" /\ ~Held(i)
         /\ invite' = [i \in Invites |-> IF i \in lapsed THEN [invite[i] EXCEPT !.state = "expired"] ELSE invite[i]]
         /\ member' \in [Participants -> Generation]
         /\ \A p \in Participants : \/ member'[p] = Revoked(Swept)[p]
                                    \/ member[p].state = "revoked" /\ member'[p].state = "none"
         /\ deliv' \in Rows(occ.rev)
         /\ \A k \in Keys : \/ deliv'[k] = NoDelivery /\ (rem.state \in Terminal \/ occ.status \in Terminal)
                            \/ deliv'[k] = Fenced(Swept, deliv)[k]
<1> DEFINE rows == Fenced(Swept, deliv)
           aged == IF rem.state \in Terminal \/ occ.status \in Terminal
                   THEN {k \in Keys : k[1] \in old} ELSE {}
           kept(p) == \E k \in Keys : k[1] = p /\ k[2] <= member[p].rev /\ rows[k].state # "absent"
           gone(p) == [state |-> "none", rev |-> 0, id |-> member[p].id + 1]
<1>1. /\ \A i \in lapsed : invite[i].state = "pending" /\ ~Held(i)
      /\ \A p \in Swept : ~Locked(p)
      /\ invite' = [i \in Invites |-> IF i \in lapsed THEN [invite[i] EXCEPT !.state = "expired"] ELSE invite[i]]
      /\ deliv' = [k \in Keys |-> IF k \in aged THEN NoDelivery ELSE rows[k]]
      /\ member' = [p \in Participants |->
             IF p \in old /\ member[p].state = "revoked" /\ ~kept(p) THEN gone(p) ELSE Revoked(Swept)[p]]
  BY DEF Cleanup
<1>2. Swept \subseteq Members /\ Members \subseteq Participants
  BY DEF Swept, Members
<1>3. Revoked(Swept) \in [Participants -> Generation]
  BY <1>2, Shapes, RevokedMembers
<1>4. ASSUME NEW p \in Participants PROVE gone(p) \in Generation /\ gone(p).state = "none"
  <2>1. member[p].id + 1 \in Nat
    BY Shapes DEF Generation, Membership
  <2>2. QED
    BY <2>1 DEF Generation, Membership
<1>5. rows \in Rows(occ.rev)
  BY Shapes, FencedRows
<1>6. aged \subseteq Keys /\ (aged # {} => rem.state \in Terminal \/ occ.status \in Terminal)
  OBVIOUS
<1> HIDE DEF gone, rows, kept, aged
<1>7. member' \in [Participants -> Generation]
  BY <1>1, <1>3, <1>4
<1>8. \A p \in Participants : \/ member'[p] = Revoked(Swept)[p]
                              \/ member[p].state = "revoked" /\ member'[p].state = "none"
  BY <1>1, <1>4
<1>9. \A k \in Keys : \/ deliv'[k] = NoDelivery /\ (rem.state \in Terminal \/ occ.status \in Terminal)
                      \/ deliv'[k] = rows[k]
  BY <1>1, <1>6
<1>10. deliv' = [k \in Keys |-> deliv'[k]]
  BY <1>1
<1>11. deliv' \in Rows(occ.rev)
  BY <1>5, <1>9, <1>10, Shapes, RowMap
<1>12. QED
  BY <1>1, <1>2, <1>7, <1>8, <1>9, <1>11 DEF rows

LEMMA CleanupTypes ==
  ASSUME Types, NEW old, NEW lapsed, Cleanup(old, lapsed)
  PROVE  Types'
<1>1. /\ member' \in [Participants -> Generation] /\ deliv' \in Rows(occ.rev)
      /\ invite' = [i \in Invites |-> IF i \in lapsed THEN [invite[i] EXCEPT !.state = "expired"] ELSE invite[i]]
  BY CleanupIs
<1>2. invite' \in [Invites -> Invite]
  BY <1>1, Shapes DEF Invite
<1>3. QED
  BY <1>1, <1>2, Shapes DEF Cleanup, Types, TypesOf

LEMMA OpenCardTypes ==
  ASSUME Types, NEW p \in Participants, OpenCard(p)
  PROVE  Types'
<1> DEFINE c == [to |-> p, mrev |-> member[p].rev, mid |-> member[p].id,
                 rev |-> IF occ.status = "delivered" /\ rem.named THEN occ.rev ELSE 0, msg |-> Null]
<1>1. c \in Card
  BY Shapes, SharingAssumption DEF Generation, Membership, Card, Null
<1>2. reading' = [reading EXCEPT ![p] = c]
  BY DEF OpenCard
<1> HIDE DEF c
<1>3. reading' \in [Participants -> Card]
  BY <1>1, <1>2, Shapes
<1>4. QED
  BY <1>3, Shapes DEF OpenCard, Types, TypesOf

LEMMA SendCardTypes ==
  ASSUME Types, NEW p \in Participants, SendCard(p)
  PROVE  Types'
<1>1. reading[p] \in Card /\ NoCard \in Card
  BY Shapes DEF NoCard, Card
<1>2. reading' \in [Participants -> Card] /\ cards' \subseteq Card
  BY <1>1, Shapes DEF SendCard
<1>3. IsFiniteSet(cards')
  BY Shapes, FS_AddElement DEF SendCard
<1>4. QED
  BY <1>2, <1>3, Shapes DEF SendCard, Types, TypesOf

-----------------------------------------------------------------------------
(* Types: the worker                                                        *)

LEMMA ExpireIs ==
  ASSUME Types, NEW n \in Nat, NEW rows \in Rows(n), ExpireMemberships(rows)
  PROVE  /\ \A p \in Members : ~Locked(p)
         /\ member' = Revoked(Members) /\ deliv' = Fenced(Members, rows)
         /\ member' \in [Participants -> Generation] /\ deliv' \in Rows(n)
         /\ \A p \in Participants : member'[p].state # "active"
<1>1. /\ \A p \in Members : ~Locked(p)
      /\ member' = Revoked(Members) /\ deliv' = Fenced(Members, rows)
  BY DEF ExpireMemberships
<1>2. Members \subseteq Participants
  BY DEF Members
<1>3. Revoked(Members) \in [Participants -> Generation]
      /\ \A p \in Participants : /\ p \in Members => Revoked(Members)[p].state = "revoked"
                                 /\ p \notin Members => Revoked(Members)[p] = member[p]
  BY <1>2, Shapes, RevokedMembers
<1>4. \A p \in Participants : member'[p].state # "active"
  BY <1>1, <1>3 DEF Members
<1>5. Fenced(Members, rows) \in Rows(n)
  BY FencedRows
<1>6. QED
  BY <1>1, <1>3, <1>4, <1>5

LEMMA OwnerMessageIs ==
  ASSUME Types
  PROVE  OwnerMessage \in Nat
<1>1. deliv[OwnerKey] \in Delivery
  BY Shapes, KeysAre
<1>2. QED
  BY <1>1 DEF OwnerMessage, Delivery, Null

\* The rows of the reminder that a worker or a button writes.
LEMMA ReleasedRow ==
  ASSUME NEW r \in Reminder
  PROVE  Released(r) \in Reminder /\ Released(r).state = r.state /\ Released(r).rev = r.rev
         /\ Released(r).status = r.status /\ Released(r).attempts = r.attempts
BY DEF Released, Reminder, Null

LEMMA DeliveredRowIs ==
  ASSUME NEW r \in Reminder
  PROVE  DeliveredRow(r) \in Reminder /\ DeliveredRow(r).state = "delivered" /\ DeliveredRow(r).rev = r.rev
         /\ DeliveredRow(r).status = "sent"
BY ReleasedRow DEF DeliveredRow, Reminder

LEMMA ClaimDueTypes ==
  ASSUME Types, NEW w \in Workers, ClaimDue(w)
  PROVE  Types'
<1> USE DEF ClaimDue
<1>1. CASE ClaimRow(w)
  <2> DEFINE a == [Idle EXCEPT !.pc = "prepare", !.token = rem.rev + 1]
  <2>1. rem \in Reminder /\ rem.rev + 1 \in Nat /\ rem.attempts + 1 \in Nat
    BY Shapes DEF Reminder
  <2>2. a \in WorkerState
    BY <2>1, IdleIs DEF WorkerState, Steps
  <2>3. worker' = [worker EXCEPT ![w] = a]
    BY <1>1 DEF ClaimRow
  <2> HIDE DEF a
  <2>4. worker' \in [Workers -> WorkerState]
    BY <2>2, <2>3, WorkerChanged
  <2>5. rem' \in Reminder
    BY <1>1, <2>1 DEF ClaimRow, Reminder, Null
  <2>6. QED
    BY <1>1, <2>4, <2>5, Shapes DEF ClaimRow, Types, TypesOf
<1>2. CASE Reconcile
  <2>1. occ' \in Occurrence /\ occ'.rev = occ.rev
    BY <1>2, Shapes, OwnerMessageIs DEF Reconcile, Occurrence
  <2>2. rem' \in Reminder
    BY <1>2, Shapes, ReleasedRow, OwnerMessageIs DEF Reconcile, Reminder
  <2>3. deliv' \in Rows(occ'.rev)
    BY <1>2, <2>1, Shapes, ReconciledRows DEF Reconcile
  <2>4. QED
    BY <1>2, <2>1, <2>2, <2>3, Shapes DEF Reconcile, Types, TypesOf
<1>3. CASE Exhaust
  <2> DEFINE r == Released(rem)
  <2>1. r \in Reminder
    BY Shapes, ReleasedRow
  <2>2. rem' = [r EXCEPT !.status = "failed", !.state = "failed", !.msg = Null, !.named = FALSE]
    BY <1>3 DEF Exhaust
  <2> HIDE DEF r
  <2>3. rem' \in Reminder
    BY <2>1, <2>2 DEF Reminder, Null, Terminal
  <2>4. deliv' \in Rows(occ.rev) /\ member' \in [Participants -> Generation]
    BY <1>3, Shapes, ExpireIs DEF Exhaust
  <2>5. QED
    BY <1>3, <2>3, <2>4, Shapes DEF Exhaust, Types, TypesOf
<1>4. QED
  BY <1>1, <1>2, <1>3

LEMMA PrepareOccurrenceTypes ==
  ASSUME Types, NEW w \in Workers, PrepareOccurrence(w)
  PROVE  Types'
<1>1. CASE OwnsLive(w)
  <2>1. occ' \in Occurrence /\ occ'.rev \in {occ.rev, Max({occ.rev, rem.rev})} /\ occ.rev <= occ'.rev
    BY <1>1, Shapes, MaxOfTwo DEF PrepareOccurrence, Occurrence, Null
  <2>2. worker' \in [Workers -> WorkerState]
    BY <1>1, GoToIs DEF PrepareOccurrence, Steps
  <2>3. deliv' \in Rows(occ'.rev)
    BY <2>1, RowsKept DEF PrepareOccurrence
  <2>4. QED
    BY <1>1, <2>1, <2>2, <2>3, Shapes DEF PrepareOccurrence, Types, TypesOf
<1>2. CASE ~OwnsLive(w)
  <2>1. worker' \in [Workers -> WorkerState] /\ occ' = occ
    BY <1>2, StopIs DEF PrepareOccurrence
  <2>2. QED
    BY <2>1, Shapes DEF PrepareOccurrence, Types, TypesOf
<1>3. QED
  BY <1>1, <1>2

LEMMA ChoosePathTypes ==
  ASSUME Types, NEW w \in Workers, ChoosePath(w)
  PROVE  Types'
<1>1. worker' \in [Workers -> WorkerState]
  BY GoToIs DEF ChoosePath, Steps
<1>2. QED
  BY <1>1, Shapes DEF ChoosePath, Types, TypesOf

LEMMA SpecsAreKeys ==
  ASSUME Types
  PROVE  Specs \subseteq Keys /\ \A k \in Specs : Authorised(k)
<1>1. \A p \in Members : p \in Participants /\ member[p].rev \in 1..MaxRevision
  BY Shapes DEF Members, Generation
<1>2. QED
  BY <1>1, KeysAre DEF Specs, Authorised

\* The rows after prepare_shared_delivery_recipients.
PreparedRows == [k \in Keys |-> IF k \in Specs THEN Prepared(deliv[k], SharedRevision) ELSE deliv[k]]

LEMMA PreparedRowsAre ==
  ASSUME Types
  PROVE  /\ PreparedRows \in Rows(occ.rev)
         /\ \A k \in Keys : /\ \/ PreparedRows[k] = deliv[k]
                               \/ /\ k \in Specs /\ PreparedRows[k] = Fresh(deliv[k], occ.rev)
                                  /\ deliv[k].state # "sent"
                            /\ k \in Specs => PreparedRows[k] = Prepared(deliv[k], occ.rev)
<1>1. SharedRevision = occ.rev /\ occ.rev \in 0..occ.rev
  BY Shapes, SharedRevisionIs
<1>2. \A k \in Keys : PreparedRows[k] = IF k \in Specs THEN Prepared(deliv[k], occ.rev) ELSE deliv[k]
  BY <1>1 DEF PreparedRows
<1>3. \A k \in Keys : \/ PreparedRows[k] = deliv[k]
                      \/ k \in Specs /\ PreparedRows[k] = Fresh(deliv[k], occ.rev) /\ deliv[k].state # "sent"
  BY <1>2, Shapes, PreparedRow
<1> DEFINE f == PreparedRows
<1>4. f = [k \in Keys |-> f[k]]
  BY DEF PreparedRows
<1>5. \A k \in Keys : f[k] = deliv[k] \/ \E m \in 0..occ.rev : f[k] = Fresh(deliv[k], m)
  BY <1>1, <1>3
<1> HIDE DEF f
<1>6. f \in Rows(occ.rev)
  BY <1>4, <1>5, Shapes, RowMap
<1>7. QED
  BY <1>2, <1>3, <1>6 DEF f

LEMMA PrepareRecipientsTypes ==
  ASSUME Types, NEW w \in Workers, PrepareRecipients(w)
  PROVE  Types'
<1>1. CASE ~Owns(w) \/ occ.status # "processing"
  <2>1. GoTo(w, "status") /\ occ' = occ /\ deliv' = deliv
    BY <1>1 DEF PrepareRecipients, GoTo
  <2>2. worker' \in [Workers -> WorkerState]
    BY <2>1, GoToIs DEF Steps
  <2>3. QED
    BY <2>1, <2>2, Shapes DEF PrepareRecipients, Types, TypesOf
<1>2. CASE ~(~Owns(w) \/ occ.status # "processing") /\ Inconsistent
  <2> DEFINE a == [worker[w] EXCEPT !.pc = "fail", !.terminal = TRUE]
  <2>1. a \in WorkerState
    BY Shapes DEF WorkerState, Steps
  <2>2. worker' = [worker EXCEPT ![w] = a] /\ occ' = occ /\ deliv' = deliv
    BY <1>2, Shapes DEF PrepareRecipients
  <2> HIDE DEF a
  <2>3. worker' \in [Workers -> WorkerState]
    BY <2>1, <2>2, WorkerChanged
  <2>4. QED
    BY <2>2, <2>3, Shapes DEF PrepareRecipients, Types, TypesOf
<1>3. CASE ~(~Owns(w) \/ occ.status # "processing") /\ ~Inconsistent
  <2> DEFINE open == {k \in Specs : PreparedRows[k].state \notin {"sent", "failed"}}
             a == [worker[w] EXCEPT !.pc = "next", !.todo = open]
  <2>1. /\ occ' = [occ EXCEPT !.rev = SharedRevision]
        /\ deliv' = PreparedRows
        /\ worker' = [worker EXCEPT ![w].pc = "next", ![w].todo = open]
    BY <1>3 DEF PrepareRecipients, PreparedRows
  <2>2. open \subseteq Keys
    BY SpecsAreKeys
  <2> HIDE DEF open
  <2>3. a \in WorkerState /\ worker' = [worker EXCEPT ![w] = a]
    BY <2>1, <2>2, Shapes DEF WorkerState, Steps
  <2> HIDE DEF a
  <2>4. worker' \in [Workers -> WorkerState]
    BY <2>3, WorkerChanged
  <2>5. occ' = occ
    BY <2>1, Shapes, SharedRevisionIs DEF Occurrence
  <2>6. QED
    BY <2>1, <2>4, <2>5, Shapes, PreparedRowsAre DEF PrepareRecipients, Types, TypesOf
<1>4. QED
  BY <1>1, <1>2, <1>3

\* The recipient that comes first.
FirstOf(w) == CHOOSE x \in worker[w].todo : \A y \in worker[w].todo : x[1] <= y[1]

LEMMA FirstOfIs ==
  ASSUME Types, NEW w \in Workers, worker[w].todo # {}
  PROVE  FirstOf(w) \in worker[w].todo /\ FirstOf(w) \in Keys
<1>1. worker[w].todo \subseteq Keys
  BY Shapes DEF WorkerState
<1> DEFINE T == {x[1] : x \in worker[w].todo}
<1>2. T \subseteq Nat /\ T # {}
  BY <1>1, KeysAre
<1>3. \E m \in T : \A n \in T : ~(<<n, m>> \in OpToRel(<, Nat))
  BY <1>2, NatLessThanWellFounded, WFMin
<1>4. \E m \in T : \A n \in T : ~(n < m)
  BY <1>2, <1>3 DEF OpToRel
<1>5. \E x \in worker[w].todo : \A y \in worker[w].todo : x[1] <= y[1]
  <2>1. PICK x \in worker[w].todo : \A n \in T : ~(n < x[1])
    BY <1>4
  <2>2. \A y \in worker[w].todo : y[1] \in Nat /\ x[1] \in Nat /\ ~(y[1] < x[1])
    BY <1>1, <2>1, KeysAre
  <2>3. QED
    BY <2>2
<1>6. FirstOf(w) \in worker[w].todo
  BY <1>5 DEF FirstOf
<1>7. QED
  BY <1>1, <1>6

\* What claim_shared_delivery makes of the first recipient k: it passes it
\* over, cancels it, or claims it.
Taken(d, w) == [d EXCEPT !.state = "processing", !.token = worker[w].token, !.live = TRUE]

ClaimStep(w, k) ==
  \/ /\ worker' = [worker EXCEPT ![w].todo = @ \ {k}]
     /\ \/ deliv' = deliv
        \/ /\ ~Authorised(k) /\ ~Settled(deliv[k])
           /\ \E d \in {deliv[k], Fresh(deliv[k], occ.rev)} : deliv' = [deliv EXCEPT ![k] = Cancelled(d)]
  \/ /\ Authorised(k) /\ ~Settled(deliv[k]) /\ occ.status = "processing"
     /\ \E d \in {deliv[k], Fresh(deliv[k], occ.rev)} :
          /\ d.rev = occ.rev /\ deliv' = [deliv EXCEPT ![k] = Taken(d, w)]
          /\ worker' = [worker EXCEPT ![w].pc = "validate", ![w].todo = @ \ {k},
                                      ![w].key = k, ![w].keyRev = d.rev]

LEMMA ClaimRecipientIs ==
  ASSUME Types, NEW w \in Workers, worker[w].todo # {}, ClaimRecipient(w)
  PROVE  \E k \in worker[w].todo : k \in Keys /\ ClaimStep(w, k)
<1> DEFINE k == FirstOf(w)
           d == IF deliv[k].rev # occ.rev THEN Fresh(deliv[k], occ.rev) ELSE deliv[k]
           Pass == worker' = [worker EXCEPT ![w].todo = @ \ {k}]
<1>1. k \in worker[w].todo /\ k \in Keys
  BY FirstOfIs
<1>2. \/ /\ occ.status # "processing" \/ Settled(deliv[k])
         /\ Pass /\ deliv' = deliv
      \/ /\ occ.status = "processing" /\ ~Settled(deliv[k]) /\ d.state = "processing" /\ d.live
         /\ Pass /\ deliv' = [deliv EXCEPT ![k] = d]
      \/ /\ occ.status = "processing" /\ ~Settled(deliv[k]) /\ ~Authorised(k)
         /\ Pass /\ deliv' = [deliv EXCEPT ![k] = Cancelled(d)]
      \/ /\ occ.status = "processing" /\ ~Settled(deliv[k]) /\ Authorised(k)
         /\ deliv' = [deliv EXCEPT ![k] = Taken(d, w)]
         /\ worker' = [worker EXCEPT ![w].pc = "validate", ![w].todo = @ \ {k},
                                     ![w].key = k, ![w].keyRev = d.rev]
  BY DEF ClaimRecipient, FirstOf, Taken
<1>3. deliv[k] \in Delivery /\ deliv \in [Keys -> Delivery] /\ occ.rev \in Nat
  BY <1>1, Shapes, RowsAre
<1>4. /\ d \in {deliv[k], Fresh(deliv[k], occ.rev)} /\ d.rev = occ.rev
      /\ d.state = "processing" => d = deliv[k]
  BY <1>3, FreshRow
<1>5. deliv = [deliv EXCEPT ![k] = deliv[k]]
  BY <1>1, <1>3
<1> HIDE DEF d, k
<1>6. ClaimStep(w, k)
  BY <1>1, <1>2, <1>4, <1>5 DEF ClaimStep
<1>7. QED
  BY <1>1, <1>6

LEMMA TakenRow ==
  ASSUME Types, NEW w \in Workers, NEW d \in Delivery
  PROVE  Taken(d, w) \in Delivery /\ Taken(d, w).rev = d.rev /\ Taken(d, w).state = "processing"
         /\ Taken(d, w).live /\ Taken(d, w).token = worker[w].token
<1>1. worker[w].token \in Nat
  BY Shapes DEF WorkerState
<1>2. QED
  BY <1>1 DEF Taken, Delivery

LEMMA PassIs ==
  ASSUME Types, NEW w \in Workers, NEW k \in Keys, worker' = [worker EXCEPT ![w].todo = @ \ {k}]
  PROVE  /\ worker' \in [Workers -> WorkerState] /\ \A u \in Workers : u # w => worker'[u] = worker[u]
         /\ worker'[w] = [worker[w] EXCEPT !.todo = worker[w].todo \ {k}]
<1> DEFINE a == [worker[w] EXCEPT !.todo = worker[w].todo \ {k}]
<1>1. worker[w] \in WorkerState /\ worker[w].todo \ {k} \subseteq Keys
  BY Shapes DEF WorkerState
<1>2. a \in WorkerState /\ worker' = [worker EXCEPT ![w] = a]
  BY <1>1 DEF WorkerState
<1> HIDE DEF a
<1>3. QED
  BY <1>2, WorkerChanged DEF a

LEMMA ClaimIs ==
  ASSUME Types, NEW w \in Workers, NEW k \in Keys, NEW n \in Nat,
         worker' = [worker EXCEPT ![w].pc = "validate", ![w].todo = @ \ {k}, ![w].key = k, ![w].keyRev = n]
  PROVE  /\ worker' \in [Workers -> WorkerState] /\ \A u \in Workers : u # w => worker'[u] = worker[u]
         /\ worker'[w] = [worker[w] EXCEPT !.pc = "validate", !.todo = worker[w].todo \ {k}, !.key = k, !.keyRev = n]
<1> DEFINE a == [worker[w] EXCEPT !.pc = "validate", !.todo = worker[w].todo \ {k}, !.key = k, !.keyRev = n]
<1>1. worker[w] \in WorkerState /\ worker[w].todo \ {k} \subseteq Keys
  BY Shapes DEF WorkerState
<1>2. a \in WorkerState /\ worker' = [worker EXCEPT ![w] = a]
  BY <1>1 DEF WorkerState, Steps
<1> HIDE DEF a
<1>3. QED
  BY <1>2, WorkerChanged DEF a

LEMMA NextRecipientTypes ==
  ASSUME Types, NEW w \in Workers, NextRecipient(w)
  PROVE  Types'
<1>1. worker' \in [Workers -> WorkerState] /\ deliv' \in Rows(occ.rev)
  <2>1. CASE worker[w].todo = {}
    BY <2>1, Shapes, GoToIs DEF NextRecipient, Steps
  <2>2. CASE worker[w].todo # {} /\ ~OwnsLive(w)
    BY <2>2, Shapes, StopIs DEF NextRecipient
  <2>3. CASE worker[w].todo # {} /\ OwnsLive(w)
    <3>1. ClaimRecipient(w)
      BY <2>3 DEF NextRecipient
    <3>2. PICK k \in worker[w].todo : k \in Keys /\ ClaimStep(w, k)
      BY <2>3, <3>1, ClaimRecipientIs
    <3>3. \A d \in {deliv[k], Fresh(deliv[k], occ.rev)} : d \in Delivery /\ d.rev \in Nat /\ d.rev <= occ.rev
      BY <3>2, Shapes, RowsAre, FreshRow
    <3>4. worker' \in [Workers -> WorkerState]
      BY <3>2, <3>3, PassIs, ClaimIs DEF ClaimStep
    <3>5. \A d \in {deliv[k], Fresh(deliv[k], occ.rev)} :
            /\ Cancelled(d) \in Delivery /\ Cancelled(d).rev <= occ.rev
            /\ Taken(d, w) \in Delivery /\ Taken(d, w).rev <= occ.rev
      BY <3>3, CancelledRow, TakenRow
    <3>6. deliv' \in Rows(occ.rev)
      BY <3>2, <3>5, Shapes, RowChanged DEF ClaimStep
    <3>7. QED
      BY <3>4, <3>6
  <2>4. QED
    BY <2>1, <2>2, <2>3
<1>2. QED
  BY <1>1, Shapes DEF NextRecipient, Types, TypesOf

LEMMA TargetIs ==
  ASSUME Types, NEW w \in Workers
  PROVE  Target(w) \in Keys /\ deliv[Target(w)] \in Delivery /\ deliv[Target(w)].rev \in Nat
         /\ deliv[Target(w)].rev <= occ.rev /\ worker[w].token \in Nat /\ worker[w].keyRev \in Nat
         /\ worker[w].msg \in Nat
<1>1. Target(w) \in Keys /\ worker[w].token \in Nat /\ worker[w].keyRev \in Nat /\ worker[w].msg \in Nat
  BY Shapes DEF Target, WorkerState
<1>2. QED
  BY <1>1, Shapes, RowsAre

LEMMA ValidateTypes ==
  ASSUME Types, NEW w \in Workers, Validate(w)
  PROVE  Types'
<1>1. worker' \in [Workers -> WorkerState]
  BY GoToIs, ToNextIs DEF Validate, Steps
<1>2. deliv' \in Rows(occ.rev)
  <2>1. deliv' = deliv \/ deliv' = [deliv EXCEPT ![Target(w)] = Cancelled(deliv[Target(w)])]
    BY DEF Validate
  <2>2. QED
    BY <2>1, Shapes, TargetIs, CancelledRow, RowChanged
<1>3. QED
  BY <1>1, <1>2, Shapes DEF Validate, Types, TypesOf

LEMMA NewMessageIs ==
  ASSUME Types
  PROVE  NewMessage \in Nat \ {0}
<1>1. IsFiniteSet({c \in cards : c.msg # Null})
  BY Shapes, FS_Subset
<1>2. Cardinality({c \in cards : c.msg # Null}) \in Nat
  BY <1>1, FS_CardinalityType
<1>3. QED
  BY <1>2 DEF NewMessage

\* The message of a worker to its recipient.
Message(w) == [to |-> Target(w)[1], mrev |-> Target(w)[2], mid |-> MembershipId(Target(w)),
               rev |-> worker[w].keyRev, msg |-> NewMessage]

LEMMA SendRecipientIs ==
  ASSUME Types, NEW w \in Workers, SendRecipient(w)
  PROVE  /\ worker[w].pc = "send" /\ Message(w) \in Card
         /\ cards' \in {cards, cards \union {Message(w)}}
         /\ worker' \in [Workers -> WorkerState]
         /\ worker'[w].pc \in {"sent", "transient", "terminal"}
         /\ worker'[w].token = worker[w].token /\ worker'[w].key = worker[w].key
         /\ worker'[w].keyRev = worker[w].keyRev /\ worker'[w].todo = worker[w].todo
         /\ \A u \in Workers : u # w => worker'[u] = worker[u]
<1>1. worker[w].pc = "send" /\ cards' \in {cards, cards \union {Message(w)}}
  BY DEF SendRecipient, Message
<1>2. Message(w) \in Card
  <2>1. Target(w)[1] \in Nat /\ Target(w)[2] \in Nat /\ MembershipId(Target(w)) \in Nat
    <3>1. CASE Target(w) = OwnerKey
      BY <3>1, TargetIs, KeysAre DEF MembershipId
    <3>2. CASE Target(w) # OwnerKey
      <4>1. Target(w)[1] \in Participants
        BY <3>2, TargetIs, KeysAre
      <4>2. member[Target(w)[1]].id \in Nat
        BY <4>1, Shapes DEF Generation, Membership
      <4>3. QED
        BY <3>2, <4>2, TargetIs, KeysAre DEF MembershipId
    <3>3. QED
      BY <3>1, <3>2
  <2>2. QED
    BY <2>1, TargetIs, NewMessageIs DEF Message, Card
<1>3. PICK a \in WorkerState :
        /\ worker' = [worker EXCEPT ![w] = a] /\ a.pc \in {"sent", "transient", "terminal"}
        /\ a.token = worker[w].token /\ a.key = worker[w].key
        /\ a.keyRev = worker[w].keyRev /\ a.todo = worker[w].todo
  <2>1. \E pc \in {"transient", "terminal"} : GoTo(w, pc)
        \/ worker' = [worker EXCEPT ![w].pc = "sent", ![w].msg = NewMessage]
    BY DEF SendRecipient
  <2>2. CASE worker' = [worker EXCEPT ![w].pc = "sent", ![w].msg = NewMessage]
    <3> DEFINE a == [worker[w] EXCEPT !.pc = "sent", !.msg = NewMessage]
    <3>1. a \in WorkerState /\ a.pc = "sent" /\ a.token = worker[w].token /\ a.key = worker[w].key
          /\ a.keyRev = worker[w].keyRev /\ a.todo = worker[w].todo
      BY Shapes, NewMessageIs DEF WorkerState, Steps
    <3>2. worker' = [worker EXCEPT ![w] = a]
      BY <2>2, Shapes
    <3> HIDE DEF a
    <3>3. QED
      BY <3>1, <3>2
  <2>3. ASSUME NEW pc \in {"transient", "terminal"}, GoTo(w, pc)
        PROVE  \E a \in WorkerState :
                 /\ worker' = [worker EXCEPT ![w] = a] /\ a.pc \in {"sent", "transient", "terminal"}
                 /\ a.token = worker[w].token /\ a.key = worker[w].key
                 /\ a.keyRev = worker[w].keyRev /\ a.todo = worker[w].todo
    <3> DEFINE a == [worker[w] EXCEPT !.pc = pc]
    <3>1. a \in WorkerState /\ a.pc = pc /\ a.token = worker[w].token /\ a.key = worker[w].key
          /\ a.keyRev = worker[w].keyRev /\ a.todo = worker[w].todo
      BY Shapes DEF WorkerState, Steps
    <3>2. worker' = [worker EXCEPT ![w] = a]
      BY <2>3, Shapes DEF GoTo
    <3> HIDE DEF a
    <3>3. QED
      BY <3>1, <3>2
  <2>4. QED
    BY <2>1, <2>2, <2>3
<1>4. QED
  BY <1>1, <1>2, <1>3, WorkerChanged

LEMMA SendRecipientTypes ==
  ASSUME Types, NEW w \in Workers, SendRecipient(w)
  PROVE  Types'
<1>1. cards' \subseteq Card /\ IsFiniteSet(cards')
  BY Shapes, SendRecipientIs, FS_AddElement
<1>2. worker' \in [Workers -> WorkerState]
  BY SendRecipientIs
<1>3. QED
  BY <1>1, <1>2, Shapes DEF SendRecipient, Types, TypesOf

\* The row of a recipient whose message is recorded as sent, or as failed.
SentRow(d, m) == [d EXCEPT !.state = "sent", !.msg = m, !.token = Null, !.live = FALSE, !.terminal = FALSE]
FailedRow(d, t) == [d EXCEPT !.state = "failed", !.terminal = t, !.token = Null, !.live = FALSE]

LEMMA RecordedRows ==
  ASSUME NEW d \in Delivery, NEW m \in Nat, NEW t \in BOOLEAN
  PROVE  /\ SentRow(d, m) \in Delivery /\ SentRow(d, m).rev = d.rev /\ SentRow(d, m).state = "sent"
         /\ FailedRow(d, t) \in Delivery /\ FailedRow(d, t).rev = d.rev /\ FailedRow(d, t).state = "failed"
BY DEF SentRow, FailedRow, Delivery, Null

LEMMA RecordSuccessIs ==
  ASSUME Types, NEW w \in Workers, RecordSuccess(w)
  PROVE  /\ worker[w].pc = "sent" /\ ToNext(w, FALSE)
         /\ \/ /\ Owns(w) /\ RowHeld(w)
               /\ deliv' = [deliv EXCEPT ![Target(w)] = SentRow(deliv[Target(w)], worker[w].msg)]
               /\ confirmed' = confirmed \union {Target(w)}
            \/ deliv' = deliv /\ confirmed' = confirmed
BY DEF RecordSuccess, SentRow

LEMMA RecordSuccessTypes ==
  ASSUME Types, NEW w \in Workers, RecordSuccess(w)
  PROVE  Types'
<1>1. worker' \in [Workers -> WorkerState]
  BY RecordSuccessIs, ToNextIs
<1>2. SentRow(deliv[Target(w)], worker[w].msg) \in Delivery
      /\ SentRow(deliv[Target(w)], worker[w].msg).rev <= occ.rev
  BY TargetIs, RecordedRows
<1>3. \/ /\ deliv' = [deliv EXCEPT ![Target(w)] = SentRow(deliv[Target(w)], worker[w].msg)]
         /\ confirmed' = confirmed \union {Target(w)}
      \/ deliv' = deliv /\ confirmed' = confirmed
  BY RecordSuccessIs
<1>4. Target(w) \in Keys /\ deliv \in Rows(occ.rev) /\ occ.rev \in Nat /\ confirmed \subseteq Keys
  BY Shapes, TargetIs
<1>5. [deliv EXCEPT ![Target(w)] = SentRow(deliv[Target(w)], worker[w].msg)] \in Rows(occ.rev)
  BY <1>2, <1>4, RowChanged
<1>6. deliv' \in Rows(occ.rev) /\ confirmed' \subseteq Keys
  BY <1>3, <1>4, <1>5
<1>7. QED
  BY <1>1, <1>6, Shapes DEF RecordSuccess, Types, TypesOf

LEMMA RecordFailureIs ==
  ASSUME Types, NEW w \in Workers, RecordFailure(w)
  PROVE  \E t, b \in BOOLEAN :
           /\ ToNext(w, b)
           /\ \/ /\ Owns(w) /\ RowHeld(w)
                 /\ deliv' = [deliv EXCEPT ![Target(w)] = FailedRow(deliv[Target(w)], t)]
              \/ deliv' = deliv
<1> DEFINE terminal == worker[w].pc = "terminal"
           recorded == Owns(w) /\ RowHeld(w)
<1>1. ToNext(w, recorded /\ ~terminal)
      /\ deliv' = IF recorded THEN [deliv EXCEPT ![Target(w)] = FailedRow(deliv[Target(w)], terminal)] ELSE deliv
  BY DEF RecordFailure, FailedRow
<1>2. /\ terminal \in BOOLEAN /\ (recorded /\ ~terminal) \in BOOLEAN
      /\ \/ /\ Owns(w) /\ RowHeld(w)
            /\ deliv' = [deliv EXCEPT ![Target(w)] = FailedRow(deliv[Target(w)], terminal)]
         \/ deliv' = deliv
  BY <1>1 DEF Owns, RowHeld
<1> HIDE DEF terminal, recorded
<1>3. QED
  BY <1>1, <1>2, Zenon

LEMMA RecordFailureTypes ==
  ASSUME Types, NEW w \in Workers, RecordFailure(w)
  PROVE  Types'
<1>1. PICK t, b \in BOOLEAN :
           /\ ToNext(w, b)
           /\ \/ /\ Owns(w) /\ RowHeld(w)
                 /\ deliv' = [deliv EXCEPT ![Target(w)] = FailedRow(deliv[Target(w)], t)]
              \/ deliv' = deliv
  BY RecordFailureIs
<1>2. worker' \in [Workers -> WorkerState]
  BY <1>1, ToNextIs
<1>3. FailedRow(deliv[Target(w)], t) \in Delivery /\ FailedRow(deliv[Target(w)], t).rev <= occ.rev
  BY TargetIs, RecordedRows
<1>4. deliv' \in Rows(occ.rev)
  BY <1>1, <1>3, Shapes, TargetIs, RowChanged
<1>5. QED
  BY <1>2, <1>4, Shapes DEF RecordFailure, Types, TypesOf

LEMMA ReadStatusIs ==
  ASSUME Types, NEW w \in Workers, ReadStatus(w)
  PROVE  \E a \in WorkerState :
           /\ worker' = [worker EXCEPT ![w] = a]
           /\ \/ a = Idle
              \/ a.pc = "fail" /\ a.token = worker[w].token
              \/ /\ a.pc \in {"record", "finalize"} /\ a.token = worker[w].token
                 /\ a.keyRev = occ.rev
<1>1. occ.rev \in Nat /\ OwnerMessage \in Nat /\ worker[w] \in WorkerState
  BY Shapes, OwnerMessageIs
<1>2. CASE ~Complete
  BY <1>2, IdleIs DEF ReadStatus, Stop
<1>3. CASE Complete /\ Delivered = {}
  <2> DEFINE a == [worker[w] EXCEPT !.pc = "fail", !.terminal = TRUE]
  <2>1. a \in WorkerState /\ a.pc = "fail" /\ a.token = worker[w].token
    BY <1>1 DEF WorkerState, Steps
  <2>2. worker' = [worker EXCEPT ![w] = a]
    BY <1>3, Shapes DEF ReadStatus
  <2> HIDE DEF a
  <2>3. QED
    BY <2>1, <2>2
<1>4. CASE Complete /\ Delivered # {}
  <2> DEFINE pc == IF OwnerMessage = Null THEN "finalize" ELSE "record"
             a == [worker[w] EXCEPT !.keyRev = occ.rev, !.msg = OwnerMessage, !.pc = pc]
  <2>1. pc \in {"record", "finalize"}
    OBVIOUS
  <2>2. worker' = [worker EXCEPT ![w] = a]
    BY <1>4, Shapes DEF ReadStatus
  <2> HIDE DEF pc
  <2>3. a \in WorkerState /\ a.pc = pc /\ a.token = worker[w].token /\ a.keyRev = occ.rev
    BY <1>1, <2>1 DEF WorkerState, Steps
  <2> HIDE DEF a
  <2>4. QED
    BY <2>1, <2>2, <2>3
<1>5. QED
  BY <1>2, <1>3, <1>4

LEMMA ReadStatusTypes ==
  ASSUME Types, NEW w \in Workers, ReadStatus(w)
  PROVE  Types'
<1>1. worker' \in [Workers -> WorkerState]
  BY ReadStatusIs, WorkerChanged
<1>2. QED
  BY <1>1, Shapes DEF ReadStatus, Types, TypesOf

LEMMA RecordMessageTypes ==
  ASSUME Types, NEW w \in Workers, RecordMessage(w)
  PROVE  Types'
<1>1. CASE OwnsLive(w)
  <2>1. rem \in Reminder /\ worker[w].msg \in Nat
    BY Shapes, TargetIs
  <2>2. rem' \in Reminder
    BY <1>1, <2>1 DEF RecordMessage, Reminder
  <2>3. Max({occ.rev, worker[w].keyRev}) \in Nat /\ occ.rev <= Max({occ.rev, worker[w].keyRev})
    BY Shapes, TargetIs, MaxOfTwo
  <2>4. occ' \in Occurrence /\ occ.rev <= occ'.rev
    BY <1>1, <2>1, <2>3 DEF RecordMessage, Occurrence
  <2>5. worker' \in [Workers -> WorkerState]
    BY <1>1, GoToIs DEF RecordMessage, Steps
  <2>6. QED
    BY <1>1, <2>2, <2>4, <2>5, Shapes, RowsKept DEF RecordMessage, Types, TypesOf
<1>2. CASE ~OwnsLive(w)
  <2>1. worker' \in [Workers -> WorkerState] /\ occ' = occ /\ rem' = rem
    BY <1>2, StopIs DEF RecordMessage
  <2>2. QED
    BY <2>1, Shapes DEF RecordMessage, Types, TypesOf
<1>3. QED
  BY <1>1, <1>2

LEMMA FinalizeSuccessTypes ==
  ASSUME Types, NEW w \in Workers, FinalizeSuccess(w)
  PROVE  Types'
<1>1. worker' \in [Workers -> WorkerState]
  BY StopIs DEF FinalizeSuccess
<1>2. CASE OwnsLive(w)
  <2> DEFINE r == DeliveredRow(rem)
  <2>1. r \in Reminder
    BY Shapes, DeliveredRowIs
  <2>2. rem' = [r EXCEPT !.attempts = 0]
    BY <1>2 DEF FinalizeSuccess
  <2> HIDE DEF r
  <2>3. rem' \in Reminder
    BY <2>1, <2>2 DEF Reminder
  <2>4. Max({occ.rev, worker[w].keyRev}) \in Nat /\ occ.rev <= Max({occ.rev, worker[w].keyRev})
    BY Shapes, TargetIs, MaxOfTwo
  <2>5. occ' \in Occurrence /\ occ.rev <= occ'.rev
    BY <1>2, <2>4, Shapes DEF FinalizeSuccess, Occurrence
  <2>6. QED
    BY <1>1, <2>3, <2>5, Shapes, RowsKept DEF FinalizeSuccess, Types, TypesOf
<1>3. CASE ~OwnsLive(w)
  BY <1>1, <1>3, Shapes DEF FinalizeSuccess, Types, TypesOf
<1>4. QED
  BY <1>2, <1>3

\* The rows after the failure of a whole attempt: failed rows may become terminal.
Closing(rows) ==
  /\ rows \in Rows(occ.rev)
  /\ \A k \in Keys : /\ rows[k].state = deliv[k].state /\ rows[k].rev = deliv[k].rev
                     /\ rows[k].token = deliv[k].token /\ rows[k].live = deliv[k].live
                     /\ rows[k].state # "failed" => rows[k] = deliv[k]

LEMMA FinalizeFailureIs ==
  ASSUME Types, NEW w \in Workers, FinalizeFailure(w)
  PROVE  /\ rem' \in Reminder /\ rem'.rev = rem.rev /\ rem'.status # "processing"
         /\ occ' \in Occurrence /\ occ'.rev = occ.rev
         /\ occ'.status = IF Sent(deliv) # {} THEN "delivered" ELSE "failed"
         /\ \E rows : /\ Closing(rows)
                      /\ \/ /\ rem'.status = "pending" /\ rem'.state = "scheduled"
                            /\ deliv' = rows /\ member' = member
                         \/ /\ Sent(deliv) # {} /\ rem'.status = "sent" /\ rem'.state = "delivered"
                            /\ deliv' = rows /\ member' = member
                         \/ /\ Sent(deliv) = {} /\ rem'.status = "failed" /\ rem'.state = "failed"
                            /\ ExpireMemberships(rows)
<1> DEFINE final == worker[w].terminal \/ rem.attempts >= MaxAttempts
           partial == Sent(deliv) # {}
           closed(d) == IF d.state = "failed" THEN [d EXCEPT !.terminal = TRUE] ELSE d
           rows == IF final
                   THEN [k \in Keys |-> IF deliv[k].state = "failed"
                                        THEN [deliv[k] EXCEPT !.terminal = TRUE] ELSE deliv[k]]
                   ELSE deliv
           released == [Released(rem) EXCEPT
                          !.msg = IF partial THEN OwnerMessage ELSE Null, !.named = partial]
<1>1. /\ occ' = IF partial THEN [occ EXCEPT !.status = "delivered", !.msg = OwnerMessage]
                ELSE [occ EXCEPT !.status = "failed", !.msg = Null]
      /\ IF ~final
         THEN /\ rem' = [released EXCEPT !.status = "pending", !.state = "scheduled"]
              /\ deliv' = rows /\ UNCHANGED member
         ELSE IF partial
         THEN /\ rem' = DeliveredRow(released) /\ deliv' = rows /\ UNCHANGED member
         ELSE /\ rem' = [released EXCEPT !.status = "failed", !.state = "failed"]
              /\ ExpireMemberships(rows)
  BY DEF FinalizeFailure
<1>2. occ' \in Occurrence /\ occ'.rev = occ.rev
      /\ occ'.status = IF partial THEN "delivered" ELSE "failed"
  BY <1>1, Shapes, OwnerMessageIs DEF Occurrence, Null
<1>3. partial \in BOOLEAN /\ (IF partial THEN OwnerMessage ELSE Null) \in Nat
  BY OwnerMessageIs DEF Null
<1>4. released \in Reminder /\ released.rev = rem.rev
  <2> DEFINE r == Released(rem)
             m == IF partial THEN OwnerMessage ELSE Null
  <2>1. r \in Reminder /\ r.rev = rem.rev /\ m \in Nat
    BY <1>3, Shapes, ReleasedRow
  <2>2. released = [r EXCEPT !.msg = m, !.named = partial]
    OBVIOUS
  <2> HIDE DEF r, m, partial, released
  <2>3. QED
    BY <1>3, <2>1, <2>2 DEF Reminder
<1>5. Closing(rows)
  <2>1. CASE ~final
    BY <2>1, Shapes DEF Closing
  <2>2. CASE final
    <3>1. \A d \in Delivery : /\ closed(d) \in Delivery /\ closed(d).rev = d.rev /\ closed(d).state = d.state
                              /\ closed(d).token = d.token /\ closed(d).live = d.live
                              /\ d.state # "failed" => closed(d) = d
      BY DEF Delivery
    <3>2. rows = [k \in Keys |-> closed(deliv[k])]
      BY <2>2
    <3> HIDE DEF closed, rows
    <3>3. \A k \in Keys : deliv[k] \in Delivery /\ rows[k] = closed(deliv[k])
      BY <3>2, Shapes
    <3>4. rows = [k \in Keys |-> rows[k]]
      BY <3>2
    <3>5. rows \in Rows(occ.rev)
      BY <3>1, <3>3, <3>4, Shapes, RowMap
    <3>6. QED
      BY <3>1, <3>3, <3>5 DEF Closing
  <2>3. QED
    BY <2>1, <2>2
<1> HIDE DEF rows, released, final
<1>6. CASE ~final
  <2>1. rem' \in Reminder /\ rem'.rev = rem.rev /\ rem'.status = "pending" /\ rem'.state = "scheduled"
    BY <1>1, <1>4, <1>6 DEF Reminder, Live
  <2>2. QED
    BY <1>1, <1>2, <1>5, <1>6, <2>1
<1>7. CASE final /\ partial
  <2>1. rem' \in Reminder /\ rem'.rev = rem.rev /\ rem'.status = "sent" /\ rem'.state = "delivered"
    BY <1>1, <1>4, <1>7, DeliveredRowIs
  <2>2. QED
    BY <1>1, <1>2, <1>5, <1>7, <2>1
<1>8. CASE final /\ ~partial
  <2>1. rem' \in Reminder /\ rem'.rev = rem.rev /\ rem'.status = "failed" /\ rem'.state = "failed"
    BY <1>1, <1>4, <1>8 DEF Reminder, Terminal
  <2>2. QED
    BY <1>1, <1>2, <1>5, <1>8, <2>1
<1>9. QED
  BY <1>6, <1>7, <1>8

LEMMA FailureTypes ==
  ASSUME Types, NEW w \in Workers, FinalizeFailure(w)
  PROVE  /\ rem' \in Reminder /\ occ' \in Occurrence /\ deliv' \in Rows(occ'.rev)
         /\ member' \in [Participants -> Generation]
<1>1. rem' \in Reminder /\ occ' \in Occurrence /\ occ'.rev = occ.rev
  BY FinalizeFailureIs
<1>2. PICK rows : Closing(rows) /\ ((deliv' = rows /\ member' = member) \/ ExpireMemberships(rows))
  BY FinalizeFailureIs
<1>3. deliv' \in Rows(occ.rev) /\ member' \in [Participants -> Generation]
  BY <1>2, Shapes, ExpireIs DEF Closing
<1>4. QED
  BY <1>1, <1>3

LEMMA FailTypes ==
  ASSUME Types, NEW w \in Workers, Fail(w)
  PROVE  Types'
<1>1. worker' \in [Workers -> WorkerState]
  BY StopIs DEF Fail
<1>2. CASE OwnsLive(w)
  BY <1>1, <1>2, FailureTypes, Shapes DEF Fail, Types, TypesOf
<1>3. CASE ~OwnsLive(w)
  BY <1>1, <1>3, Shapes DEF Fail, Types, TypesOf
<1>4. QED
  BY <1>2, <1>3

\* The one message of the path of a reminder that nobody shares.
PersonalMessage(w) ==
  [to |-> Owner, mrev |-> 0, mid |-> 0, rev |-> worker[w].token, msg |-> NewMessage]

LEMMA PersonalIs ==
  ASSUME Types, NEW w \in Workers, DeliverPersonally(w), OwnsLive(w)
  PROVE  \/ /\ cards' = cards \union {PersonalMessage(w)} /\ PersonalMessage(w) \in Card
            /\ occ' \in Occurrence /\ occ'.status = "delivered" /\ occ'.rev = Max({occ.rev, rem.rev})
            /\ occ.rev <= occ'.rev /\ rem.rev <= occ'.rev
            /\ rem' \in Reminder /\ rem'.state = "delivered" /\ rem'.status = "sent" /\ rem'.rev = rem.rev
            /\ deliv' = deliv /\ member' = member
         \/ FinalizeFailure(w) /\ cards' = cards
<1>1. CASE FinalizeFailure(w) /\ UNCHANGED cards
  BY <1>1
<1>2. CASE ~(FinalizeFailure(w) /\ UNCHANGED cards)
  <2> DEFINE r == DeliveredRow(rem)
             n == NewMessage
  <2>1. /\ cards' = cards \union {PersonalMessage(w)}
        /\ occ' = [status |-> "delivered", rev |-> Max({occ.rev, rem.rev}), msg |-> n]
        /\ rem' = [r EXCEPT !.attempts = 0, !.msg = n]
        /\ deliv' = deliv /\ member' = member
    BY <1>2 DEF DeliverPersonally, PersonalMessage
  <2>2. r \in Reminder /\ r.state = "delivered" /\ r.status = "sent" /\ r.rev = rem.rev
    BY Shapes, DeliveredRowIs
  <2>3. n \in Nat
    BY NewMessageIs
  <2>4. Max({occ.rev, rem.rev}) \in Nat /\ occ.rev <= Max({occ.rev, rem.rev})
        /\ rem.rev <= Max({occ.rev, rem.rev})
    BY Shapes, MaxOfTwo
  <2>5. PersonalMessage(w) \in Card
    BY <2>3, TargetIs DEF PersonalMessage, Card, Owner
  <2> HIDE DEF r, n
  <2>6. rem' \in Reminder /\ rem'.state = "delivered" /\ rem'.status = "sent" /\ rem'.rev = rem.rev
    BY <2>1, <2>2, <2>3 DEF Reminder
  <2>7. occ' \in Occurrence /\ occ'.status = "delivered" /\ occ'.rev = Max({occ.rev, rem.rev})
    BY <2>1, <2>3, <2>4 DEF Occurrence
  <2>8. QED
    BY <2>1, <2>4, <2>5, <2>6, <2>7
<1>3. QED
  BY <1>1, <1>2

LEMMA DeliverPersonallyTypes ==
  ASSUME Types, NEW w \in Workers, DeliverPersonally(w)
  PROVE  Types'
<1>1. worker' \in [Workers -> WorkerState]
  BY StopIs DEF DeliverPersonally
<1>2. CASE OwnsLive(w) /\ FinalizeFailure(w) /\ cards' = cards
  BY <1>1, <1>2, FailureTypes, Shapes DEF DeliverPersonally, Types, TypesOf
<1>3. CASE OwnsLive(w) /\ ~(FinalizeFailure(w) /\ cards' = cards)
  <2>1. /\ cards' = cards \union {PersonalMessage(w)} /\ PersonalMessage(w) \in Card
        /\ occ' \in Occurrence /\ occ.rev <= occ'.rev
        /\ rem' \in Reminder /\ deliv' = deliv /\ member' = member
    BY <1>3, PersonalIs
  <2>2. cards' \subseteq Card /\ IsFiniteSet(cards')
    BY <2>1, Shapes, FS_AddElement
  <2>3. deliv' \in Rows(occ'.rev)
    BY <2>1, RowsKept
  <2>4. QED
    BY <1>1, <2>1, <2>2, <2>3, Shapes DEF DeliverPersonally, Types, TypesOf
<1>4. CASE ~OwnsLive(w)
  BY <1>1, <1>4, Shapes DEF DeliverPersonally, Types, TypesOf
<1>5. QED
  BY <1>2, <1>3, <1>4

LEMMA AbandonTypes ==
  ASSUME Types, NEW w \in Workers, Abandon(w)
  PROVE  Types'
<1>1. worker' \in [Workers -> WorkerState]
  BY StopIs DEF Abandon
<1>2. QED
  BY <1>1, Shapes DEF Abandon, Types, TypesOf

LEMMA ExpireLeaseTypes ==
  ASSUME Types, ExpireLease
  PROVE  Types'
<1>1. rem' \in Reminder
  BY Shapes DEF ExpireLease, Reminder
<1>2. QED
  BY <1>1, Shapes DEF ExpireLease, Types, TypesOf

\* The lease of one delivery row ends.
LateRow(d) == [d EXCEPT !.live = FALSE]

LEMMA ExpireRowIs ==
  ASSUME Types, NEW k \in Keys, ExpireRow(k)
  PROVE  /\ deliv' = [deliv EXCEPT ![k] = LateRow(deliv[k])]
         /\ LateRow(deliv[k]) \in Delivery /\ LateRow(deliv[k]).rev = deliv[k].rev
         /\ LateRow(deliv[k]).state = deliv[k].state /\ LateRow(deliv[k]).token = deliv[k].token
         /\ deliv' \in Rows(occ.rev)
<1>1. deliv' = [deliv EXCEPT ![k] = LateRow(deliv[k])]
  BY Shapes, RowsAre DEF ExpireRow, LateRow
<1>2. deliv[k] \in Delivery /\ deliv[k].rev <= occ.rev
  BY Shapes, RowsAre
<1>3. LateRow(deliv[k]) \in Delivery /\ LateRow(deliv[k]).rev = deliv[k].rev
         /\ LateRow(deliv[k]).state = deliv[k].state /\ LateRow(deliv[k]).token = deliv[k].token
  BY <1>2 DEF LateRow, Delivery
<1>4. deliv \in Rows(occ.rev) /\ occ.rev \in Nat
  BY Shapes
<1>5. [deliv EXCEPT ![k] = LateRow(deliv[k])] \in Rows(occ.rev)
  BY <1>2, <1>3, <1>4, RowChanged
<1>6. QED
  BY <1>1, <1>3, <1>5

LEMMA ExpireRowTypes ==
  ASSUME Types, NEW k \in Keys, ExpireRow(k)
  PROVE  Types'
BY ExpireRowIs, Shapes DEF ExpireRow, Types, TypesOf

-----------------------------------------------------------------------------
(* Types: the buttons                                                       *)

\* Done and snooze raise the revision of the occurrence.
LEMMA OccurrenceRaised ==
  ASSUME Types, NEW s \in {"completed", "snoozed", "cancelled"},
         occ' = [occ EXCEPT !.status = s, !.rev = occ.rev + 1]
  PROVE  occ' \in Occurrence /\ occ'.rev = occ.rev + 1 /\ occ.rev < occ'.rev /\ occ'.status = s
<1>1. occ \in Occurrence /\ occ.rev \in Nat /\ occ.rev + 1 \in Nat
  BY Shapes
<1> DEFINE n == occ.rev + 1
<1>2. n \in Nat /\ occ.rev < n /\ occ' = [occ EXCEPT !.status = s, !.rev = n]
  BY <1>1
<1> HIDE DEF n
<1>3. occ' \in Occurrence /\ occ'.rev = n /\ occ'.status = s
  BY <1>1, <1>2 DEF Occurrence
<1>4. QED
  BY <1>2, <1>3 DEF n

LEMMA ButtonRows ==
  ASSUME Types
  PROVE  /\ CompletedRow(rem) \in Reminder /\ CompletedRow(rem).state = "completed"
         /\ CompletedRow(rem).status = "sent" /\ CompletedRow(rem).rev = rem.rev + 1
         /\ SnoozedRow(rem) \in Reminder /\ SnoozedRow(rem).state = "snoozed"
         /\ SnoozedRow(rem).status = "pending" /\ SnoozedRow(rem).rev = rem.rev + 1
<1>1. rem \in Reminder /\ rem.rev + 1 \in Nat
  BY Shapes
<1>2. QED
  BY <1>1 DEF CompletedRow, SnoozedRow, Reminder, Live, Terminal, Null

LEMMA ActTypes ==
  ASSUME Types, NEW c \in cards, NEW kind, Act(c, kind)
  PROVE  \A a \in acts' : a.card \in Card
BY Shapes DEF Act

\* A button that ends the reminder takes every delivery with it.
LEMMA EndingRows ==
  ASSUME Types, ExpireMemberships(CancelRows(deliv)) \/ ExpireMemberships(deliv)
  PROVE  deliv' \in Rows(occ.rev) /\ member' \in [Participants -> Generation]
         /\ \A p \in Participants : member'[p].state # "active"
<1>1. deliv \in Rows(occ.rev) /\ occ.rev \in Nat /\ CancelRows(deliv) \in Rows(occ.rev)
  BY Shapes, CancelRowsAre
<1>2. QED
  BY <1>1, ExpireIs

LEMMA LaterRows ==
  ASSUME Types, occ' \in Occurrence, occ.rev <= occ'.rev, deliv' \in Rows(occ.rev)
  PROVE  deliv' \in Rows(occ'.rev)
BY RowsKept

LEMMA ParticipantDoneTypes ==
  ASSUME Types, NEW c \in cards, ParticipantDone(c)
  PROVE  Types'
<1>1. occ' = [occ EXCEPT !.status = "completed", !.rev = occ.rev + 1] /\ rem' = CompletedRow(rem)
      /\ Act(c, "done") /\ ExpireMemberships(CancelRows(deliv))
  BY DEF ParticipantDone
<1>2. occ' \in Occurrence /\ occ.rev <= occ'.rev
  BY <1>1, Shapes, OccurrenceRaised
<1>3. rem' \in Reminder
  BY <1>1, ButtonRows
<1>4. \A a \in acts' : a.card \in Card
  BY <1>1, ActTypes
<1>5. deliv' \in Rows(occ'.rev) /\ member' \in [Participants -> Generation]
  BY <1>1, <1>2, EndingRows, LaterRows
<1>6. QED
  BY <1>2, <1>3, <1>4, <1>5, Shapes DEF ParticipantDone, Types, TypesOf

LEMMA ParticipantSnoozeTypes ==
  ASSUME Types, NEW c \in cards, ParticipantSnooze(c)
  PROVE  Types'
<1>1. occ' = [occ EXCEPT !.status = "snoozed", !.rev = occ.rev + 1] /\ rem' = SnoozedRow(rem)
      /\ Act(c, "snooze") /\ ResetRows
  BY DEF ParticipantSnooze
<1>2. occ' \in Occurrence /\ occ.rev <= occ'.rev
  BY <1>1, Shapes, OccurrenceRaised
<1>3. rem' \in Reminder
  BY <1>1, ButtonRows
<1>4. \A a \in acts' : a.card \in Card
  BY <1>1, ActTypes
<1>5. deliv' \in Rows(occ'.rev) /\ confirmed' = {}
  BY <1>1, <1>2, Shapes, ResetRowsAre, LaterRows
<1>6. confirmed' \subseteq Keys
  BY <1>5
<1>7. QED
  BY <1>2, <1>3, <1>4, <1>5, <1>6, Shapes DEF ParticipantSnooze, Types, TypesOf

LEMMA OwnerDoneTypes ==
  ASSUME Types, NEW c \in cards, OwnerDone(c)
  PROVE  Types'
<1>1. occ' = [occ EXCEPT !.status = "completed", !.rev = occ.rev + 1]
      /\ rem' = [rem EXCEPT !.state = "completed", !.rev = rem.rev + 1]
      /\ Act(c, "done") /\ ExpireMemberships(CancelRows(deliv))
  BY DEF OwnerDone
<1>2. occ' \in Occurrence /\ occ.rev <= occ'.rev
  BY <1>1, Shapes, OccurrenceRaised
<1>3. rem' \in Reminder
  <2>1. rem \in Reminder /\ rem.rev + 1 \in Nat
    BY Shapes
  <2>2. QED
    BY <1>1, <2>1 DEF Reminder, Terminal
<1>4. \A a \in acts' : a.card \in Card
  BY <1>1, ActTypes
<1>5. deliv' \in Rows(occ'.rev) /\ member' \in [Participants -> Generation]
  BY <1>1, <1>2, EndingRows, LaterRows
<1>6. QED
  BY <1>2, <1>3, <1>4, <1>5, Shapes DEF OwnerDone, Types, TypesOf

LEMMA OwnerSnoozeTypes ==
  ASSUME Types, NEW c \in cards, OwnerSnooze(c)
  PROVE  Types'
<1>1. occ' = [occ EXCEPT !.status = "snoozed", !.rev = occ.rev + 1] /\ rem' = SnoozedRow(rem)
      /\ Act(c, "snooze") /\ ResetRows
  BY DEF OwnerSnooze
<1>2. occ' \in Occurrence /\ occ.rev <= occ'.rev
  BY <1>1, Shapes, OccurrenceRaised
<1>3. rem' \in Reminder
  BY <1>1, ButtonRows
<1>4. \A a \in acts' : a.card \in Card
  BY <1>1, ActTypes
<1>5. deliv' \in Rows(occ'.rev) /\ confirmed' = {}
  BY <1>1, <1>2, Shapes, ResetRowsAre, LaterRows
<1>6. confirmed' \subseteq Keys
  BY <1>5
<1>7. QED
  BY <1>2, <1>3, <1>4, <1>5, <1>6, Shapes DEF OwnerSnooze, Types, TypesOf

LEMMA OwnerEditTypes ==
  ASSUME Types, NEW c \in cards, OwnerEdit(c)
  PROVE  Types'
<1>1. rem \in Reminder /\ occ \in Occurrence /\ occ.rev \in Nat /\ rem.rev = occ.rev
  BY Shapes DEF OwnerEdit, OwnerMay
<1> DEFINE n == occ.rev + 1
<1>2. n \in Nat /\ occ.rev <= n
  BY <1>1
<1>3. /\ rem' = [rem EXCEPT !.rev = n, !.attempts = 0,
                            !.status = IF rem.state = "delivered" THEN "sent" ELSE "pending"]
      /\ occ' = [occ EXCEPT !.rev = n]
      /\ Act(c, "edit") /\ deliv' = deliv
  BY <1>1 DEF OwnerEdit
<1> HIDE DEF n
<1>4. rem' \in Reminder
  BY <1>1, <1>2, <1>3 DEF Reminder
<1>5. occ' \in Occurrence /\ occ.rev <= occ'.rev
  BY <1>1, <1>2, <1>3 DEF Occurrence
<1>6. \A a \in acts' : a.card \in Card
  BY <1>3, ActTypes
<1>7. deliv' \in Rows(occ'.rev)
  BY <1>3, <1>5, RowsKept
<1>8. QED
  BY <1>4, <1>5, <1>6, <1>7, Shapes DEF OwnerEdit, Types, TypesOf

LEMMA OwnerCancelIs ==
  ASSUME Types, OwnerCancel
  PROVE  /\ rem' \in Reminder /\ rem'.state = "cancelled" /\ rem'.status = "sent" /\ rem'.rev = rem.rev + 1
         /\ rem.state \notin {"completed", "cancelled"}
         /\ \/ /\ occ' = [occ EXCEPT !.status = "cancelled", !.rev = occ.rev + 1]
               /\ ExpireMemberships(CancelRows(deliv))
            \/ occ' = occ /\ ExpireMemberships(deliv)
<1> DEFINE r == Released(rem)
           n == rem.rev + 1
<1>1. r \in Reminder /\ n \in Nat
  BY Shapes, ReleasedRow
<1>2. rem' = [r EXCEPT !.state = "cancelled", !.status = "sent", !.rev = n, !.attempts = 0]
  BY Shapes, ReleasedRow DEF OwnerCancel
<1> HIDE DEF r, n
<1>3. rem' \in Reminder /\ rem'.state = "cancelled" /\ rem'.status = "sent" /\ rem'.rev = n
  BY <1>1, <1>2 DEF Reminder, Terminal
<1>4. QED
  BY <1>3 DEF OwnerCancel, n

LEMMA OwnerCancelTypes ==
  ASSUME Types, OwnerCancel
  PROVE  Types'
<1>1. occ' \in Occurrence /\ occ.rev <= occ'.rev
  <2>1. CASE occ' = occ
    BY <2>1, Shapes
  <2>2. CASE occ' = [occ EXCEPT !.status = "cancelled", !.rev = occ.rev + 1]
    BY <2>2, Shapes, OccurrenceRaised
  <2>3. QED
    BY <2>1, <2>2, OwnerCancelIs
<1>2. deliv' \in Rows(occ'.rev) /\ member' \in [Participants -> Generation]
  BY <1>1, OwnerCancelIs, EndingRows, LaterRows
<1>3. QED
  BY <1>1, <1>2, OwnerCancelIs, Shapes DEF OwnerCancel, Types, TypesOf

LEMMA TypesNext ==
  ASSUME Types, [Next]_vars
  PROVE  Types'
<1>1. CASE Sharing
  BY <1>1, CreateInviteTypes, RevokeInviteTypes, OpenLinkTypes, RevokeMembershipTypes,
     CleanupTypes DEF Sharing
<1>2. CASE Buttons
  BY <1>2, OpenCardTypes, ParticipantDoneTypes, ParticipantSnoozeTypes, OwnerDoneTypes,
     OwnerSnoozeTypes, OwnerEditTypes, OwnerCancelTypes DEF Buttons
<1>3. ASSUME NEW w \in Workers, WorkerStep(w)
      PROVE  Types'
  BY <1>3, ClaimDueTypes, PrepareOccurrenceTypes, ChoosePathTypes, PrepareRecipientsTypes,
     NextRecipientTypes, ValidateTypes, SendRecipientTypes, RecordSuccessTypes,
     RecordFailureTypes, ReadStatusTypes, RecordMessageTypes, FinalizeSuccessTypes, FailTypes,
     DeliverPersonallyTypes DEF WorkerStep
<1>4. CASE UNCHANGED vars
  BY <1>4 DEF vars, Types
<1>5. QED
  BY <1>1, <1>2, <1>3, <1>4, AcceptInviteTypes, SendCardTypes, AbandonTypes, ExpireLeaseTypes,
     ExpireRowTypes DEF Next

LEMMA SpecSteps ==
  Spec => Init /\ [][Next]_vars
BY PTL DEF Spec

\* Every variable has its type in every reachable state, and besides: no
\* delivery row is of a later revision than its occurrence, and an active
\* membership is of a generation that has rows.
THEOREM TypeCorrect == Spec => []TypeOK
<1>1. Init => Types
  BY InitTypes
<1>2. Types /\ [Next]_vars => Types'
  BY TypesNext
<1>3. Types => TypeOK
  BY TypesImplyTypeOK
<1>4. QED
  BY <1>1, <1>2, <1>3, SpecSteps, PTL

-----------------------------------------------------------------------------
(* The memberships: links, seats, the locks of the cards, and the fence     *)

\* A link that somebody opens stays as he read it until he has answered, since
\* nobody else gets its row lock.
OpenedLinks ==
  /\ \A p \in Participants : opening[p] # Closed =>
       opening[p].seen # "unused" /\ opening[p].seen = invite[opening[p].link].state
  /\ \A p, q \in Participants : opening[p] # Closed /\ opening[p].link = opening[q].link => p = q

LinksUsedOnce ==
  /\ \A i \in Invites : invite[i].state \in {"unused", "pending"} => admitted[i] = {}
  /\ \A i \in Invites : admitted[i] = {} \/ \E p \in Participants : admitted[i] = {p}

Seats == Cardinality(Members) <= Limit

\* A person whose card of /shared is on its way is a member, of the generation
\* that the card names.
CardLocks ==
  \A p \in Participants : Locked(p) =>
    /\ p \in Members /\ member[p].rev = reading[p].mrev
    /\ reading[p].to = p /\ reading[p].msg = Null

MemberInv ==
  OpenedLinks /\ LinksUsedOnce /\ Seats /\ CardLocks /\ HeldDeliveriesAreAuthorised /\ EndedIsUnshared

\* Most steps leave the memberships alone ...
Calm ==
  /\ UNCHANGED <<member, invite, opening, reading, admitted>>
  /\ rem'.state \in Terminal => rem.state \in Terminal
  /\ \A k \in Keys : deliv'[k].state = "processing" => deliv[k].state = "processing" \/ Authorised(k)

\* ... and the ones that end the reminder end every membership, with its fence.
Ending ==
  /\ UNCHANGED <<invite, opening, reading, admitted>>
  /\ \A p \in Members : ~Locked(p)
  /\ \A p \in Participants : member'[p].state # "active"
  /\ \A k \in Keys : deliv'[k].state = "processing" =>
       deliv[k].state = "processing" /\ (k = OwnerKey \/ ~Authorised(k))

LEMMA EndingIs ==
  ASSUME Types, NEW rows \in Rows(occ.rev), ExpireMemberships(rows),
         \A k \in Keys : rows[k].state = "processing" => deliv[k].state = "processing",
         UNCHANGED <<invite, opening, reading, admitted>>
  PROVE  Ending
<1>1. /\ \A p \in Members : ~Locked(p)
      /\ deliv' = Fenced(Members, rows)
      /\ \A p \in Participants : member'[p].state # "active"
  BY Shapes, ExpireIs
<1>2. ASSUME NEW k \in Keys, deliv'[k].state = "processing"
      PROVE  deliv[k].state = "processing" /\ (k = OwnerKey \/ ~Authorised(k))
  <2>1. rows[k].state = "processing" /\ ~(k[1] \in Members /\ k[2] = member[k[1]].rev)
    BY <1>1, <1>2, Shapes, FencedRows DEF Unfinished
  <2>2. QED
    BY <2>1 DEF Authorised
<1>3. QED
  BY <1>1, <1>2 DEF Ending

LEMMA ClosingEnds ==
  ASSUME Types, NEW rows, Closing(rows), ExpireMemberships(rows),
         UNCHANGED <<invite, opening, reading, admitted>>
  PROVE  Ending
BY EndingIs DEF Closing

LEMMA CancellingEnds ==
  ASSUME Types, ExpireMemberships(CancelRows(deliv)) \/ ExpireMemberships(deliv),
         UNCHANGED <<invite, opening, reading, admitted>>
  PROVE  Ending
<1>1. deliv \in Rows(occ.rev) /\ occ.rev \in Nat /\ CancelRows(deliv) \in Rows(occ.rev)
  BY Shapes, CancelRowsAre
<1>2. \A k \in Keys : deliv[k] \in Delivery /\ Cancelled(deliv[k]).state = "cancelled"
  BY Shapes, CancelledRow
<1>3. \A k \in Keys : CancelRows(deliv)[k].state = "processing" => deliv[k].state = "processing"
  BY <1>1, <1>2, CancelRowsAre
<1>4. QED
  BY <1>1, <1>3, EndingIs

LEMMA FailureCalm ==
  ASSUME Types, NEW w \in Workers, FinalizeFailure(w),
         UNCHANGED <<invite, opening, reading, admitted>>
  PROVE  Calm \/ Ending
<1>1. PICK rows : /\ Closing(rows)
                  /\ \/ rem'.state \in {"scheduled", "delivered"} /\ deliv' = rows /\ member' = member
                     \/ ExpireMemberships(rows)
  BY FinalizeFailureIs
<1>2. CASE ExpireMemberships(rows)
  BY <1>1, <1>2, ClosingEnds
<1>3. CASE rem'.state \in {"scheduled", "delivered"} /\ deliv' = rows /\ member' = member
  BY <1>1, <1>3 DEF Calm, Closing, Terminal
<1>4. QED
  BY <1>1, <1>2, <1>3

\* Only the first recipient that is authorised is taken.
LEMMA ClaimCalm ==
  ASSUME Types, NEW w \in Workers, NextRecipient(w)
  PROVE  \A k \in Keys : deliv'[k].state = "processing" => deliv[k].state = "processing" \/ Authorised(k)
<1>1. CASE deliv' = deliv
  BY <1>1
<1>2. CASE deliv' # deliv
  <2>1. worker[w].todo # {} /\ ClaimRecipient(w)
    BY <1>2 DEF NextRecipient
  <2>2. PICK k \in worker[w].todo : k \in Keys /\ ClaimStep(w, k)
    BY <2>1, ClaimRecipientIs
  <2>3. PICK d \in {deliv[k], Fresh(deliv[k], occ.rev)} :
          \/ deliv' = [deliv EXCEPT ![k] = Cancelled(d)]
          \/ Authorised(k) /\ deliv' = [deliv EXCEPT ![k] = Taken(d, w)]
    BY <1>2, <2>2 DEF ClaimStep
  <2>4. deliv \in [Keys -> Delivery] /\ d \in Delivery
    BY <2>2, <2>3, Shapes, RowsAre, FreshRow
  <2>5. Cancelled(d).state = "cancelled"
    BY <2>4, CancelledRow
  <2>6. QED
    BY <2>3, <2>4, <2>5
<1>3. QED
  BY <1>1, <1>2

LEMMA WorkerCalm ==
  ASSUME Types, NEW w \in Workers, WorkerStep(w)
  PROVE  Calm \/ Ending
<1>1. CASE ClaimDue(w)
  <2>1. CASE ClaimRow(w)
    <3>1. rem'.state = rem.state
      BY <2>1, Shapes DEF ClaimRow, Reminder
    <3>2. QED
      BY <1>1, <2>1, <3>1 DEF ClaimDue, ClaimRow, Calm
  <2>2. CASE Reconcile
    <3>1. \A k \in Keys : deliv'[k].state # "processing"
      BY <2>2, Shapes, ReconciledRows DEF Reconcile
    <3>2. rem'.state = "delivered"
      BY <2>2, Shapes, ReleasedRow DEF Reconcile, Reminder
    <3>3. QED
      BY <1>1, <2>2, <3>1, <3>2 DEF ClaimDue, Reconcile, Calm, Terminal
  <2>3. CASE Exhaust
    BY <1>1, <2>3, CancellingEnds DEF ClaimDue, Exhaust
  <2>4. QED
    BY <1>1, <2>1, <2>2, <2>3 DEF ClaimDue
<1>2. CASE PrepareOccurrence(w) \/ ChoosePath(w) \/ SendRecipient(w) \/ ReadStatus(w)
  BY <1>2 DEF PrepareOccurrence, ChoosePath, SendRecipient, ReadStatus, Calm
<1>3. CASE PrepareRecipients(w)
  <2>1. deliv' = deliv \/ deliv' = PreparedRows
    BY <1>3 DEF PrepareRecipients, PreparedRows
  <2>2. \A k \in Keys : PreparedRows[k].state = "processing" => deliv[k].state = "processing"
    BY Shapes, PreparedRowsAre, FreshRow
  <2>3. QED
    BY <1>3, <2>1, <2>2 DEF PrepareRecipients, Calm
<1>4. CASE NextRecipient(w)
  BY <1>4, ClaimCalm DEF NextRecipient, Calm
<1>5. CASE Validate(w)
  <2>1. deliv' = deliv \/ deliv' = [deliv EXCEPT ![Target(w)] = Cancelled(deliv[Target(w)])]
    BY <1>5 DEF Validate
  <2>2. Cancelled(deliv[Target(w)]).state = "cancelled" /\ deliv \in [Keys -> Delivery]
    BY Shapes, RowsAre, TargetIs, CancelledRow
  <2>3. \A k \in Keys : deliv'[k].state = "processing" => deliv[k].state = "processing"
    BY <2>1, <2>2
  <2>4. QED
    BY <1>5, <2>3 DEF Validate, Calm
<1>6. CASE RecordSuccess(w)
  <2>1. deliv' = deliv \/ deliv' = [deliv EXCEPT ![Target(w)] = SentRow(deliv[Target(w)], worker[w].msg)]
    BY <1>6, RecordSuccessIs
  <2>2. SentRow(deliv[Target(w)], worker[w].msg).state = "sent" /\ deliv \in [Keys -> Delivery]
    BY Shapes, RowsAre, TargetIs, RecordedRows
  <2>3. \A k \in Keys : deliv'[k].state = "processing" => deliv[k].state = "processing"
    BY <2>1, <2>2
  <2>4. QED
    BY <1>6, <2>3 DEF RecordSuccess, Calm
<1>7. CASE RecordFailure(w)
  <2>1. \E t \in BOOLEAN : deliv' = deliv \/ deliv' = [deliv EXCEPT ![Target(w)] = FailedRow(deliv[Target(w)], t)]
    BY <1>7, RecordFailureIs
  <2>2. \A t \in BOOLEAN : FailedRow(deliv[Target(w)], t).state = "failed"
    BY TargetIs, RecordedRows
  <2>3. deliv \in [Keys -> Delivery]
    BY Shapes, RowsAre
  <2>4. \A k \in Keys : deliv'[k].state = "processing" => deliv[k].state = "processing"
    BY <2>1, <2>2, <2>3
  <2>5. QED
    BY <1>7, <2>4 DEF RecordFailure, Calm
<1>8. CASE RecordMessage(w) \/ FinalizeSuccess(w)
  <2>1. rem'.state = rem.state \/ rem'.state = "delivered"
    <3>1. rem \in Reminder
      BY Shapes
    <3>2. CASE RecordMessage(w)
      BY <3>1, <3>2 DEF RecordMessage, Reminder
    <3>3. CASE FinalizeSuccess(w)
      BY <3>1, <3>3, DeliveredRowIs DEF FinalizeSuccess, Reminder
    <3>4. QED
      BY <1>8, <3>2, <3>3
  <2>2. QED
    BY <1>8, <2>1 DEF RecordMessage, FinalizeSuccess, Calm, Terminal
<1>9. CASE Fail(w)
  BY <1>9, FailureCalm DEF Fail, Calm
<1>10. CASE DeliverPersonally(w)
  <2>1. CASE OwnsLive(w)
    <3>1. \/ rem'.state = "delivered" /\ deliv' = deliv /\ member' = member
          \/ FinalizeFailure(w)
      BY <1>10, <2>1, PersonalIs
    <3>2. QED
      BY <1>10, <3>1, FailureCalm DEF DeliverPersonally, Calm, Terminal
  <2>2. QED
    BY <1>10, <2>1 DEF DeliverPersonally, Calm
<1>11. QED
  BY <1>1, <1>2, <1>3, <1>4, <1>5, <1>6, <1>7, <1>8, <1>9, <1>10 DEF WorkerStep

LEMMA ButtonCalm ==
  ASSUME Types, NEW c \in cards,
         ParticipantDone(c) \/ ParticipantSnooze(c) \/ OwnerDone(c) \/ OwnerSnooze(c) \/ OwnerEdit(c)
  PROVE  Calm \/ Ending
<1>1. CASE ParticipantDone(c) \/ OwnerDone(c)
  BY <1>1, CancellingEnds DEF ParticipantDone, OwnerDone
<1>2. CASE ParticipantSnooze(c) \/ OwnerSnooze(c)
  <2>1. rem' = SnoozedRow(rem) /\ ResetRows
    BY <1>2 DEF ParticipantSnooze, OwnerSnooze
  <2>2. rem'.state = "snoozed" /\ \A k \in Keys : deliv'[k].state # "processing"
    BY <2>1, Shapes, ButtonRows, ResetRowsAre
  <2>3. QED
    BY <1>2, <2>2 DEF ParticipantSnooze, OwnerSnooze, Calm, Terminal
<1>3. CASE OwnerEdit(c)
  <2>1. rem'.state = rem.state
    BY <1>3, Shapes DEF OwnerEdit, Reminder
  <2>2. QED
    BY <1>3, <2>1 DEF OwnerEdit, Calm
<1>4. QED
  BY <1>1, <1>2, <1>3

LEMMA StepsAre ==
  ASSUME Types, [Next]_vars
  PROVE  \/ Calm \/ Ending
         \/ \E i \in Invites : CreateInvite(i) \/ RevokeInvite(i)
         \/ \E p \in Participants, i \in Invites : OpenLink(p, i)
         \/ \E p \in Participants : RevokeMembership(p) \/ AcceptInvite(p) \/ OpenCard(p) \/ SendCard(p)
         \/ \E old \in SUBSET (Participants \union {Owner}), lapsed \in SUBSET Invites : Cleanup(old, lapsed)
<1>1. CASE OwnerCancel
  <2>1. Ending
    BY <1>1, OwnerCancelIs, CancellingEnds DEF OwnerCancel
  <2>2. QED
    BY <2>1
<1>2. CASE UNCHANGED vars
  BY <1>2 DEF vars, Calm
<1>3. CASE ExpireLease \/ \E w \in Workers : Abandon(w)
  <2>1. rem'.state = rem.state
    BY <1>3, Shapes DEF ExpireLease, Abandon, Reminder
  <2>2. Calm
    BY <1>3, <2>1 DEF ExpireLease, Abandon, Calm
  <2>3. QED
    BY <2>2
<1>4. ASSUME NEW k \in Keys, ExpireRow(k) PROVE Calm
  <2>1. deliv[k].state = "processing" /\ deliv' = [deliv EXCEPT ![k] = LateRow(deliv[k])]
        /\ deliv \in [Keys -> Delivery]
    BY <1>4, Shapes, RowsAre, ExpireRowIs DEF ExpireRow
  <2>2. \A j \in Keys : j # k => deliv'[j] = deliv[j]
    BY <2>1
  <2>3. QED
    BY <1>4, <2>1, <2>2 DEF ExpireRow, Calm
<1>5. QED
  BY <1>1, <1>2, <1>3, <1>4, WorkerCalm, ButtonCalm DEF Next, Sharing, Buttons

LEMMA MembersAre ==
  Members \subseteq Participants /\ IsFiniteSet(Members) /\ Cardinality(Members) \in Nat /\ Limit \in Nat
<1>1. Members \subseteq Participants
  BY DEF Members
<1>2. QED
  BY <1>1, SharingAssumption, FS_Subset, FS_CardinalityType

LEMMA FewerMembers ==
  ASSUME Seats, Members' \subseteq Members
  PROVE  Seats'
<1> DEFINE M == Members
           N == Members'
<1>1. IsFiniteSet(M) /\ Cardinality(M) \in Nat /\ Limit \in Nat
  BY MembersAre
<1> HIDE DEF M, N
<1>2. N \subseteq M => Cardinality(N) <= Cardinality(M) /\ Cardinality(N) \in Nat
  BY <1>1, FS_Subset, FS_CardinalityType
<1>3. QED
  BY <1>1, <1>2 DEF Seats, M, N

LEMMA InitMembers ==
  ASSUME Init
  PROVE  MemberInv
<1>1. OpenedLinks /\ LinksUsedOnce /\ CardLocks
  BY DEF Init, OpenedLinks, LinksUsedOnce, CardLocks, Locked, NoInvite
<1>2. Seats
  <2>1. PICK joined \in SUBSET Participants :
          /\ Cardinality(joined) <= Limit
          /\ member = [p \in Participants |->
               IF p \in joined THEN [state |-> "active", rev |-> 1, id |-> 0]
               ELSE [state |-> "none", rev |-> 0, id |-> 0]]
    BY DEF Init
  <2>2. Members = joined
    BY <2>1 DEF Members
  <2>3. QED
    BY <2>1, <2>2 DEF Seats
<1>3. HeldDeliveriesAreAuthorised
  BY NoDeliveryIs DEF Init, HeldDeliveriesAreAuthorised
<1>4. EndedIsUnshared
  BY DEF Init, EndedIsUnshared, Terminal
<1>5. QED
  BY <1>1, <1>2, <1>3, <1>4 DEF MemberInv

LEMMA CalmKeeps ==
  ASSUME Types, MemberInv, Calm
  PROVE  MemberInv'
<1>1. Members' = Members /\ \A k \in Keys : Authorised(k)' <=> Authorised(k)
  BY DEF Calm, Members, Authorised
<1>2. OpenedLinks' /\ LinksUsedOnce'
  BY DEF MemberInv, Calm, OpenedLinks, LinksUsedOnce
<1>3. Seats' /\ CardLocks'
  BY <1>1 DEF MemberInv, Calm, Seats, CardLocks, Locked
<1>4. HeldDeliveriesAreAuthorised'
  BY <1>1 DEF MemberInv, Calm, HeldDeliveriesAreAuthorised
<1>5. EndedIsUnshared'
  BY <1>1 DEF MemberInv, Calm, EndedIsUnshared
<1>6. QED
  BY <1>2, <1>3, <1>4, <1>5 DEF MemberInv

LEMMA EndingKeeps ==
  ASSUME Types, MemberInv, Ending
  PROVE  MemberInv'
<1>1. Members' = {}
  BY DEF Ending, Members
<1>2. OpenedLinks' /\ LinksUsedOnce'
  BY DEF MemberInv, Ending, OpenedLinks, LinksUsedOnce
<1>3. Seats'
  BY <1>1, FewerMembers DEF MemberInv
<1>4. \A p \in Participants : ~Locked(p)'
  BY DEF MemberInv, Ending, CardLocks, Locked
<1>5. CardLocks'
  BY <1>4 DEF CardLocks
<1>6. HeldDeliveriesAreAuthorised'
  BY DEF MemberInv, Ending, HeldDeliveriesAreAuthorised, Authorised
<1>7. EndedIsUnshared'
  BY <1>1 DEF EndedIsUnshared
<1>8. QED
  BY <1>2, <1>3, <1>5, <1>6, <1>7 DEF MemberInv

\* Steps that change links or cards only.
LEMMA SameMembers ==
  ASSUME MemberInv, UNCHANGED <<rem, deliv, member>>
  PROVE  Seats' /\ HeldDeliveriesAreAuthorised' /\ EndedIsUnshared'
<1>1. Members' = Members /\ \A k \in Keys : Authorised(k)' <=> Authorised(k)
  BY DEF Members, Authorised
<1>2. QED
  BY <1>1 DEF MemberInv, Seats, HeldDeliveriesAreAuthorised, EndedIsUnshared

LEMMA SameCards ==
  ASSUME MemberInv, UNCHANGED <<member, reading>>
  PROVE  CardLocks'
BY DEF MemberInv, CardLocks, Locked, Members

LEMMA LinkKeeps ==
  ASSUME Types, MemberInv, NEW i \in Invites, CreateInvite(i) \/ RevokeInvite(i)
  PROVE  MemberInv'
<1>1. PICK s : /\ invite' = [invite EXCEPT ![i].state = s]
               /\ invite[i].state = "unused" \/ (invite[i].state = "pending" /\ ~Held(i))
               /\ invite[i].state = "pending" => s \in {"expired", "revoked"}
               /\ invite[i].state = "unused" => s = "pending"
  BY DEF CreateInvite, RevokeInvite
<1>2. UNCHANGED <<rem, deliv, member, reading, opening, admitted>>
  BY DEF CreateInvite, RevokeInvite
<1>3. \A p \in Participants : opening[p] # Closed => opening[p].link # i /\ opening[p].link \in Invites
  BY <1>1, Shapes DEF Held, MemberInv, OpenedLinks, Opening
<1>4. \A j \in Invites : j # i => invite'[j] = invite[j]
  BY <1>1, Shapes
<1>5. OpenedLinks'
  BY <1>2, <1>3, <1>4 DEF MemberInv, OpenedLinks
<1>6. LinksUsedOnce'
  BY <1>1, <1>2, <1>4, Shapes DEF MemberInv, LinksUsedOnce
<1>7. QED
  BY <1>2, <1>5, <1>6, SameMembers, SameCards DEF MemberInv

LEMMA OpenLinkKeeps ==
  ASSUME Types, MemberInv, NEW p \in Participants, NEW i \in Invites, OpenLink(p, i)
  PROVE  MemberInv'
<1> DEFINE o == [link |-> i, seen |-> invite[i].state]
<1>1. /\ opening' = [opening EXCEPT ![p] = o] /\ invite[i].state # "unused"
      /\ \A q \in Participants : opening[q].link # i
      /\ UNCHANGED <<rem, deliv, member, reading, invite, admitted>>
  BY DEF OpenLink, LinkFree, Held
<1>2. o.link = i /\ o.seen = invite[i].state
  OBVIOUS
<1> HIDE DEF o
<1>3. opening'[p] = o /\ \A q \in Participants : q # p => opening'[q] = opening[q]
  BY <1>1, Shapes
<1>4. OpenedLinks'
  <2>1. ASSUME NEW q \in Participants, opening'[q] # Closed
        PROVE  opening'[q].seen # "unused" /\ opening'[q].seen = invite'[opening'[q].link].state
    BY <1>1, <1>2, <1>3, <2>1 DEF MemberInv, OpenedLinks
  <2>2. ASSUME NEW q \in Participants, NEW r \in Participants, opening'[q] # Closed,
               opening'[q].link = opening'[r].link
        PROVE  q = r
    BY <1>1, <1>2, <1>3, <2>2 DEF MemberInv, OpenedLinks
  <2>3. QED
    BY <2>1, <2>2 DEF OpenedLinks
<1>5. LinksUsedOnce'
  BY <1>1 DEF MemberInv, LinksUsedOnce
<1>6. QED
  BY <1>1, <1>4, <1>5, SameMembers, SameCards DEF MemberInv

LEMMA CardKeeps ==
  ASSUME Types, MemberInv, NEW p \in Participants, OpenCard(p) \/ SendCard(p)
  PROVE  MemberInv'
<1>1. UNCHANGED <<rem, deliv, member, opening, invite, admitted>>
  BY DEF OpenCard, SendCard
<1>2. OpenedLinks' /\ LinksUsedOnce'
  BY <1>1 DEF MemberInv, OpenedLinks, LinksUsedOnce
<1>3. Members' = Members
  BY <1>1 DEF Members
<1>4. CardLocks'
  <2>1. CASE OpenCard(p)
    <3> DEFINE c == [to |-> p, mrev |-> member[p].rev, mid |-> member[p].id,
                     rev |-> IF occ.status = "delivered" /\ rem.named THEN occ.rev ELSE 0, msg |-> Null]
    <3>1. reading' = [reading EXCEPT ![p] = c] /\ p \in Members
      BY <2>1 DEF OpenCard
    <3>2. c.to = p /\ c.mrev = member[p].rev /\ c.msg = Null
      OBVIOUS
    <3> HIDE DEF c
    <3>3. reading'[p] = c /\ \A q \in Participants : q # p => reading'[q] = reading[q]
      BY <3>1, Shapes
    <3>4. QED
      BY <1>1, <1>3, <3>1, <3>2, <3>3 DEF MemberInv, CardLocks, Locked
  <2>2. CASE SendCard(p)
    <3>1. reading'[p] = NoCard /\ \A q \in Participants : q # p => reading'[q] = reading[q]
      BY <2>2, Shapes DEF SendCard
    <3>2. QED
      BY <1>1, <1>3, <3>1 DEF MemberInv, CardLocks, Locked
  <2>3. QED
    BY <2>1, <2>2
<1>5. QED
  BY <1>1, <1>2, <1>4, SameMembers DEF MemberInv

\* Somebody leaves: his card is not on its way, and the fence has taken his
\* deliveries.
LEMMA LeavingKeeps ==
  ASSUME Types, MemberInv, NEW ps \in SUBSET Members,
         UNCHANGED <<rem, reading>>, \A p \in ps : ~Locked(p),
         \A p \in Participants : \/ member'[p] = Revoked(ps)[p]
                                 \/ member[p].state = "revoked" /\ member'[p].state = "none",
         \A k \in Keys : deliv'[k] = NoDelivery \/ deliv'[k] = Fenced(ps, deliv)[k]
  PROVE  Seats' /\ CardLocks' /\ HeldDeliveriesAreAuthorised' /\ EndedIsUnshared'
<1>1. ps \subseteq Participants
  BY MembersAre
<1>2. \A p \in Participants :
        /\ p \in ps => member'[p].state # "active"
        /\ p \in Members \ ps => member'[p] = member[p]
        /\ member'[p].state = "active" => p \in Members \ ps
  BY <1>1, Shapes, RevokedMembers DEF Members
<1>3. Members' = Members \ ps
  BY <1>2, MembersAre DEF Members
<1>4. Seats'
  BY <1>3, FewerMembers DEF MemberInv
<1>5. CardLocks'
  <2>1. ASSUME NEW p \in Participants, Locked(p)'
        PROVE  /\ p \in Members' /\ member'[p].rev = reading'[p].mrev
               /\ reading'[p].to = p /\ reading'[p].msg = Null
    <3>1. reading' = reading /\ Locked(p)
      BY <2>1 DEF Locked
    <3>2. p \notin ps
      BY <3>1
    <3>3. p \in Members /\ member[p].rev = reading[p].mrev /\ reading[p].to = p /\ reading[p].msg = Null
      BY <3>1 DEF MemberInv, CardLocks
    <3>4. QED
      BY <1>2, <1>3, <3>1, <3>2, <3>3
  <2>2. QED
    BY <2>1 DEF CardLocks
<1>6. HeldDeliveriesAreAuthorised'
  <2>1. ASSUME NEW k \in Keys, deliv'[k].state = "processing"
        PROVE  Authorised(k)'
    <3>1. deliv'[k] = Fenced(ps, deliv)[k]
      BY <2>1, NoDeliveryIs
    <3>2. deliv[k].state = "processing" /\ ~(k[1] \in ps /\ k[2] = member[k[1]].rev)
      BY <2>1, <3>1, Shapes, FencedRows DEF Unfinished
    <3>3. Authorised(k)
      BY <3>2 DEF MemberInv, HeldDeliveriesAreAuthorised
    <3>4. CASE k = OwnerKey
      BY <3>4 DEF Authorised
    <3>5. CASE k # OwnerKey
      <4>1. k[1] \in Members \ ps /\ member[k[1]].rev = k[2]
        BY <3>2, <3>3, <3>5 DEF Authorised
      <4>2. k[1] \in Members' /\ member'[k[1]] = member[k[1]]
        BY <1>2, <1>3, <4>1, MembersAre
      <4>3. QED
        BY <4>1, <4>2 DEF Authorised
    <3>6. QED
      BY <3>4, <3>5
  <2>2. QED
    BY <2>1 DEF HeldDeliveriesAreAuthorised
<1>7. EndedIsUnshared'
  BY <1>3 DEF MemberInv, EndedIsUnshared
<1>8. QED
  BY <1>4, <1>5, <1>6, <1>7

LEMMA RevokeMembershipKeeps ==
  ASSUME Types, MemberInv, NEW p \in Participants, RevokeMembership(p)
  PROVE  MemberInv'
<1>1. /\ p \in Members /\ ~Locked(p) /\ member' = Revoked({p}) /\ deliv' = Fenced({p}, deliv)
      /\ UNCHANGED <<rem, invite, opening, reading, admitted>>
  BY DEF RevokeMembership
<1>2. Seats' /\ CardLocks' /\ HeldDeliveriesAreAuthorised' /\ EndedIsUnshared'
  BY <1>1, LeavingKeeps
<1>3. OpenedLinks' /\ LinksUsedOnce'
  BY <1>1 DEF MemberInv, OpenedLinks, LinksUsedOnce
<1>4. QED
  BY <1>2, <1>3 DEF MemberInv

LEMMA CleanupKeeps ==
  ASSUME Types, MemberInv, NEW old, NEW lapsed, Cleanup(old, lapsed)
  PROVE  MemberInv'
<1>1. UNCHANGED <<rem, opening, reading, admitted>>
  BY DEF Cleanup
<1>2. Seats' /\ CardLocks' /\ HeldDeliveriesAreAuthorised' /\ EndedIsUnshared'
  BY <1>1, CleanupIs, LeavingKeeps
<1>3. \A i \in Invites : \/ i \notin lapsed /\ invite'[i] = invite[i]
                         \/ /\ i \in lapsed /\ invite[i].state = "pending" /\ ~Held(i)
                            /\ invite'[i].state = "expired"
  BY Shapes, CleanupIs DEF Invite
<1>4. \A p \in Participants : opening[p] # Closed => opening[p].link \in Invites /\ opening[p].link \notin lapsed
  BY <1>3, Shapes DEF Opening, Held
<1>5. OpenedLinks'
  BY <1>1, <1>3, <1>4 DEF MemberInv, OpenedLinks
<1>6. LinksUsedOnce'
  BY <1>1, <1>3 DEF MemberInv, LinksUsedOnce
<1>7. QED
  BY <1>2, <1>5, <1>6 DEF MemberInv

\* Somebody joins: he was no member, so he has no card on its way and no
\* delivery in flight, and there was a seat left.
LEMMA JoiningKeeps ==
  ASSUME Types, MemberInv, NEW p \in Participants, p \notin Members,
         Cardinality(Members) < Limit, Supported, member[p].rev < MaxRevision,
         member' = [member EXCEPT ![p] = Joined(member[p])],
         UNCHANGED <<rem, deliv, reading>>
  PROVE  Seats' /\ CardLocks' /\ HeldDeliveriesAreAuthorised' /\ EndedIsUnshared'
<1>1. member'[p].state = "active" /\ \A q \in Participants : q # p => member'[q] = member[q]
  BY Shapes, JoinedIs
<1>2. Members' = Members \union {p}
  BY <1>1 DEF Members
<1>3. Seats'
  <2> DEFINE M == Members
  <2>1. IsFiniteSet(M) /\ Cardinality(M) \in Nat /\ Limit \in Nat /\ p \notin M /\ Cardinality(M) < Limit
    BY MembersAre
  <2> HIDE DEF M
  <2>2. Cardinality(M \union {p}) = Cardinality(M) + 1
    BY <2>1, FS_AddElement
  <2>3. Cardinality(M \union {p}) <= Limit
    BY <2>1, <2>2
  <2>4. QED
    BY <1>2, <2>3 DEF Seats, M
<1>4. CardLocks'
  BY <1>1, <1>2 DEF MemberInv, CardLocks, Locked
<1>5. HeldDeliveriesAreAuthorised'
  BY <1>1, <1>2, KeysAre DEF MemberInv, HeldDeliveriesAreAuthorised, Authorised
<1>6. EndedIsUnshared'
  BY DEF Supported, Live, Terminal, EndedIsUnshared
<1>7. QED
  BY <1>3, <1>4, <1>5, <1>6

LEMMA AcceptInviteKeeps ==
  ASSUME Types, MemberInv, NEW p \in Participants, AcceptInvite(p)
  PROVE  MemberInv'
<1> DEFINE i == opening[p].link
           seen == opening[p].seen
<1>1. /\ Accepted(p, i, seen) /\ member[p].rev < MaxRevision /\ i \in Invites
      /\ opening[p] # Closed /\ opening' = [opening EXCEPT ![p] = Closed]
      /\ UNCHANGED <<rem, deliv, reading>>
  BY Shapes DEF AcceptInvite, Opening
<1>2. seen = invite[i].state /\ seen # "unused"
      /\ \A q \in Participants : q # p => opening[q].link # i
  BY <1>1 DEF MemberInv, OpenedLinks
<1>3. opening'[p] = Closed /\ \A q \in Participants : q # p => opening'[q] = opening[q]
  BY <1>1, Shapes
<1>4. \A q \in Participants : opening'[q] # Closed => q # p /\ opening'[q] = opening[q] /\ opening[q].link \in Invites
  BY <1>3, Shapes DEF Opening
<1>5. \/ /\ \/ invite' = invite
            \/ \E s \in {"expired", "revoked", "accepted"} : invite'[i].state = s
         /\ member' = member /\ admitted' = admitted
      \/ /\ seen = "pending" /\ Supported /\ p \notin Members /\ Cardinality(Members) < Limit
         /\ invite'[i].state = "accepted"
         /\ member' = [member EXCEPT ![p] = Joined(member[p])]
         /\ admitted' = [admitted EXCEPT ![i] = admitted[i] \union {p}]
  <2>1. \A s : [invite EXCEPT ![i].state = s][i].state = s
    BY <1>1, Shapes DEF Invite
  <2>2. [invite EXCEPT ![i].state = "accepted", ![i].by = p][i].state = "accepted"
    BY <1>1, Shapes DEF Invite
  <2> HIDE DEF i, seen
  <2>3. QED
    BY <1>1, <2>1, <2>2, AcceptedIs
<1>6. \A j \in Invites : j # i => invite'[j] = invite[j]
  <2>1. \/ invite' = invite
        \/ \E s \in {"expired", "revoked"} : invite' = [invite EXCEPT ![i].state = s]
        \/ invite' = [invite EXCEPT ![i].state = "accepted", ![i].by = p]
    BY <1>1, AcceptedIs
  <2>2. QED
    BY <2>1, Shapes
<1> HIDE DEF i, seen
<1>7. OpenedLinks'
  <2>1. ASSUME NEW q \in Participants, opening'[q] # Closed
        PROVE  opening'[q].seen # "unused" /\ opening'[q].seen = invite'[opening'[q].link].state
    <3>1. opening'[q] = opening[q] /\ opening[q] # Closed /\ opening[q].link \in Invites /\ opening[q].link # i
      BY <1>2, <1>4, <2>1
    <3>2. QED
      BY <1>6, <3>1 DEF MemberInv, OpenedLinks
  <2>2. ASSUME NEW q \in Participants, NEW r \in Participants, opening'[q] # Closed,
               opening'[q].link = opening'[r].link
        PROVE  q = r
    <3>1. opening'[q] = opening[q] /\ opening[q] # Closed /\ opening[q].link \in Invites
      BY <1>4, <2>2
    <3>2. opening'[r] # Closed
      BY <2>2, <3>1, SharingAssumption DEF Closed
    <3>3. opening'[r] = opening[r]
      BY <1>4, <3>2
    <3>4. QED
      BY <2>2, <3>1, <3>3 DEF MemberInv, OpenedLinks
  <2>3. QED
    BY <2>1, <2>2 DEF OpenedLinks
<1>8. CASE member' = member /\ admitted' = admitted
           /\ (invite' = invite \/ \E s \in {"expired", "revoked", "accepted"} : invite'[i].state = s)
  <2>1. LinksUsedOnce'
    BY <1>6, <1>8 DEF MemberInv, LinksUsedOnce
  <2>2. QED
    BY <1>1, <1>7, <1>8, <2>1, SameMembers, SameCards DEF MemberInv
<1>9. CASE /\ seen = "pending" /\ Supported /\ p \notin Members /\ Cardinality(Members) < Limit
           /\ invite'[i].state = "accepted"
           /\ member' = [member EXCEPT ![p] = Joined(member[p])]
           /\ admitted' = [admitted EXCEPT ![i] = admitted[i] \union {p}]
  <2>1. admitted[i] = {}
    BY <1>1, <1>2, <1>9 DEF MemberInv, LinksUsedOnce
  <2>2. admitted'[i] = {p} /\ \A j \in Invites : j # i => admitted'[j] = admitted[j]
    BY <1>1, <1>9, <2>1, Shapes
  <2>3. LinksUsedOnce'
    <3>1. \A j \in Invites : invite'[j].state \in {"unused", "pending"} => admitted'[j] = {}
      BY <1>6, <1>9, <2>2 DEF MemberInv, LinksUsedOnce
    <3>2. \A j \in Invites : admitted'[j] = {} \/ \E q \in Participants : admitted'[j] = {q}
      BY <2>2 DEF MemberInv, LinksUsedOnce
    <3>3. QED
      BY <3>1, <3>2 DEF LinksUsedOnce
  <2>4. QED
    BY <1>1, <1>7, <1>9, <2>3, JoiningKeeps DEF MemberInv
<1>10. QED
  BY <1>5, <1>8, <1>9

LEMMA MembersNext ==
  ASSUME Types, MemberInv, [Next]_vars
  PROVE  MemberInv'
BY StepsAre, CalmKeeps, EndingKeeps, LinkKeeps, OpenLinkKeeps, RevokeMembershipKeeps,
   AcceptInviteKeeps, CardKeeps, CleanupKeeps

LEMMA Always == Spec => [](Types /\ MemberInv)
<1>1. Init => Types /\ MemberInv
  BY InitTypes, InitMembers
<1>2. Types /\ MemberInv /\ [Next]_vars => Types' /\ MemberInv'
  BY TypesNext, MembersNext
<1>3. QED
  BY <1>1, <1>2, SpecSteps, PTL

\* A link makes at most one person a member, however many people open it at
\* once and whatever the owner revokes meanwhile, and the members never exceed
\* the limit (create_invite, accept_invite): the row lock of the link and the
\* state read under it are what it takes.
THEOREM LinksAdmit == Spec => []LinksAdmitOne
<1>1. Types /\ MemberInv => LinksAdmitOne
  <2> SUFFICES ASSUME Types, MemberInv PROVE LinksAdmitOne
    OBVIOUS
  <2>1. ASSUME NEW i \in Invites PROVE Cardinality(admitted[i]) <= 1
    <3>1. admitted[i] = {} \/ \E p \in Participants : admitted[i] = {p}
      BY DEF MemberInv, LinksUsedOnce
    <3>2. QED
      BY <3>1, FS_EmptySet, FS_Singleton
  <2>2. QED
    BY <2>1 DEF MemberInv, LinksUsedOnce, Seats, LinksAdmitOne
<1>2. QED
  BY <1>1, Always, PTL

\* A reminder that ended has no member left, whatever ended it: a button, the
\* worker that gives up, or /delete in the middle of the fan-out.
THEOREM EndedUnshares == Spec => []EndedIsUnshared
<1>1. MemberInv => EndedIsUnshared
  BY DEF MemberInv
<1>2. QED
  BY <1>1, Always, PTL

\* A delivery that a worker holds is for the owner or for a membership of that
\* very generation (_revoke_membership_in_session and the claim of a delivery).
THEOREM HeldIsAuthorised == Spec => []HeldDeliveriesAreAuthorised
<1>1. MemberInv => HeldDeliveriesAreAuthorised
  BY DEF MemberInv
<1>2. QED
  BY <1>1, Always, PTL

\* The card of /shared goes out to a person who is a member at that moment, in
\* the generation its buttons name: authorize_shared_card_send keeps the row of
\* the membership locked, and whatever ends a membership waits for that lock.
THEOREM CardsFindMembers == Spec => CardsGoToMembers
<1>1. MemberInv => \A p \in Participants : SendCard(p) => p \in Members /\ member[p].rev = reading[p].mrev
  BY DEF MemberInv, CardLocks, SendCard
<1>2. QED
  BY <1>1, Always, PTL DEF CardsGoToMembers

-----------------------------------------------------------------------------
(* The buttons                                                              *)

\* The cards are of the owner, with no membership, or of people; the buttons
\* that took effect are of revisions the occurrence has left behind.
CardInv ==
  /\ \A c \in cards : c.to = Owner => c.mrev = 0 /\ c.mid = 0
  /\ \A a \in acts : a.card.rev < occ.rev
  /\ ButtonsNameTheirMember /\ OneButtonPerGeneration

LEMMA WorkerRevision ==
  ASSUME Types, NEW w \in Workers, WorkerStep(w)
  PROVE  occ.rev <= occ'.rev /\ acts' = acts
<1>1. occ \in Occurrence /\ occ.rev \in Nat /\ occ.rev <= occ.rev
  BY Shapes
<1>2. CASE ClaimDue(w)
  BY <1>1, <1>2, Shapes DEF ClaimDue, ClaimRow, Reconcile, Exhaust, Occurrence
<1>3. CASE PrepareOccurrence(w)
  <2>1. Max({occ.rev, rem.rev}) \in Nat /\ occ.rev <= Max({occ.rev, rem.rev})
    BY Shapes, MaxOfTwo
  <2>2. QED
    BY <1>1, <1>3, <2>1 DEF PrepareOccurrence
<1>4. CASE PrepareRecipients(w)
  <2>1. SharedRevision = occ.rev
    BY Shapes, SharedRevisionIs
  <2>2. occ' = occ \/ occ' = [occ EXCEPT !.rev = occ.rev]
    BY <1>4, <2>1 DEF PrepareRecipients
  <2>3. QED
    BY <1>1, <1>4, <2>2 DEF PrepareRecipients, Occurrence
<1>5. CASE \/ ChoosePath(w) \/ NextRecipient(w) \/ Validate(w) \/ SendRecipient(w) \/ RecordSuccess(w)
           \/ RecordFailure(w) \/ ReadStatus(w)
  BY <1>1, <1>5 DEF ChoosePath, NextRecipient, Validate, SendRecipient, RecordSuccess, RecordFailure, ReadStatus
<1>6. CASE RecordMessage(w) \/ FinalizeSuccess(w)
  <2> DEFINE n == Max({occ.rev, worker[w].keyRev})
  <2>1. n \in Nat /\ occ.rev <= n
    BY Shapes, TargetIs, MaxOfTwo
  <2>2. \/ occ' = occ \/ occ' = [status |-> "delivered", rev |-> n, msg |-> worker[w].msg]
        \/ occ' = [occ EXCEPT !.status = "delivered", !.rev = n]
    <3>1. CASE RecordMessage(w)
      BY <3>1 DEF RecordMessage
    <3>2. CASE FinalizeSuccess(w)
      BY <3>2 DEF FinalizeSuccess
    <3>3. QED
      BY <1>6, <3>1, <3>2
  <2> HIDE DEF n
  <2>3. occ' = occ \/ occ'.rev = n
    <3>1. [occ EXCEPT !.status = "delivered", !.rev = n].rev = n
      BY <1>1 DEF Occurrence
    <3>2. [status |-> "delivered", rev |-> n, msg |-> worker[w].msg].rev = n
      OBVIOUS
    <3>3. QED
      BY <2>2, <3>1, <3>2
  <2>4. QED
    BY <1>1, <1>6, <2>1, <2>3 DEF RecordMessage, FinalizeSuccess
<1>7. CASE Fail(w)
  <2>1. occ' = occ \/ FinalizeFailure(w)
    BY <1>7 DEF Fail
  <2>2. QED
    BY <1>1, <1>7, <2>1, FinalizeFailureIs DEF Fail
<1>8. CASE DeliverPersonally(w)
  <2>1. occ' = occ \/ occ.rev <= occ'.rev \/ FinalizeFailure(w)
    BY <1>8, PersonalIs DEF DeliverPersonally
  <2>2. QED
    BY <1>1, <1>8, <2>1, FinalizeFailureIs DEF DeliverPersonally
<1>9. QED
  BY <1>2, <1>3, <1>4, <1>5, <1>6, <1>7, <1>8 DEF WorkerStep

\* A button that takes effect is of the revision of the occurrence, and leaves
\* it behind.
Pressed(c) ==
  /\ c.to = Owner \/ (c.to \in Members /\ c.mid = member[c.to].id /\ c.mrev = member[c.to].rev)
  /\ c.rev = occ.rev /\ occ.rev < occ'.rev
  /\ cards' = cards /\ \E kind \in {"done", "snooze", "edit"} : Act(c, kind)

LEMMA ButtonPressed ==
  ASSUME Types, NEW c \in cards,
         ParticipantDone(c) \/ ParticipantSnooze(c) \/ OwnerDone(c) \/ OwnerSnooze(c) \/ OwnerEdit(c)
  PROVE  Pressed(c)
<1>1. /\ c.to = Owner \/ (c.to \in Members /\ c.mid = member[c.to].id /\ c.mrev = member[c.to].rev)
      /\ c.rev = occ.rev
  BY DEF ParticipantDone, ParticipantSnooze, OwnerDone, OwnerSnooze, OwnerEdit, ParticipantMay, OwnerMay
<1>2. occ.rev < occ'.rev
  <2>1. CASE OwnerEdit(c)
    <3>1. occ.rev \in Nat /\ occ \in Occurrence /\ rem.rev = occ.rev /\ occ' = [occ EXCEPT !.rev = rem.rev + 1]
      BY <2>1, Shapes DEF OwnerEdit, OwnerMay
    <3> DEFINE n == rem.rev + 1
    <3>2. occ.rev < n
      BY <3>1
    <3> HIDE DEF n
    <3>3. occ'.rev = n
      BY <3>1 DEF Occurrence, n
    <3>4. QED
      BY <3>2, <3>3
  <2>2. CASE ParticipantDone(c) \/ OwnerDone(c)
    <3>1. occ' = [occ EXCEPT !.status = "completed", !.rev = occ.rev + 1]
      BY <2>2 DEF ParticipantDone, OwnerDone
    <3>2. QED
      BY <3>1, OccurrenceRaised
  <2>3. CASE ParticipantSnooze(c) \/ OwnerSnooze(c)
    <3>1. occ' = [occ EXCEPT !.status = "snoozed", !.rev = occ.rev + 1]
      BY <2>3 DEF ParticipantSnooze, OwnerSnooze
    <3>2. QED
      BY <3>1, OccurrenceRaised
  <2>4. QED
    BY <2>1, <2>2, <2>3
<1>3. cards' = cards /\ \E kind \in {"done", "snooze", "edit"} : Act(c, kind)
  BY DEF ParticipantDone, ParticipantSnooze, OwnerDone, OwnerSnooze, OwnerEdit
<1>4. QED
  BY <1>1, <1>2, <1>3 DEF Pressed

LEMMA PressedKeeps ==
  ASSUME Types, Types', CardInv, NEW c \in cards, Pressed(c)
  PROVE  CardInv'
<1>1. PICK kind : Act(c, kind)
  BY DEF Pressed
<1> DEFINE new == [card |-> c, kind |-> kind, active |-> c.to = Owner \/ c.to \in Members,
                   mrev |-> IF c.to = Owner THEN 0 ELSE member[c.to].rev,
                   mid |-> IF c.to = Owner THEN 0 ELSE member[c.to].id]
<1>2. acts' = acts \union {new}
  BY <1>1 DEF Act
<1>3. new.card = c /\ c.rev = occ.rev /\ occ.rev \in Nat /\ occ'.rev \in Nat /\ occ.rev < occ'.rev /\ cards' = cards
  BY DEF Pressed, Types, TypesOf, Occurrence
<1>4. new.active /\ new.mrev = c.mrev /\ new.mid = c.mid
  BY DEF Pressed, CardInv
<1> HIDE DEF new
<1>5. \A a \in acts : a.card.rev < occ.rev /\ a.card.rev \in Nat
  BY Shapes DEF CardInv, Card
<1>6. \A a \in acts' : a.card.rev < occ'.rev
  BY <1>2, <1>3, <1>5
<1>7. ButtonsNameTheirMember'
  BY <1>2, <1>3, <1>4 DEF CardInv, ButtonsNameTheirMember
<1>8. OneButtonPerGeneration'
  BY <1>2, <1>3, <1>5 DEF CardInv, OneButtonPerGeneration
<1>9. \A x \in cards' : x.to = Owner => x.mrev = 0 /\ x.mid = 0
  BY <1>3 DEF CardInv
<1>10. QED
  BY <1>6, <1>7, <1>8, <1>9 DEF CardInv

\* A step that presses no button and makes at most one card.
LEMMA OtherKeeps ==
  ASSUME Types, Types', CardInv, acts' = acts, occ.rev <= occ'.rev,
         \A c \in cards' \ cards : c.to = Owner => c.mrev = 0 /\ c.mid = 0
  PROVE  CardInv'
<1>1. occ.rev \in Nat /\ occ'.rev \in Nat
  BY DEF Types, TypesOf, Occurrence
<1>2. \A a \in acts : a.card.rev < occ.rev /\ a.card.rev \in Nat
  BY Shapes DEF CardInv, Card
<1>3. \A a \in acts' : a.card.rev < occ'.rev
  BY <1>1, <1>2
<1>4. \A c \in cards' : c.to = Owner => c.mrev = 0 /\ c.mid = 0
  BY DEF CardInv
<1>5. ButtonsNameTheirMember' /\ OneButtonPerGeneration'
  BY DEF CardInv, ButtonsNameTheirMember, OneButtonPerGeneration
<1>6. QED
  BY <1>3, <1>4, <1>5 DEF CardInv

LEMMA WorkerCards ==
  ASSUME Types, NEW w \in Workers, WorkerStep(w)
  PROVE  \A c \in cards' \ cards : /\ c.to = Owner => c.mrev = 0 /\ c.mid = 0
                                   /\ \/ c = Message(w) /\ SendRecipient(w)
                                      \/ c = PersonalMessage(w) /\ DeliverPersonally(w) /\ OwnsLive(w)
<1>1. CASE SendRecipient(w)
  <2>1. cards' \in {cards, cards \union {Message(w)}}
    BY <1>1, SendRecipientIs
  <2>2. Target(w) \in Keys
    BY TargetIs
  <2>3. Message(w).to = Owner => Message(w).mrev = 0 /\ Message(w).mid = 0
    <3>1. ASSUME Target(w)[1] = Owner PROVE Target(w) = OwnerKey
      BY <2>2, <3>1, KeysAre
    <3>2. OwnerKey[2] = 0
      BY DEF OwnerKey
    <3>3. QED
      BY <3>1, <3>2 DEF Message, MembershipId
  <2>4. QED
    BY <1>1, <2>1, <2>3
<1>2. CASE DeliverPersonally(w)
  <2>1. cards' = cards \/ (OwnsLive(w) /\ cards' = cards \union {PersonalMessage(w)})
    BY <1>2, PersonalIs DEF DeliverPersonally
  <2>2. PersonalMessage(w).mrev = 0 /\ PersonalMessage(w).mid = 0
    BY DEF PersonalMessage
  <2>3. QED
    BY <1>2, <2>1, <2>2
<1>3. CASE ~SendRecipient(w) /\ ~DeliverPersonally(w)
  <2>1. cards' = cards
    BY <1>3 DEF WorkerStep, ClaimDue, PrepareOccurrence, ChoosePath, PrepareRecipients, NextRecipient,
       Validate, RecordSuccess, RecordFailure, ReadStatus, RecordMessage, FinalizeSuccess, Fail
  <2>2. QED
    BY <2>1
<1>4. QED
  BY <1>1, <1>2, <1>3

\* The steps of people that press no button, and the clock.
Clicks ==
  \E c \in cards : \/ ParticipantDone(c) \/ ParticipantSnooze(c) \/ OwnerDone(c) \/ OwnerSnooze(c)
                   \/ OwnerEdit(c)
LEMMA QuietSteps ==
  ASSUME Types, MemberInv, [Next]_vars, ~Clicks, \A w \in Workers : ~WorkerStep(w)
  PROVE  /\ occ.rev <= occ'.rev /\ acts' = acts
         /\ \A c \in cards' \ cards : c.to # Owner /\ c.msg = Null
<1>1. occ.rev \in Nat /\ occ.rev <= occ.rev
  BY Shapes
<1>2. CASE OwnerCancel
  <2>1. occ.rev <= occ'.rev
    BY <1>1, <1>2, OwnerCancelIs, OccurrenceRaised
  <2>2. QED
    BY <1>2, <2>1 DEF OwnerCancel
<1>3. ASSUME NEW p \in Participants, SendCard(p)
      PROVE  /\ occ.rev <= occ'.rev /\ acts' = acts
             /\ \A c \in cards' \ cards : c.to # Owner /\ c.msg = Null
  <2>1. reading[p].to = p /\ reading[p].msg = Null /\ p # Owner
    BY <1>3, KeysAre DEF SendCard, MemberInv, CardLocks
  <2>2. QED
    BY <1>1, <1>3, <2>1 DEF SendCard
<1>4. CASE UNCHANGED vars
  BY <1>1, <1>4 DEF vars
<1>5. CASE Sharing \/ (\E p \in Participants : OpenCard(p) \/ AcceptInvite(p))
  BY <1>1, <1>5 DEF Sharing, CreateInvite, RevokeInvite, OpenLink, RevokeMembership, Cleanup, OpenCard, AcceptInvite
<1>6. CASE ExpireLease \/ (\E w \in Workers : Abandon(w)) \/ (\E k \in Keys : ExpireRow(k))
  BY <1>1, <1>6 DEF ExpireLease, Abandon, ExpireRow
<1>7. QED
  BY <1>2, <1>3, <1>4, <1>5, <1>6 DEF Next, Buttons, Clicks

LEMMA CardsNext ==
  ASSUME Types, MemberInv, CardInv, [Next]_vars
  PROVE  CardInv'
<1>1. Types'
  BY TypesNext
<1>2. CASE Clicks
  BY <1>1, <1>2, ButtonPressed, PressedKeeps DEF Clicks
<1>3. ASSUME NEW w \in Workers, WorkerStep(w) PROVE CardInv'
  BY <1>1, <1>3, WorkerRevision, WorkerCards, OtherKeeps
<1>4. CASE ~Clicks /\ \A w \in Workers : ~WorkerStep(w)
  BY <1>1, <1>4, QuietSteps, OtherKeeps
<1>5. QED
  BY <1>2, <1>3, <1>4

LEMMA AlwaysCards == Spec => []CardInv
<1>1. Init => CardInv
  BY DEF Init, CardInv, ButtonsNameTheirMember, OneButtonPerGeneration
<1>2. Types /\ MemberInv /\ CardInv /\ [Next]_vars => CardInv'
  BY CardsNext
<1>3. QED
  BY <1>1, <1>2, Always, SpecSteps, PTL

\* A button takes effect only for the membership generation it was sent to: the
\* card of somebody who was revoked and came back, or whose row was swept and
\* made anew, does nothing (_load_shared_action_target).
THEOREM ButtonsNameMembers == Spec => []ButtonsNameTheirMember
<1>1. CardInv => ButtonsNameTheirMember
  BY DEF CardInv
<1>2. QED
  BY <1>1, AlwaysCards, PTL

\* Of all the buttons that the owner and the members hold for one generation of
\* the occurrence, one takes effect: it raises the revision that every other
\* card of that generation is checked against.
THEOREM OneButton == Spec => []OneButtonPerGeneration
<1>1. CardInv => OneButtonPerGeneration
  BY DEF CardInv
<1>2. QED
  BY <1>1, AlwaysCards, PTL

-----------------------------------------------------------------------------
(* The fan-out                                                              *)

\* Claims: tokens are revisions of the reminder, and no two workers have one.
ClaimInv ==
  /\ rem.status = "processing" => rem.token # Null /\ rem.token <= rem.rev
  /\ rem.state \in Terminal => rem.status # "processing"
  /\ \A w \in Workers : worker[w].token <= rem.rev
  /\ \A u, w \in Workers : worker[u].token = worker[w].token /\ worker[w].token # Null => u = w
  /\ \A k \in Keys : deliv[k].token <= rem.rev

\* The steps of a worker that has prepared the occurrence.
Ahead == {"path", "personal", "recipients", "next", "validate", "send", "sent", "transient",
          "terminal", "status", "record"}

\* What a worker may rely on as long as its claim stands.
Engaged(w) ==
  Owns(w) =>
    /\ worker[w].pc \in Ahead => occ.status = "processing"
    /\ worker[w].pc = "personal" => Sent(deliv) = {}
    /\ worker[w].pc \in {"record", "finalize"} => worker[w].keyRev = occ.rev
    /\ worker[w].pc = "prepare" => \A k \in Keys : deliv[k].token # worker[w].token
    /\ \A k \in Keys : deliv[k].state = "processing" /\ deliv[k].token = worker[w].token
                       => deliv[k].rev = occ.rev

\* A call is made under a claim, unless the reminder was cancelled meanwhile,
\* and for a recipient that has no message of this round.
Sending(w) ==
  worker[w].pc = "send" => (Owns(w) \/ rem.state \in Terminal) /\ Target(w) \notin confirmed

\* The rows recorded as sent, while the reminder goes on.
SentInv ==
  rem.state \notin Terminal =>
    /\ confirmed \subseteq Sent(deliv)
    /\ occ.status \notin {"completed", "cancelled"}
    /\ occ.status = "failed" => Sent(deliv) = {}
    /\ (\A a \in acts : a.kind # "edit") => \A k \in Sent(deliv) : deliv[k].rev = occ.rev

FanOut == ClaimInv /\ (\A w \in Workers : Engaged(w) /\ Sending(w)) /\ SentInv

LEMMA TokensAre ==
  ASSUME Types
  PROVE  /\ rem.rev \in Nat /\ rem.token \in Nat /\ Null \in Nat /\ Null <= rem.rev
         /\ \A w \in Workers : worker[w].token \in Nat /\ worker[w].pc \in Steps /\ worker[w].keyRev \in Nat
         /\ \A k \in Keys : deliv[k].token \in Nat /\ deliv[k].rev \in Nat
BY Shapes DEF Reminder, WorkerState, Delivery, Null

LEMMA InitFans ==
  ASSUME Init
  PROVE  FanOut
<1>1. /\ rem.status = "pending" /\ rem.state = "scheduled" /\ rem.rev = 0 /\ occ.status = "absent"
      /\ confirmed = {}
      /\ \A w \in Workers : worker[w].token = Null /\ worker[w].pc = "idle"
      /\ \A k \in Keys : deliv[k].token = Null /\ deliv[k].state = "absent"
  BY IdleIs DEF Init, NoDelivery
<1>2. Sent(deliv) = {}
  BY <1>1 DEF Sent
<1>3. ClaimInv
  BY <1>1 DEF ClaimInv, Terminal, Null
<1>4. \A w \in Workers : Engaged(w) /\ Sending(w)
  BY <1>1 DEF Engaged, Sending, Owns
<1>5. SentInv
  BY <1>1, <1>2 DEF SentInv
<1>6. QED
  BY <1>3, <1>4, <1>5 DEF FanOut

\* One worker at most has the claim; nobody else is in a call then.
LEMMA OneOwner ==
  ASSUME Types, FanOut, NEW w \in Workers, Owns(w)
  PROVE  /\ rem.state \notin Terminal /\ worker[w].token # Null
         /\ \A u \in Workers : u # w => ~Owns(u) /\ worker[u].pc # "send"
<1>1. rem.state \notin Terminal /\ worker[w].token # Null
  BY DEF FanOut, ClaimInv, Owns
<1>2. \A u \in Workers : u # w => ~Owns(u)
  BY <1>1 DEF FanOut, ClaimInv, Owns
<1>3. QED
  BY <1>1, <1>2 DEF FanOut, Sending

\* The claim stays as it is.
SameClaim ==
  /\ rem'.status = rem.status /\ rem'.token = rem.token /\ rem'.lease = rem.lease
  /\ rem'.rev = rem.rev /\ rem'.state = rem.state

\* No delivery is taken and none is recorded as sent or loses that.
RowsQuiet ==
  \A k \in Keys :
    /\ deliv'[k].state = "sent" <=> deliv[k].state = "sent"
    /\ deliv[k].state = "sent" => deliv'[k].rev = deliv[k].rev
    /\ deliv'[k].state = "processing" =>
         deliv[k].state = "processing" /\ deliv'[k].rev = deliv[k].rev /\ deliv'[k].token = deliv[k].token
    /\ deliv'[k].token \in {deliv[k].token, Null}

LEMMA QuietSent ==
  ASSUME RowsQuiet
  PROVE  Sent(deliv)' = Sent(deliv)
BY DEF RowsQuiet, Sent

LEMMA QuietKeepsSent ==
  ASSUME SentInv, RowsQuiet, occ'.status = occ.status, occ'.rev = occ.rev,
         UNCHANGED <<acts, confirmed>>, rem.state \in Terminal => rem'.state \in Terminal
  PROVE  SentInv'
<1>1. Sent(deliv)' = Sent(deliv) /\ \A k \in Sent(deliv) : deliv'[k].rev = deliv[k].rev
  BY QuietSent DEF RowsQuiet, Sent
<1>2. QED
  BY <1>1 DEF SentInv

\* What a worker with a claim does in its transactions, and one without may.
Worked(w) ==
  /\ SameClaim /\ acts' = acts
  /\ \A u \in Workers : u # w => worker'[u] = worker[u]
  /\ worker'[w].token \in {worker[w].token, Null}
  /\ \A k \in Keys : deliv'[k].token \in {deliv[k].token, Null, worker[w].token}
  /\ Owns(w) \/ (occ' = occ /\ RowsQuiet /\ confirmed' = confirmed)

LEMMA SameOwner ==
  ASSUME SameClaim, NEW u \in Workers, worker'[u].token = worker[u].token
  PROVE  Owns(u)' <=> Owns(u)
BY DEF SameClaim, Owns

\* The rest of a worker that goes on with nothing changed around it.
LEMMA QuietEngaged ==
  ASSUME Types, FanOut, NEW u \in Workers, SameClaim, worker'[u].token = worker[u].token,
         occ'.status = occ.status, occ'.rev = occ.rev, RowsQuiet,
         Owns(u) =>
           /\ worker'[u].pc \in Ahead => worker[u].pc \in Ahead
           /\ worker'[u].pc = "personal" => Sent(deliv) = {}
           /\ worker'[u].pc \in {"record", "finalize"} => worker'[u].keyRev = occ.rev
           /\ worker'[u].pc = "prepare" => worker[u].pc = "prepare"
  PROVE  Engaged(u)'
<1> SUFFICES ASSUME Owns(u)' PROVE Engaged(u)'
  BY DEF Engaged
<1>1. Owns(u) /\ worker[u].token # Null
  BY SameOwner, OneOwner
<1>2. Engaged(u)
  BY DEF FanOut
<1>3. worker'[u].pc \in Ahead => occ'.status = "processing"
  BY <1>1, <1>2 DEF Engaged
<1>4. worker'[u].pc = "personal" => Sent(deliv)' = {}
  BY <1>1, QuietSent
<1>5. worker'[u].pc \in {"record", "finalize"} => worker'[u].keyRev = occ'.rev
  BY <1>1
<1>6. worker'[u].pc = "prepare" => \A k \in Keys : deliv'[k].token # worker'[u].token
  BY <1>1, <1>2 DEF Engaged, RowsQuiet
<1>7. \A k \in Keys : deliv'[k].state = "processing" /\ deliv'[k].token = worker'[u].token => deliv'[k].rev = occ'.rev
  BY <1>1, <1>2 DEF Engaged, RowsQuiet
<1>8. QED
  BY <1>3, <1>4, <1>5, <1>6, <1>7 DEF Engaged

LEMMA WorkedClaims ==
  ASSUME Types, FanOut, NEW w \in Workers, Worked(w)
  PROVE  ClaimInv'
<1>1. /\ rem'.status = "processing" => rem'.token # Null /\ rem'.token <= rem'.rev
      /\ rem'.state \in Terminal => rem'.status # "processing"
  BY DEF Worked, SameClaim, FanOut, ClaimInv
<1>2. \A u \in Workers : worker'[u].token \in {worker[u].token, Null}
  BY DEF Worked
<1>3. \A u \in Workers : worker'[u].token <= rem'.rev
  BY <1>2, TokensAre DEF Worked, SameClaim, FanOut, ClaimInv
<1>4. \A u, v \in Workers : worker'[u].token = worker'[v].token /\ worker'[v].token # Null => u = v
  BY <1>2 DEF FanOut, ClaimInv
<1>5. \A k \in Keys : deliv'[k].token <= rem'.rev
  BY TokensAre DEF Worked, SameClaim, FanOut, ClaimInv
<1>6. QED
  BY <1>1, <1>3, <1>4, <1>5 DEF ClaimInv

LEMMA WorkedOthers ==
  ASSUME Types, FanOut, NEW w \in Workers, Worked(w), NEW u \in Workers, u # w
  PROVE  Engaged(u)' /\ Sending(u)'
<1>1. worker'[u] = worker[u] /\ SameClaim
  BY DEF Worked
<1>2. Owns(u)' <=> Owns(u)
  BY <1>1, SameOwner
<1>3. CASE Owns(w)
  <2>1. ~Owns(u) /\ worker[u].pc # "send"
    BY <1>3, OneOwner
  <2>2. QED
    BY <1>1, <1>2, <2>1 DEF Engaged, Sending
<1>4. CASE ~Owns(w)
  <2>1. occ' = occ /\ RowsQuiet /\ confirmed' = confirmed
    BY <1>4 DEF Worked
  <2>2. Engaged(u)'
    <3>1. Owns(u) /\ worker[u].pc = "personal" => Sent(deliv) = {}
      BY DEF FanOut, Engaged
    <3>2. Owns(u) /\ worker[u].pc \in {"record", "finalize"} => worker[u].keyRev = occ.rev
      BY DEF FanOut, Engaged
    <3>3. QED
      BY <1>1, <2>1, <3>1, <3>2, QuietEngaged
  <2>3. Sending(u)'
    BY <1>1, <1>2, <2>1 DEF FanOut, Sending, SameClaim, Target
  <2>4. QED
    BY <2>2, <2>3
<1>5. QED
  BY <1>3, <1>4

LEMMA WorkedFans ==
  ASSUME Types, FanOut, NEW w \in Workers, Worked(w), Engaged(w)', Sending(w)', SentInv'
  PROVE  FanOut'
BY WorkedClaims, WorkedOthers DEF FanOut

\* A worker that forgets what it was doing, or was no longer asked to.
LEMMA StoppedFans ==
  ASSUME Types, FanOut, NEW w \in Workers, SameClaim, Stop(w),
         UNCHANGED <<occ, acts, confirmed>>, RowsQuiet
  PROVE  FanOut'
<1>1. worker'[w] = Idle /\ \A u \in Workers : u # w => worker'[u] = worker[u]
  BY StopIs
<1>2. Worked(w)
  BY <1>1, IdleIs DEF Worked, RowsQuiet
<1>3. Engaged(w)' /\ Sending(w)'
  BY <1>1, IdleIs DEF Engaged, Sending, Owns, SameClaim, FanOut, ClaimInv
<1>4. SentInv'
  BY QuietKeepsSent DEF FanOut, SameClaim
<1>5. QED
  BY <1>2, <1>3, <1>4, WorkedFans

\* A worker that goes on, with its rows quiet.
LEMMA QuietFans ==
  ASSUME Types, FanOut, NEW w \in Workers, SameClaim, worker'[w].token = worker[w].token,
         \A u \in Workers : u # w => worker'[u] = worker[u],
         UNCHANGED <<occ, acts, confirmed>>, RowsQuiet, Sending(w)',
         Owns(w) =>
           /\ worker'[w].pc \in Ahead => worker[w].pc \in Ahead
           /\ worker'[w].pc = "personal" => Sent(deliv) = {}
           /\ worker'[w].pc \in {"record", "finalize"} => worker'[w].keyRev = occ.rev
           /\ worker'[w].pc = "prepare" => worker[w].pc = "prepare"
  PROVE  FanOut'
<1>1. Worked(w)
  BY DEF Worked, RowsQuiet
<1>2. Engaged(w)'
  BY QuietEngaged
<1>3. SentInv'
  BY QuietKeepsSent DEF FanOut, SameClaim
<1>4. QED
  BY <1>1, <1>2, <1>3, WorkedFans

LEMMA NothingIsQuiet ==
  /\ rem' = rem => SameClaim
  /\ deliv' = deliv => RowsQuiet
BY DEF SameClaim, RowsQuiet

\* What the fan-out promises a worker whose claim stands.
LEMMA OwnerMayRely ==
  ASSUME Types, FanOut, NEW w \in Workers, Owns(w)
  PROVE  /\ rem.state \notin Terminal /\ confirmed \subseteq Sent(deliv)
         /\ worker[w].pc \in Ahead => occ.status = "processing"
         /\ worker[w].pc = "personal" => Sent(deliv) = {}
         /\ worker[w].pc \in {"record", "finalize"} => worker[w].keyRev = occ.rev
         /\ worker[w].pc = "prepare" => \A k \in Keys : deliv[k].token # worker[w].token
         /\ \A k \in Keys : deliv[k].state = "processing" /\ deliv[k].token = worker[w].token
                            => deliv[k].rev = occ.rev
         /\ (\A a \in acts : a.kind # "edit") => \A k \in Sent(deliv) : deliv[k].rev = occ.rev
<1>1. rem.state \notin Terminal
  BY OneOwner
<1>2. Engaged(w) /\ SentInv
  BY DEF FanOut
<1>3. QED
  BY <1>1, <1>2 DEF Engaged, SentInv

LEMMA PrepareOccurrenceFans ==
  ASSUME Types, FanOut, NEW w \in Workers, PrepareOccurrence(w)
  PROVE  FanOut'
<1>1. UNCHANGED <<rem, deliv, acts, confirmed>>
  BY DEF PrepareOccurrence
<1>2. CASE ~OwnsLive(w)
  BY <1>1, <1>2, NothingIsQuiet, StoppedFans DEF PrepareOccurrence
<1>3. CASE OwnsLive(w)
  <2>1. /\ occ'.status = "processing"
        /\ Sent(deliv) # {} => occ'.rev = occ.rev
        /\ GoTo(w, "path") /\ worker[w].pc = "prepare"
    BY <1>3 DEF PrepareOccurrence
  <2>2. /\ worker'[w].pc = "path" /\ worker'[w].token = worker[w].token
        /\ \A u \in Workers : u # w => worker'[u] = worker[u]
    BY <2>1, GoToIs, Shapes DEF Steps, WorkerState
  <2>3. Owns(w)
    BY <1>3 DEF OwnsLive
  <2>4. Worked(w)
    BY <1>1, <2>2, <2>3, NothingIsQuiet DEF Worked
  <2>5. \A k \in Keys : deliv[k].token # worker[w].token
    BY <2>1, <2>3, OwnerMayRely
  <2>6. Engaged(w)' /\ Sending(w)'
    BY <1>1, <2>1, <2>2, <2>5 DEF Engaged, Sending
  <2>7. SentInv'
    <3>1. Sent(deliv)' = Sent(deliv)
      BY <1>1 DEF Sent
    <3>2. QED
      BY <1>1, <2>1, <2>3, <3>1, OwnerMayRely DEF SentInv
  <2>8. QED
    BY <2>4, <2>6, <2>7, WorkedFans
<1>4. QED
  BY <1>2, <1>3

LEMMA ChoosePathFans ==
  ASSUME Types, FanOut, NEW w \in Workers, ChoosePath(w)
  PROVE  FanOut'
<1>1. UNCHANGED <<rem, occ, deliv, acts, confirmed>> /\ worker[w].pc = "path"
  BY DEF ChoosePath
<1>2. PICK pc \in {"recipients", "personal"} : GoTo(w, pc) /\ (pc = "personal" => ~IsShared)
  BY DEF ChoosePath
<1>3. /\ worker'[w].pc = pc /\ worker'[w].token = worker[w].token
      /\ \A u \in Workers : u # w => worker'[u] = worker[u]
  BY <1>2, GoToIs, Shapes DEF Steps, WorkerState
<1>4. Owns(w) /\ pc = "personal" => Sent(deliv) = {}
  BY <1>1, <1>2, OwnerMayRely DEF IsShared, Sent, Ahead
<1>5. Sending(w)'
  BY <1>3 DEF Sending
<1>6. QED
  BY <1>1, <1>3, <1>4, <1>5, NothingIsQuiet, QuietFans DEF Ahead

LEMMA PrepareRecipientsFans ==
  ASSUME Types, FanOut, NEW w \in Workers, PrepareRecipients(w)
  PROVE  FanOut'
<1>1. UNCHANGED <<rem, acts, confirmed>> /\ worker[w].pc = "recipients"
  BY DEF PrepareRecipients
<1>2. occ' = occ
  <2>1. occ' = occ \/ occ' = [occ EXCEPT !.rev = SharedRevision]
    BY DEF PrepareRecipients
  <2>2. QED
    BY <2>1, Shapes, SharedRevisionIs DEF Occurrence
<1>3. RowsQuiet
  <2>1. deliv' = deliv \/ deliv' = PreparedRows
    BY DEF PrepareRecipients, PreparedRows
  <2>2. CASE deliv' = PreparedRows
    <3>1. \A k \in Keys : deliv'[k] = deliv[k] \/ (deliv'[k] = Fresh(deliv[k], occ.rev) /\ deliv[k].state # "sent")
      BY <2>2, PreparedRowsAre
    <3>2. \A k \in Keys : Fresh(deliv[k], occ.rev).state = "pending" /\ Fresh(deliv[k], occ.rev).token = Null
      BY Shapes, FreshRow DEF Fresh, Delivery
    <3>3. QED
      BY <3>1, <3>2 DEF RowsQuiet
  <2>3. QED
    BY <2>1, <2>2, NothingIsQuiet
<1>4. /\ worker'[w].pc \in {"status", "fail", "next"} /\ worker'[w].token = worker[w].token
      /\ \A u \in Workers : u # w => worker'[u] = worker[u]
  BY Shapes DEF PrepareRecipients, WorkerState
<1>5. Sending(w)'
  BY <1>4 DEF Sending
<1>6. QED
  BY <1>1, <1>2, <1>3, <1>4, <1>5, NothingIsQuiet, QuietFans DEF Ahead

\* One row is cancelled.
LEMMA CancelIsQuiet ==
  ASSUME Types, NEW k \in Keys, NEW d \in Delivery, deliv[k].state # "sent",
         deliv' = [deliv EXCEPT ![k] = Cancelled(d)]
  PROVE  RowsQuiet
<1>1. deliv \in [Keys -> Delivery] /\ Cancelled(d).state = "cancelled" /\ Cancelled(d).token = Null
  BY Shapes, RowsAre, CancelledRow DEF Cancelled, Delivery
<1>2. deliv'[k].state = "cancelled" /\ deliv'[k].token = Null /\ \A j \in Keys : j # k => deliv'[j] = deliv[j]
  BY <1>1
<1>3. QED
  BY <1>2 DEF RowsQuiet

\* A delivery is claimed under the claim of the reminder.
LEMMA TakingFans ==
  ASSUME Types, FanOut, NEW w \in Workers, NEW k \in Keys, Owns(w), worker[w].pc = "next",
         UNCHANGED <<rem, occ, acts, confirmed>>, ~Settled(deliv[k]),
         NEW d \in Delivery, d.rev = occ.rev, deliv' = [deliv EXCEPT ![k] = Taken(d, w)],
         worker' = [worker EXCEPT ![w].pc = "validate", ![w].todo = @ \ {k}, ![w].key = k, ![w].keyRev = d.rev]
  PROVE  FanOut'
<1>1. /\ worker'[w].pc = "validate" /\ worker'[w].token = worker[w].token
      /\ \A u \in Workers : u # w => worker'[u] = worker[u]
  BY Shapes DEF WorkerState
<1>2. Taken(d, w).state = "processing" /\ Taken(d, w).token = worker[w].token /\ Taken(d, w).rev = occ.rev
  BY TakenRow
<1>3. deliv'[k] = Taken(d, w) /\ \A j \in Keys : j # k => deliv'[j] = deliv[j]
  BY Shapes, RowsAre
<1>4. Worked(w)
  BY <1>1, <1>2, <1>3, NothingIsQuiet DEF Worked
<1>5. Engaged(w)'
  <2>1. occ.status = "processing"
        /\ \A j \in Keys : deliv[j].state = "processing" /\ deliv[j].token = worker[w].token => deliv[j].rev = occ.rev
    BY OwnerMayRely DEF Ahead
  <2>2. \A j \in Keys : deliv'[j].state = "processing" /\ deliv'[j].token = worker'[w].token => deliv'[j].rev = occ'.rev
    BY <1>1, <1>2, <1>3, <2>1
  <2>3. QED
    BY <1>1, <2>1, <2>2 DEF Engaged
<1>6. Sending(w)'
  BY <1>1 DEF Sending
<1>7. SentInv'
  <2>1. deliv[k].state # "sent"
    BY DEF Settled
  <2>2. Sent(deliv)' = Sent(deliv) /\ \A j \in Sent(deliv) : deliv'[j] = deliv[j]
    BY <1>2, <1>3, <2>1 DEF Sent
  <2>3. QED
    BY <2>2 DEF FanOut, SentInv
<1>8. QED
  BY <1>4, <1>5, <1>6, <1>7, WorkedFans

LEMMA NextRecipientFans ==
  ASSUME Types, FanOut, NEW w \in Workers, NextRecipient(w)
  PROVE  FanOut'
<1>1. UNCHANGED <<rem, occ, acts, confirmed>> /\ worker[w].pc = "next"
  BY DEF NextRecipient
<1>2. CASE worker[w].todo = {}
  <2>1. PICK pc \in {"fail", "status"} : GoTo(w, pc) /\ deliv' = deliv
    BY <1>2 DEF NextRecipient
  <2>2. /\ worker'[w].pc = pc /\ worker'[w].token = worker[w].token
        /\ \A u \in Workers : u # w => worker'[u] = worker[u]
    BY <2>1, GoToIs, Shapes DEF Steps, WorkerState
  <2>3. Sending(w)'
    BY <2>2 DEF Sending
  <2>4. QED
    BY <1>1, <2>1, <2>2, <2>3, NothingIsQuiet, QuietFans DEF Ahead
<1>3. CASE worker[w].todo # {} /\ ~OwnsLive(w)
  BY <1>1, <1>3, NothingIsQuiet, StoppedFans DEF NextRecipient
<1>4. CASE worker[w].todo # {} /\ OwnsLive(w)
  <2>1. PICK k \in worker[w].todo : k \in Keys /\ ClaimStep(w, k)
    BY <1>4, ClaimRecipientIs DEF NextRecipient
  <2>2. \A d \in {deliv[k], Fresh(deliv[k], occ.rev)} : d \in Delivery
    BY <2>1, Shapes, FreshRow
  <2>3. CASE worker' = [worker EXCEPT ![w].todo = @ \ {k}]
    <3>1. /\ worker'[w].pc = "next" /\ worker'[w].token = worker[w].token
          /\ \A u \in Workers : u # w => worker'[u] = worker[u]
      BY <1>1, <2>1, <2>3, PassIs, Shapes DEF WorkerState
    <3>2. \/ deliv' = deliv
          \/ /\ ~Settled(deliv[k])
             /\ \E d \in {deliv[k], Fresh(deliv[k], occ.rev)} : deliv' = [deliv EXCEPT ![k] = Cancelled(d)]
      <4>1. \A d \in {deliv[k], Fresh(deliv[k], occ.rev)} :
              worker' # [worker EXCEPT ![w].pc = "validate", ![w].todo = @ \ {k},
                                       ![w].key = k, ![w].keyRev = d.rev]
        BY <3>1, Shapes DEF WorkerState
      <4>2. QED
        BY <2>1, <4>1 DEF ClaimStep
    <3>3. RowsQuiet
      BY <2>1, <2>2, <3>2, NothingIsQuiet, CancelIsQuiet DEF Settled
    <3>4. Sending(w)'
      BY <3>1 DEF Sending
    <3>5. QED
      BY <1>1, <3>1, <3>3, <3>4, NothingIsQuiet, QuietFans DEF Ahead
  <2>4. CASE ~(worker' = [worker EXCEPT ![w].todo = @ \ {k}])
    <3>1. /\ ~Settled(deliv[k])
          /\ \E d \in {deliv[k], Fresh(deliv[k], occ.rev)} :
               /\ d.rev = occ.rev /\ deliv' = [deliv EXCEPT ![k] = Taken(d, w)]
               /\ worker' = [worker EXCEPT ![w].pc = "validate", ![w].todo = @ \ {k},
                                           ![w].key = k, ![w].keyRev = d.rev]
      BY <2>1, <2>4 DEF ClaimStep
    <3>2. PICK d \in {deliv[k], Fresh(deliv[k], occ.rev)} :
               /\ d.rev = occ.rev /\ deliv' = [deliv EXCEPT ![k] = Taken(d, w)]
               /\ worker' = [worker EXCEPT ![w].pc = "validate", ![w].todo = @ \ {k},
                                           ![w].key = k, ![w].keyRev = d.rev]
      BY <3>1
    <3>3. d \in Delivery /\ Owns(w)
      BY <1>4, <2>2 DEF OwnsLive
    <3>4. QED
      BY <1>1, <2>1, <3>1, <3>2, <3>3, TakingFans
  <2>5. QED
    BY <2>3, <2>4
<1>5. QED
  BY <1>2, <1>3, <1>4

LEMMA ValidateFans ==
  ASSUME Types, FanOut, NEW w \in Workers, Validate(w)
  PROVE  FanOut'
<1>1. UNCHANGED <<rem, occ, acts, confirmed>> /\ worker[w].pc = "validate"
  BY DEF Validate
<1>2. CASE Valid(w)
  <2>1. GoTo(w, "send") /\ deliv' = deliv
    BY <1>2 DEF Validate
  <2>2. /\ worker'[w].pc = "send" /\ worker'[w].token = worker[w].token /\ worker'[w].key = worker[w].key
        /\ \A u \in Workers : u # w => worker'[u] = worker[u]
    BY <2>1, GoToIs, Shapes DEF Steps, WorkerState
  <2>3. Owns(w) /\ deliv[Target(w)].state = "processing"
    BY <1>2 DEF Valid, OwnsLive, RowHeld, RowOwned
  <2>4. Target(w) \notin confirmed
    BY <2>3, OwnerMayRely DEF Sent
  <2>5. Owns(w)'
    BY <1>1, <2>2, <2>3, NothingIsQuiet, SameOwner
  <2>6. Sending(w)'
    BY <1>1, <2>2, <2>4, <2>5 DEF Sending, Target
  <2>7. QED
    BY <1>1, <2>1, <2>2, <2>6, NothingIsQuiet, QuietFans DEF Ahead
<1>3. CASE ~Valid(w)
  <2>1. ToNext(w, FALSE)
        /\ (deliv' = deliv \/ (RowOwned(w) /\ deliv' = [deliv EXCEPT ![Target(w)] = Cancelled(deliv[Target(w)])]))
    BY <1>3 DEF Validate
  <2>2. /\ worker'[w].pc = "next" /\ worker'[w].token = worker[w].token
        /\ \A u \in Workers : u # w => worker'[u] = worker[u]
    BY <2>1, ToNextIs
  <2>3. RowsQuiet
    BY <2>1, TargetIs, NothingIsQuiet, CancelIsQuiet DEF RowOwned
  <2>4. Sending(w)'
    BY <2>2 DEF Sending
  <2>5. QED
    BY <1>1, <2>2, <2>3, <2>4, NothingIsQuiet, QuietFans DEF Ahead
<1>4. QED
  BY <1>2, <1>3

LEMMA SendRecipientFans ==
  ASSUME Types, FanOut, NEW w \in Workers, SendRecipient(w)
  PROVE  FanOut'
<1>1. UNCHANGED <<rem, occ, deliv, acts, confirmed>>
  BY DEF SendRecipient
<1>2. /\ worker[w].pc = "send" /\ worker'[w].pc \in {"sent", "transient", "terminal"}
      /\ worker'[w].token = worker[w].token /\ \A u \in Workers : u # w => worker'[u] = worker[u]
  BY SendRecipientIs
<1>3. Sending(w)'
  BY <1>2 DEF Sending
<1>4. QED
  BY <1>1, <1>2, <1>3, NothingIsQuiet, QuietFans DEF Ahead

LEMMA RecordSuccessFans ==
  ASSUME Types, FanOut, NEW w \in Workers, RecordSuccess(w)
  PROVE  FanOut'
<1> DEFINE s == SentRow(deliv[Target(w)], worker[w].msg)
<1>1. UNCHANGED <<rem, occ, acts>> /\ worker[w].pc = "sent"
  BY DEF RecordSuccess
<1>2. ToNext(w, FALSE)
      /\ \/ /\ Owns(w) /\ RowHeld(w)
            /\ deliv' = [deliv EXCEPT ![Target(w)] = s] /\ confirmed' = confirmed \union {Target(w)}
         \/ deliv' = deliv /\ confirmed' = confirmed
  BY RecordSuccessIs
<1>3. /\ worker'[w].pc = "next" /\ worker'[w].token = worker[w].token
      /\ \A u \in Workers : u # w => worker'[u] = worker[u]
  BY <1>2, ToNextIs
<1>4. Sending(w)'
  BY <1>3 DEF Sending
<1>5. CASE deliv' = deliv /\ confirmed' = confirmed
  BY <1>1, <1>3, <1>4, <1>5, NothingIsQuiet, QuietFans DEF Ahead
<1>6. CASE /\ Owns(w) /\ RowHeld(w)
           /\ deliv' = [deliv EXCEPT ![Target(w)] = s] /\ confirmed' = confirmed \union {Target(w)}
  <2>1. Target(w) \in Keys /\ s.state = "sent" /\ s.rev = deliv[Target(w)].rev /\ s.token = Null
    BY TargetIs, RecordedRows DEF SentRow, Delivery
  <2>2. deliv[Target(w)].state = "processing" /\ deliv[Target(w)].token = worker[w].token
    BY <1>6 DEF RowHeld, RowOwned
  <2>3. /\ occ.status = "processing" /\ deliv[Target(w)].rev = occ.rev
        /\ \A k \in Keys : deliv[k].state = "processing" /\ deliv[k].token = worker[w].token => deliv[k].rev = occ.rev
        /\ confirmed \subseteq Sent(deliv) /\ rem.state \notin Terminal
        /\ (\A a \in acts : a.kind # "edit") => \A k \in Sent(deliv) : deliv[k].rev = occ.rev
    BY <1>1, <1>6, <2>1, <2>2, OwnerMayRely DEF Ahead
  <2> HIDE DEF s
  <2>4. deliv'[Target(w)] = s /\ \A k \in Keys : k # Target(w) => deliv'[k] = deliv[k]
    BY <1>6, <2>1, Shapes, RowsAre
  <2>5. Worked(w)
    BY <1>1, <1>3, <1>6, <2>1, <2>4, NothingIsQuiet DEF Worked
  <2>6. Engaged(w)'
    BY <1>1, <1>3, <2>1, <2>3, <2>4 DEF Engaged
  <2>7. Sent(deliv)' = Sent(deliv) \union {Target(w)} /\ Sent(deliv) \subseteq Keys
    BY <2>1, <2>4 DEF Sent
  <2>8. SentInv'
    <3>1. confirmed' \subseteq Sent(deliv)'
      BY <1>6, <2>3, <2>7
    <3>2. (\A a \in acts' : a.kind # "edit") => \A k \in Sent(deliv)' : deliv'[k].rev = occ'.rev
      BY <1>1, <2>1, <2>3, <2>4, <2>7
    <3>3. QED
      BY <1>1, <2>3, <3>1, <3>2 DEF SentInv
  <2>9. QED
    BY <1>4, <2>5, <2>6, <2>8, WorkedFans
<1>7. QED
  BY <1>2, <1>5, <1>6

LEMMA RecordFailureFans ==
  ASSUME Types, FanOut, NEW w \in Workers, RecordFailure(w)
  PROVE  FanOut'
<1>1. UNCHANGED <<rem, occ, acts, confirmed>> /\ worker[w].pc \in {"transient", "terminal"}
  BY DEF RecordFailure
<1>2. PICK t, b \in BOOLEAN :
           /\ ToNext(w, b)
           /\ \/ /\ Owns(w) /\ RowHeld(w)
                 /\ deliv' = [deliv EXCEPT ![Target(w)] = FailedRow(deliv[Target(w)], t)]
              \/ deliv' = deliv
  BY RecordFailureIs
<1>3. /\ worker'[w].pc = "next" /\ worker'[w].token = worker[w].token
      /\ \A u \in Workers : u # w => worker'[u] = worker[u]
  BY <1>2, ToNextIs
<1>4. Sending(w)'
  BY <1>3 DEF Sending
<1>5. RowsQuiet
  <2>1. CASE RowHeld(w) /\ deliv' = [deliv EXCEPT ![Target(w)] = FailedRow(deliv[Target(w)], t)]
    <3>1. deliv[Target(w)].state = "processing"
      BY <2>1 DEF RowHeld, RowOwned
    <3>2. Target(w) \in Keys /\ FailedRow(deliv[Target(w)], t).state = "failed"
          /\ FailedRow(deliv[Target(w)], t).token = Null
      BY TargetIs, RecordedRows DEF FailedRow, Delivery
    <3>3. deliv'[Target(w)] = FailedRow(deliv[Target(w)], t)
          /\ \A k \in Keys : k # Target(w) => deliv'[k] = deliv[k]
      BY <2>1, <3>2, Shapes, RowsAre
    <3>4. QED
      BY <3>1, <3>2, <3>3 DEF RowsQuiet
  <2>2. QED
    BY <1>2, <2>1, NothingIsQuiet
<1>6. QED
  BY <1>1, <1>3, <1>4, <1>5, NothingIsQuiet, QuietFans DEF Ahead

LEMMA ReadStatusFans ==
  ASSUME Types, FanOut, NEW w \in Workers, ReadStatus(w)
  PROVE  FanOut'
<1>1. UNCHANGED <<rem, occ, deliv, acts, confirmed>> /\ worker[w].pc = "status"
  BY DEF ReadStatus
<1>2. PICK a \in WorkerState :
           /\ worker' = [worker EXCEPT ![w] = a]
           /\ \/ a = Idle
              \/ a.pc = "fail" /\ a.token = worker[w].token
              \/ /\ a.pc \in {"record", "finalize"} /\ a.token = worker[w].token
                 /\ a.keyRev = occ.rev
  BY ReadStatusIs
<1>3. CASE a = Idle
  BY <1>1, <1>2, <1>3, NothingIsQuiet, StoppedFans DEF Stop
<1>4. CASE a # Idle
  <2>1. /\ worker'[w] = a /\ a.token = worker[w].token /\ a.pc \in {"fail", "record", "finalize"}
        /\ a.pc \in {"record", "finalize"} => a.keyRev = occ.rev
        /\ \A u \in Workers : u # w => worker'[u] = worker[u]
    BY <1>2, <1>4, WorkerChanged
  <2>2. Sending(w)'
    BY <2>1 DEF Sending
  <2>3. QED
    BY <1>1, <2>1, <2>2, NothingIsQuiet, QuietFans DEF Ahead
<1>5. QED
  BY <1>3, <1>4

\* Of two equal numbers the greater one is either.
LEMMA SameMax ==
  ASSUME NEW n \in Nat
  PROVE  Max({n, n}) = n
BY MaxOfTwo

LEMMA RecordMessageFans ==
  ASSUME Types, FanOut, NEW w \in Workers, RecordMessage(w)
  PROVE  FanOut'
<1>1. UNCHANGED <<deliv, acts, confirmed>> /\ worker[w].pc = "record"
  BY DEF RecordMessage
<1>2. CASE ~OwnsLive(w)
  BY <1>1, <1>2, NothingIsQuiet, StoppedFans DEF RecordMessage
<1>3. CASE OwnsLive(w)
  <2>1. /\ Owns(w) /\ worker[w].keyRev = occ.rev /\ occ.rev \in Nat
        /\ (\A a \in acts : a.kind # "edit") => \A k \in Sent(deliv) : deliv[k].rev = occ.rev
    BY <1>1, <1>3, Shapes, OwnerMayRely DEF OwnsLive
  <2>2. occ' = [status |-> "delivered", rev |-> occ.rev, msg |-> worker[w].msg]
    BY <1>3, <2>1, SameMax DEF RecordMessage
  <2>3. SameClaim
    BY <1>3, Shapes DEF RecordMessage, Reminder, SameClaim
  <2>4. /\ worker'[w].pc = "finalize" /\ worker'[w].token = worker[w].token
        /\ worker'[w].keyRev = occ.rev
        /\ \A u \in Workers : u # w => worker'[u] = worker[u]
    BY <1>3, <2>1, GoToIs, Shapes DEF RecordMessage, Steps, WorkerState
  <2>5. Worked(w)
    BY <1>1, <2>1, <2>3, <2>4 DEF Worked
  <2>6. \A k \in Keys : deliv[k].state = "processing" /\ deliv[k].token = worker[w].token => deliv[k].rev = occ.rev
    BY <2>1, OwnerMayRely
  <2>7. Engaged(w)' /\ Sending(w)'
    BY <1>1, <2>2, <2>4, <2>6 DEF Engaged, Sending, Ahead
  <2>8. SentInv'
    <3>1. Sent(deliv)' = Sent(deliv)
      BY <1>1 DEF Sent
    <3>2. confirmed \subseteq Sent(deliv)
      BY <2>1, OwnerMayRely
    <3>3. QED
      BY <1>1, <2>1, <2>2, <3>1, <3>2 DEF SentInv
  <2>9. QED
    BY <2>5, <2>7, <2>8, WorkedFans
<1>4. QED
  BY <1>2, <1>3

-----------------------------------------------------------------------------
(* The steps after which no worker has the claim                            *)

Parted ==
  /\ rem.rev <= rem'.rev
  /\ \A w \in Workers : ~Owns(w)'
  /\ rem'.status = "processing" => rem.status = "processing" /\ rem'.token = rem.token
  /\ rem'.state \in Terminal => rem'.status # "processing"
  /\ \A w \in Workers : worker'[w] \in {worker[w], Idle}
  /\ \A w \in Workers : worker'[w].pc = "send" => rem'.state \in Terminal
  /\ \A k \in Keys : deliv'[k].token \in {deliv[k].token, Null}
  /\ confirmed' \subseteq confirmed

LEMMA PartedFans ==
  ASSUME Types, Types', FanOut, Parted, SentInv'
  PROVE  FanOut'
<1>1. rem.rev \in Nat /\ rem'.rev \in Nat
  BY DEF Types, TypesOf, Reminder
<1>2. \A w \in Workers : worker'[w].token \in {worker[w].token, Null}
  BY IdleIs DEF Parted
<1>3. \A w \in Workers : worker'[w].token <= rem'.rev
  BY <1>1, <1>2, TokensAre DEF Parted, FanOut, ClaimInv
<1>4. \A u, v \in Workers : worker'[u].token = worker'[v].token /\ worker'[v].token # Null => u = v
  BY <1>2 DEF FanOut, ClaimInv
<1>5. \A k \in Keys : deliv'[k].token <= rem'.rev
  BY <1>1, TokensAre DEF Parted, FanOut, ClaimInv
<1>6. rem'.status = "processing" => rem'.token # Null /\ rem'.token <= rem'.rev
  BY <1>1, TokensAre DEF Parted, FanOut, ClaimInv
<1>7. ClaimInv'
  BY <1>3, <1>4, <1>5, <1>6 DEF ClaimInv, Parted
<1>8. ASSUME NEW w \in Workers PROVE Engaged(w)' /\ Sending(w)'
  <2>1. worker'[w].pc = "send" => worker[w].pc = "send" /\ worker'[w] = worker[w]
    BY IdleIs DEF Parted
  <2>2. QED
    BY <2>1 DEF Parted, Engaged, Sending, FanOut, Target
<1>9. QED
  BY <1>7, <1>8 DEF FanOut

\* Nobody is in a call when nobody has a live claim.
LEMMA NobodySends ==
  ASSUME Types, FanOut, rem.state \notin Terminal, rem.status # "processing" \/ rem.lease # "live"
  PROVE  \A w \in Workers : worker[w].pc # "send"
BY DEF FanOut, Sending, Owns

LEMMA NobodyOwns ==
  ASSUME rem'.status # "processing" \/ rem'.lease # "live"
  PROVE  \A w \in Workers : ~Owns(w)'
BY DEF Owns

\* The fence drops tokens at most.
LEMMA FenceTokens ==
  ASSUME Types, NEW rows \in Rows(occ.rev), ExpireMemberships(rows),
         \A k \in Keys : rows[k].token \in {deliv[k].token, Null}
  PROVE  \A k \in Keys : deliv'[k].token \in {deliv[k].token, Null}
<1>1. deliv' = Fenced(Members, rows) /\ occ.rev \in Nat
  BY Shapes, ExpireIs
<1>2. \A k \in Keys : rows[k] \in Delivery /\ Cancelled(rows[k]).token = Null
  BY <1>1, RowsAre DEF Cancelled, Delivery
<1>3. QED
  BY <1>1, <1>2, FencedRows

LEMMA EndingTokens ==
  ASSUME Types, ExpireMemberships(CancelRows(deliv)) \/ ExpireMemberships(deliv)
  PROVE  \A k \in Keys : deliv'[k].token \in {deliv[k].token, Null}
<1>1. deliv \in Rows(occ.rev) /\ occ.rev \in Nat /\ CancelRows(deliv) \in Rows(occ.rev)
  BY Shapes, CancelRowsAre
<1>2. \A k \in Keys : Cancelled(deliv[k]).token = Null
  BY Shapes DEF Cancelled, Delivery
<1>3. \A k \in Keys : CancelRows(deliv)[k].token \in {deliv[k].token, Null}
  BY <1>1, <1>2, CancelRowsAre
<1>4. QED
  BY <1>1, <1>3, FenceTokens

\* A worker gives its claim back, or somebody takes it from everybody.
LEMMA WorkerParts ==
  ASSUME Types, Types', FanOut, NEW w \in Workers, Owns(w), Stop(w),
         rem'.rev = rem.rev, rem'.status # "processing", confirmed' = confirmed, SentInv',
         \A k \in Keys : deliv'[k].token \in {deliv[k].token, Null}
  PROVE  FanOut'
<1>1. worker'[w] = Idle /\ \A u \in Workers : u # w => worker'[u] = worker[u] /\ worker[u].pc # "send"
  BY StopIs, OneOwner
<1>2. rem.rev <= rem'.rev
  BY TokensAre
<1>3. Parted
  BY <1>1, <1>2, IdleIs, NobodyOwns DEF Parted
<1>4. QED
  BY <1>3, PartedFans

LEMMA FailureFans ==
  ASSUME Types, Types', FanOut, NEW w \in Workers, OwnsLive(w), FinalizeFailure(w), Stop(w),
         UNCHANGED <<acts, confirmed>>
  PROVE  FanOut'
<1>1. /\ rem'.rev = rem.rev /\ rem'.status # "processing"
      /\ occ'.rev = occ.rev /\ occ'.status = IF Sent(deliv) # {} THEN "delivered" ELSE "failed"
  BY FinalizeFailureIs
<1>2. PICK rows : /\ Closing(rows)
                  /\ \/ deliv' = rows
                     \/ rem'.state = "failed" /\ ExpireMemberships(rows)
  BY FinalizeFailureIs
<1>3. Owns(w)
  BY DEF OwnsLive
<1>4. CASE deliv' = rows
  <2>1. RowsQuiet
    BY <1>2, <1>4 DEF Closing, RowsQuiet
  <2>2. Sent(deliv)' = Sent(deliv) /\ \A k \in Sent(deliv) : deliv'[k].rev = deliv[k].rev
    BY <2>1, QuietSent DEF RowsQuiet, Sent
  <2>3. SentInv'
    BY <1>1, <1>3, <2>2, OwnerMayRely DEF SentInv
  <2>4. \A k \in Keys : deliv'[k].token \in {deliv[k].token, Null}
    BY <2>1 DEF RowsQuiet
  <2>5. QED
    BY <1>1, <1>3, <2>3, <2>4, WorkerParts
<1>5. CASE rem'.state = "failed" /\ ExpireMemberships(rows)
  <2>1. SentInv'
    BY <1>5 DEF SentInv, Terminal
  <2>2. \A k \in Keys : deliv'[k].token \in {deliv[k].token, Null}
    BY <1>2, <1>5, FenceTokens DEF Closing
  <2>3. QED
    BY <1>1, <1>3, <2>1, <2>2, WorkerParts
<1>6. QED
  BY <1>2, <1>4, <1>5

LEMMA FinalizeSuccessFans ==
  ASSUME Types, Types', FanOut, NEW w \in Workers, FinalizeSuccess(w)
  PROVE  FanOut'
<1>1. UNCHANGED <<deliv, acts, confirmed>> /\ worker[w].pc = "finalize" /\ Stop(w)
  BY DEF FinalizeSuccess
<1>2. CASE ~OwnsLive(w)
  BY <1>1, <1>2, NothingIsQuiet, StoppedFans DEF FinalizeSuccess
<1>3. CASE OwnsLive(w)
  <2>1. Owns(w) /\ worker[w].keyRev = occ.rev /\ occ.rev \in Nat /\ occ \in Occurrence
    BY <1>1, <1>3, Shapes, OwnerMayRely DEF OwnsLive
  <2>2. occ' = [occ EXCEPT !.status = "delivered", !.rev = occ.rev]
    BY <1>3, <2>1, SameMax DEF FinalizeSuccess
  <2>3. occ'.status = "delivered" /\ occ'.rev = occ.rev
    BY <2>1, <2>2 DEF Occurrence
  <2>4. rem'.rev = rem.rev /\ rem'.status # "processing"
    BY <1>3, Shapes, DeliveredRowIs DEF FinalizeSuccess, Reminder
  <2>5. SentInv'
    <3>1. Sent(deliv)' = Sent(deliv)
      BY <1>1 DEF Sent
    <3>2. QED
      BY <1>1, <2>1, <2>3, <3>1, OwnerMayRely DEF SentInv
  <2>6. QED
    BY <1>1, <2>1, <2>4, <2>5, WorkerParts
<1>4. QED
  BY <1>2, <1>3

LEMMA FailFans ==
  ASSUME Types, Types', FanOut, NEW w \in Workers, Fail(w)
  PROVE  FanOut'
<1>1. UNCHANGED <<acts, confirmed>> /\ Stop(w)
  BY DEF Fail
<1>2. CASE OwnsLive(w)
  BY <1>1, <1>2, FailureFans DEF Fail
<1>3. CASE ~OwnsLive(w)
  BY <1>1, <1>3, NothingIsQuiet, StoppedFans DEF Fail
<1>4. QED
  BY <1>2, <1>3

LEMMA DeliverPersonallyFans ==
  ASSUME Types, Types', FanOut, NEW w \in Workers, DeliverPersonally(w)
  PROVE  FanOut'
<1>1. UNCHANGED <<acts, confirmed>> /\ Stop(w) /\ worker[w].pc = "personal"
  BY DEF DeliverPersonally
<1>2. CASE ~OwnsLive(w)
  BY <1>1, <1>2, NothingIsQuiet, StoppedFans DEF DeliverPersonally
<1>3. CASE OwnsLive(w) /\ FinalizeFailure(w)
  BY <1>1, <1>3, FailureFans
<1>4. CASE OwnsLive(w) /\ ~FinalizeFailure(w)
  <2>1. occ'.status = "delivered" /\ rem'.status = "sent" /\ rem'.rev = rem.rev /\ deliv' = deliv
    BY <1>4, PersonalIs
  <2>2. Owns(w) /\ Sent(deliv) = {} /\ confirmed \subseteq Sent(deliv)
    BY <1>1, <1>4, OwnerMayRely DEF OwnsLive
  <2>3. Sent(deliv)' = {}
    BY <2>1, <2>2 DEF Sent
  <2>4. SentInv'
    BY <1>1, <2>1, <2>2, <2>3 DEF SentInv
  <2>5. QED
    BY <1>1, <2>1, <2>2, <2>4, WorkerParts
<1>5. QED
  BY <1>2, <1>3, <1>4

\* A new claim: its token is of no worker and no delivery yet.
LEMMA ClaimFans ==
  ASSUME Types, Types', FanOut, NEW w \in Workers, Claimable, ClaimRow(w), UNCHANGED <<acts, confirmed>>
  PROVE  FanOut'
<1> DEFINE n == rem.rev + 1
           a == [Idle EXCEPT !.pc = "prepare", !.token = n]
<1>1. n \in Nat /\ rem.rev < n /\ n # Null /\ rem \in Reminder
  BY Shapes DEF Null
<1>2. /\ rem'.status = "processing" /\ rem'.token = n /\ rem'.rev = n /\ rem'.state = rem.state
  BY <1>1 DEF ClaimRow, Reminder
<1>3. a \in WorkerState /\ a.pc = "prepare" /\ a.token = n
  BY <1>1, IdleIs DEF WorkerState, Steps
<1>4. worker' = [worker EXCEPT ![w] = a] /\ occ' = occ /\ deliv' = deliv
  BY DEF ClaimRow
<1> HIDE DEF n, a
<1>5. worker'[w] = a /\ \A u \in Workers : u # w => worker'[u] = worker[u]
  BY <1>3, <1>4, WorkerChanged
<1>6. \A u \in Workers : worker[u].token < n /\ worker[u].token \in Nat
  BY <1>1, TokensAre DEF FanOut, ClaimInv
<1>7. \A k \in Keys : deliv[k].token < n /\ deliv[k].token \in Nat
  BY <1>1, TokensAre DEF FanOut, ClaimInv
<1>8. rem.state \notin Terminal /\ (rem.status # "processing" \/ rem.lease # "live")
  BY DEF Claimable, Live, Terminal
<1>9. ClaimInv'
  <2>1. \A u \in Workers : worker'[u].token <= n
    BY <1>1, <1>3, <1>5, <1>6
  <2>2. \A u, v \in Workers : worker'[u].token = worker'[v].token /\ worker'[v].token # Null => u = v
    BY <1>1, <1>3, <1>5, <1>6 DEF FanOut, ClaimInv
  <2>3. \A k \in Keys : deliv'[k].token <= n
    BY <1>1, <1>4, <1>7
  <2>4. QED
    BY <1>1, <1>2, <1>8, <2>1, <2>2, <2>3 DEF ClaimInv
<1>10. Engaged(w)' /\ Sending(w)'
  BY <1>1, <1>3, <1>4, <1>5, <1>7 DEF Engaged, Sending, Ahead
<1>11. ASSUME NEW u \in Workers, u # w PROVE Engaged(u)' /\ Sending(u)'
  <2>1. ~Owns(u)'
    BY <1>1, <1>2, <1>5, <1>6, <1>11 DEF Owns
  <2>2. worker[u].pc # "send"
    BY <1>8, NobodySends
  <2>3. QED
    BY <1>5, <1>11, <2>1, <2>2 DEF Engaged, Sending
<1>12. SentInv'
  BY <1>2, <1>4, NothingIsQuiet, QuietKeepsSent DEF FanOut
<1>13. QED
  BY <1>9, <1>10, <1>11, <1>12 DEF FanOut

LEMMA ClaimDueFans ==
  ASSUME Types, Types', FanOut, NEW w \in Workers, ClaimDue(w)
  PROVE  FanOut'
<1>1. Claimable /\ UNCHANGED <<acts, confirmed>>
  BY DEF ClaimDue
<1>2. CASE ClaimRow(w)
  BY <1>1, <1>2, ClaimFans
<1>3. \A u \in Workers : worker[u].pc # "send"
  BY <1>1, NobodySends DEF Claimable, Live, Terminal
<1>4. rem.rev \in Nat /\ rem.rev <= rem.rev /\ rem \in Reminder
  BY Shapes
<1>5. CASE Reconcile
  <2>1. rem'.status = "sent" /\ rem'.state = "delivered" /\ rem'.rev = rem.rev /\ worker' = worker
    BY <1>4, <1>5, ReleasedRow DEF Reconcile, Reminder
  <2>2. \A k \in Keys : /\ deliv'[k].state # "processing"
                        /\ deliv'[k].state = "sent" <=> deliv[k].state = "sent"
                        /\ deliv[k].state = "sent" => deliv'[k] = deliv[k]
    BY <1>5, Shapes, ReconciledRows DEF Reconcile
  <2>3. \A k \in Keys : deliv'[k].token \in {deliv[k].token, Null}
    BY <1>5, Shapes DEF Reconcile, Reconciled, Delivery
  <2>4. Sent(deliv)' = Sent(deliv) /\ \A k \in Sent(deliv) : deliv'[k] = deliv[k]
    BY <2>2 DEF Sent
  <2>5. occ'.status = "delivered" /\ occ'.rev = occ.rev
    BY <1>5, Shapes DEF Reconcile, Occurrence
  <2>6. SentInv'
    BY <1>1, <2>1, <2>4, <2>5 DEF FanOut, SentInv, Claimable, Live, Terminal
  <2>7. Parted
    BY <1>1, <1>3, <1>4, <2>1, <2>3, NobodyOwns DEF Parted
  <2>8. QED
    BY <2>6, <2>7, PartedFans
<1>6. CASE Exhaust
  <2> DEFINE r == Released(rem)
  <2>1. r \in Reminder /\ r.rev = rem.rev
    BY <1>4, ReleasedRow
  <2>2. rem' = [r EXCEPT !.status = "failed", !.state = "failed", !.msg = Null, !.named = FALSE]
    BY <1>6 DEF Exhaust
  <2> HIDE DEF r
  <2>3. rem'.status = "failed" /\ rem'.state = "failed" /\ rem'.rev = rem.rev
    BY <2>1, <2>2 DEF Reminder
  <2>4. worker' = worker /\ \A k \in Keys : deliv'[k].token \in {deliv[k].token, Null}
    BY <1>6, EndingTokens DEF Exhaust
  <2>5. SentInv'
    BY <2>3 DEF SentInv, Terminal
  <2>6. Parted
    BY <1>1, <1>3, <1>4, <2>3, <2>4, NobodyOwns DEF Parted
  <2>7. QED
    BY <2>5, <2>6, PartedFans
<1>7. QED
  BY <1>2, <1>5, <1>6 DEF ClaimDue

LEMMA WorkerFans ==
  ASSUME Types, Types', FanOut, NEW w \in Workers, WorkerStep(w)
  PROVE  FanOut'
BY ClaimDueFans, PrepareOccurrenceFans, ChoosePathFans, PrepareRecipientsFans, NextRecipientFans,
   ValidateFans, SendRecipientFans, RecordSuccessFans, RecordFailureFans, ReadStatusFans,
   RecordMessageFans, FinalizeSuccessFans, FailFans, DeliverPersonallyFans DEF WorkerStep

\* No button is taken while a worker has the claim.
LEMMA ButtonParts ==
  ASSUME Types, Types', FanOut, rem.status # "processing", rem.state \notin Terminal,
         rem.rev <= rem'.rev, rem'.status # "processing", worker' = worker,
         confirmed' \subseteq confirmed, SentInv',
         \A k \in Keys : deliv'[k].token \in {deliv[k].token, Null}
  PROVE  FanOut'
<1>1. \A w \in Workers : worker[w].pc # "send"
  BY NobodySends
<1>2. Parted
  BY <1>1, NobodyOwns DEF Parted
<1>3. QED
  BY <1>2, PartedFans

LEMMA ButtonFans ==
  ASSUME Types, Types', FanOut, NEW c \in cards,
         ParticipantDone(c) \/ ParticipantSnooze(c) \/ OwnerDone(c) \/ OwnerSnooze(c) \/ OwnerEdit(c)
  PROVE  FanOut'
<1>1. /\ rem.status # "processing" /\ rem.state \notin Terminal /\ worker' = worker /\ occ.status = "delivered"
      /\ rem \in Reminder /\ rem.rev \in Nat
  BY Shapes DEF ParticipantDone, ParticipantSnooze, OwnerDone, OwnerSnooze, OwnerEdit, ParticipantMay,
     OwnerMay, Shareable, Supported, CurrentOccurrence, Live, Terminal
<1> DEFINE n == rem.rev + 1
<1>2. n \in Nat /\ rem.rev <= n
  BY <1>1
<1>3. CASE ParticipantDone(c) \/ OwnerDone(c)
  <2>1. \/ rem' = CompletedRow(rem) \/ rem' = [rem EXCEPT !.state = "completed", !.rev = n]
    BY <1>3 DEF ParticipantDone, OwnerDone
  <2> HIDE DEF n
  <2>2. rem'.state = "completed" /\ rem'.status # "processing" /\ rem'.rev = n
    BY <1>1, <2>1, ButtonRows DEF Reminder, n
  <2>3. confirmed' = confirmed /\ \A k \in Keys : deliv'[k].token \in {deliv[k].token, Null}
    BY <1>3, EndingTokens DEF ParticipantDone, OwnerDone
  <2>4. SentInv'
    BY <2>2 DEF SentInv, Terminal
  <2>5. QED
    BY <1>1, <1>2, <2>2, <2>3, <2>4, ButtonParts
<1>4. CASE ParticipantSnooze(c) \/ OwnerSnooze(c)
  <2>1. /\ rem' = SnoozedRow(rem) /\ ResetRows
        /\ occ' = [occ EXCEPT !.status = "snoozed", !.rev = occ.rev + 1]
    BY <1>4 DEF ParticipantSnooze, OwnerSnooze
  <2>2. rem'.status = "pending" /\ rem'.rev = n
    BY <2>1, ButtonRows
  <2>3. confirmed' = {} /\ Sent(deliv)' = {}
    BY <2>1, Shapes, ResetRowsAre DEF Sent
  <2>4. \A k \in Keys : deliv'[k].token = Null
    BY <2>1, Shapes DEF ResetRows, NoDelivery, Fresh, Delivery
  <2>5. occ'.status = "snoozed"
    BY <2>1, OccurrenceRaised
  <2>6. SentInv'
    BY <2>3, <2>5 DEF SentInv
  <2> HIDE DEF n
  <2>7. QED
    BY <1>1, <1>2, <2>2, <2>3, <2>4, <2>6, ButtonParts
<1>5. CASE OwnerEdit(c)
  <2>1. /\ rem' = [rem EXCEPT !.rev = n, !.attempts = 0,
                              !.status = IF rem.state = "delivered" THEN "sent" ELSE "pending"]
        /\ occ' = [occ EXCEPT !.rev = n]
        /\ Act(c, "edit") /\ UNCHANGED <<deliv, confirmed>>
    BY <1>5 DEF OwnerEdit
  <2> HIDE DEF n
  <2>2. rem'.status # "processing" /\ rem'.rev = n /\ rem'.state = rem.state
    BY <1>1, <2>1 DEF Reminder
  <2>3. occ'.status = "delivered"
    BY <1>1, <2>1, Shapes DEF Occurrence
  <2>4. \E a \in acts' : a.kind = "edit"
    <3> DEFINE a == [card |-> c, kind |-> "edit", active |-> c.to = Owner \/ c.to \in Members,
                     mrev |-> IF c.to = Owner THEN 0 ELSE member[c.to].rev,
                     mid |-> IF c.to = Owner THEN 0 ELSE member[c.to].id]
    <3>1. a \in acts' /\ a.kind = "edit"
      BY <2>1 DEF Act
    <3> HIDE DEF a
    <3>2. QED
      BY <3>1
  <2>5. Sent(deliv)' = Sent(deliv)
    BY <2>1 DEF Sent
  <2>6. SentInv'
    BY <1>1, <2>1, <2>3, <2>4, <2>5 DEF FanOut, SentInv
  <2>7. QED
    BY <1>1, <1>2, <2>1, <2>2, <2>6, ButtonParts
<1>6. QED
  BY <1>3, <1>4, <1>5

LEMMA OwnerCancelFans ==
  ASSUME Types, Types', FanOut, OwnerCancel
  PROVE  FanOut'
<1>1. rem'.state = "cancelled" /\ rem'.status = "sent" /\ rem'.rev = rem.rev + 1
  BY OwnerCancelIs
<1>2. rem.rev <= rem'.rev
  BY <1>1, Shapes
<1>3. \A k \in Keys : deliv'[k].token \in {deliv[k].token, Null}
  BY OwnerCancelIs, EndingTokens
<1>4. SentInv'
  BY <1>1 DEF SentInv, Terminal
<1>5. worker' = worker /\ confirmed' = confirmed
  BY DEF OwnerCancel
<1>6. Parted
  BY <1>1, <1>2, <1>3, <1>5, NobodyOwns DEF Parted, Terminal
<1>7. QED
  BY <1>4, <1>6, PartedFans

\* The lease ends between two calls.
LEMMA ExpireLeaseFans ==
  ASSUME Types, Types', FanOut, ExpireLease
  PROVE  FanOut'
<1>1. /\ rem'.status = rem.status /\ rem'.lease = "over" /\ rem'.token = rem.token /\ rem'.state = rem.state
      /\ rem'.rev = rem.rev /\ rem.rev \in Nat
      /\ UNCHANGED <<occ, deliv, worker, acts, confirmed>>
  BY Shapes DEF ExpireLease, Reminder
<1>2. \A w \in Workers : worker[w].pc = "send" => rem.state \in Terminal
  BY DEF ExpireLease, FanOut, Sending, Owns
<1>3. SentInv'
  BY <1>1, NothingIsQuiet, QuietKeepsSent DEF FanOut
<1>4. rem'.state \in Terminal => rem'.status # "processing"
  BY <1>1 DEF FanOut, ClaimInv
<1>5. Parted
  BY <1>1, <1>2, <1>4, NobodyOwns DEF Parted
<1>6. QED
  BY <1>3, <1>5, PartedFans

\* Nothing that a worker relies on changes, except that rows are fenced.
LEMMA StillFans ==
  ASSUME Types, FanOut, UNCHANGED <<rem, occ, worker, acts, confirmed>>,
         RowsQuiet \/ (rem.state \in Terminal /\ \A k \in Keys : deliv'[k].token \in {deliv[k].token, Null})
  PROVE  FanOut'
<1>1. \A k \in Keys : deliv'[k].token \in {deliv[k].token, Null}
  BY DEF RowsQuiet
<1>2. ClaimInv'
  BY <1>1, TokensAre DEF FanOut, ClaimInv
<1>3. SentInv'
  BY QuietKeepsSent DEF FanOut, SentInv
<1>4. ASSUME NEW u \in Workers PROVE Engaged(u)' /\ Sending(u)'
  <2>1. SameClaim /\ (Owns(u)' <=> Owns(u))
    BY NothingIsQuiet, SameOwner
  <2>2. Sending(u)'
    BY <2>1 DEF FanOut, Sending, Target
  <2>3. CASE RowsQuiet
    <3>1. Owns(u) /\ worker[u].pc = "personal" => Sent(deliv) = {}
      BY OwnerMayRely
    <3>2. Owns(u) /\ worker[u].pc \in {"record", "finalize"} => worker[u].keyRev = occ.rev
      BY OwnerMayRely
    <3>3. Engaged(u)'
      BY <2>1, <2>3, <3>1, <3>2, QuietEngaged
    <3>4. QED
      BY <2>2, <3>3
  <2>4. CASE rem.state \in Terminal
    <3>1. ~Owns(u)'
      BY <2>1, <2>4, OneOwner
    <3>2. QED
      BY <2>2, <3>1 DEF Engaged
  <2>5. QED
    BY <2>3, <2>4
<1>5. QED
  BY <1>2, <1>3, <1>4 DEF FanOut

LEMMA FenceIsQuiet ==
  ASSUME Types, NEW ps, NEW k \in Keys, deliv'[k] = Fenced(ps, deliv)[k]
  PROVE  /\ deliv'[k].state = "sent" <=> deliv[k].state = "sent"
         /\ deliv[k].state = "sent" => deliv'[k].rev = deliv[k].rev
         /\ deliv'[k].state = "processing" =>
              deliv[k].state = "processing" /\ deliv'[k].rev = deliv[k].rev /\ deliv'[k].token = deliv[k].token
         /\ deliv'[k].token \in {deliv[k].token, Null}
<1>1. Cancelled(deliv[k]).token = Null
  BY Shapes DEF Cancelled, Delivery
<1>2. deliv \in Rows(occ.rev) /\ occ.rev \in Nat
  BY Shapes
<1>3. \/ deliv'[k] = deliv[k]
      \/ /\ deliv[k].state \in Unfinished /\ deliv'[k] = Cancelled(deliv[k])
         /\ deliv'[k].state = "cancelled"
  BY <1>2, FencedRows
<1>4. QED
  BY <1>1, <1>3 DEF Unfinished

LEMMA PeopleFan ==
  ASSUME Types, FanOut,
         \/ \E i \in Invites : CreateInvite(i) \/ RevokeInvite(i)
         \/ \E p \in Participants : \/ RevokeMembership(p) \/ AcceptInvite(p) \/ OpenCard(p) \/ SendCard(p)
                                   \/ \E i \in Invites : OpenLink(p, i)
  PROVE  FanOut'
<1>1. /\ UNCHANGED <<rem, occ, worker, acts, confirmed>>
      /\ deliv' = deliv \/ \E p \in Participants : deliv' = Fenced({p}, deliv)
  BY DEF RevokeMembership, AcceptInvite, OpenCard, SendCard, CreateInvite, RevokeInvite, OpenLink
<1>2. RowsQuiet
  BY <1>1, FenceIsQuiet, NothingIsQuiet DEF RowsQuiet
<1>3. QED
  BY <1>1, <1>2, StillFans

\* The cleanup removes rows of an ended reminder, or of an occurrence that
\* failed with nobody having got a message.
LEMMA CleanupFans ==
  ASSUME Types, FanOut, NEW old, NEW lapsed, Cleanup(old, lapsed)
  PROVE  FanOut'
<1>1. UNCHANGED <<rem, occ, worker, acts, confirmed>>
  BY DEF Cleanup
<1>2. \A k \in Keys : \/ deliv'[k] = NoDelivery /\ (rem.state \in Terminal \/ occ.status \in Terminal)
                      \/ deliv'[k] = Fenced(Swept, deliv)[k]
  BY CleanupIs
<1>3. NoDelivery.token = Null /\ NoDelivery.state = "absent"
  BY DEF NoDelivery
<1>4. \A k \in Keys : deliv'[k].token \in {deliv[k].token, Null}
  BY <1>2, <1>3, FenceIsQuiet
<1>5. CASE rem.state \in Terminal
  BY <1>1, <1>4, <1>5, StillFans
<1>6. CASE rem.state \notin Terminal
  <2>1. \A k \in Keys : deliv'[k] = NoDelivery \/ deliv'[k] = Fenced(Swept, deliv)[k]
    BY <1>2
  <2>2. ASSUME NEW k \in Keys, deliv'[k] # Fenced(Swept, deliv)[k]
        PROVE  deliv'[k] = NoDelivery /\ deliv[k].state # "sent"
    <3>1. deliv'[k] = NoDelivery /\ occ.status \in Terminal
      BY <1>2, <1>6, <2>2
    <3>2. Sent(deliv) = {}
      BY <1>6, <3>1 DEF FanOut, SentInv, Terminal
    <3>3. QED
      BY <3>1, <3>2 DEF Sent
  <2>3. RowsQuiet
    BY <1>3, <2>2, FenceIsQuiet DEF RowsQuiet
  <2>4. QED
    BY <1>1, <2>3, StillFans
<1>7. QED
  BY <1>5, <1>6

LEMMA ClockFans ==
  ASSUME Types, FanOut, NEW k \in Keys, ExpireRow(k)
  PROVE  FanOut'
<1>1. UNCHANGED <<rem, occ, worker, acts, confirmed>>
  BY DEF ExpireRow
<1>2. /\ deliv' = [deliv EXCEPT ![k] = LateRow(deliv[k])]
      /\ LateRow(deliv[k]).rev = deliv[k].rev
      /\ LateRow(deliv[k]).state = deliv[k].state /\ LateRow(deliv[k]).token = deliv[k].token
  BY ExpireRowIs
<1>3. deliv'[k] = LateRow(deliv[k]) /\ \A j \in Keys : j # k => deliv'[j] = deliv[j]
  BY <1>2, Shapes, RowsAre
<1>4. RowsQuiet
  BY <1>2, <1>3 DEF RowsQuiet
<1>5. QED
  BY <1>1, <1>4, StillFans

LEMMA AbandonFans ==
  ASSUME Types, FanOut, NEW w \in Workers, Abandon(w)
  PROVE  FanOut'
BY NothingIsQuiet, StoppedFans DEF Abandon

LEMMA FansNext ==
  ASSUME Types, FanOut, [Next]_vars
  PROVE  FanOut'
<1>1. Types'
  BY TypesNext
<1>2. CASE Sharing
  BY <1>2, PeopleFan, CleanupFans DEF Sharing
<1>3. CASE Buttons
  BY <1>1, <1>3, PeopleFan, ButtonFans, OwnerCancelFans DEF Buttons
<1>4. CASE UNCHANGED vars
  BY <1>4, NothingIsQuiet, StillFans DEF vars
<1>5. QED
  BY <1>1, <1>2, <1>3, <1>4, PeopleFan, WorkerFans, AbandonFans, ExpireLeaseFans, ClockFans DEF Next

LEMMA AlwaysFans == Spec => []FanOut
<1>1. Init => FanOut
  BY InitFans
<1>2. Types /\ FanOut /\ [Next]_vars => FanOut'
  BY FansNext
<1>3. QED
  BY <1>1, <1>2, Always, SpecSteps, PTL

\* A recipient whose message of this round is recorded as sent gets no second
\* one, whatever crashes, retries and revocations follow: the call is made under
\* a claim whose delivery row was still in progress, and nobody else can record
\* in between.
THEOREM RecordedOnce == Spec => RecordedIsNotRepeated
<1>1. Types /\ MemberInv /\ FanOut /\ [Next]_vars
        => \A c \in cards' \ cards : c.msg # Null => <<c.to, c.mrev>> \notin confirmed
  <2> SUFFICES ASSUME Types, MemberInv, FanOut, [Next]_vars, NEW c \in cards' \ cards, c.msg # Null
               PROVE  <<c.to, c.mrev>> \notin confirmed
    OBVIOUS
  <2>1. \E w \in Workers : WorkerStep(w)
    <3>1. CASE Clicks
      <4>1. cards' = cards
        BY <3>1, ButtonPressed DEF Clicks, Pressed
      <4>2. QED
        BY <4>1
    <3>2. CASE ~Clicks /\ \A w \in Workers : ~WorkerStep(w)
      BY <3>2, QuietSteps
    <3>3. QED
      BY <3>1, <3>2
  <2>2. PICK w \in Workers : WorkerStep(w)
    BY <2>1
  <2>3. \/ c = Message(w) /\ SendRecipient(w)
        \/ c = PersonalMessage(w) /\ DeliverPersonally(w) /\ OwnsLive(w)
    BY <2>2, WorkerCards
  <2>4. CASE c = Message(w) /\ SendRecipient(w)
    <3>1. worker[w].pc = "send"
      BY <2>4, SendRecipientIs
    <3>2. Target(w) \notin confirmed
      BY <3>1 DEF FanOut, Sending
    <3>3. Target(w) = <<Target(w)[1], Target(w)[2]>>
      BY TargetIs, KeysAre
    <3>4. c.to = Target(w)[1] /\ c.mrev = Target(w)[2]
      BY <2>4 DEF Message
    <3>5. QED
      BY <3>2, <3>3, <3>4
  <2>5. CASE c = PersonalMessage(w) /\ DeliverPersonally(w) /\ OwnsLive(w)
    <3>1. worker[w].pc = "personal" /\ Owns(w)
      BY <2>5 DEF DeliverPersonally, OwnsLive
    <3>2. confirmed = {}
      BY <3>1, OwnerMayRely
    <3>3. QED
      BY <3>2
  <2>6. QED
    BY <2>3, <2>4, <2>5
<1>2. QED
  BY <1>1, Always, AlwaysFans, SpecSteps, PTL DEF RecordedIsNotRepeated

\* Once the fan-out is over, the last message of every recipient that is
\* recorded as sent carries the generation its buttons are checked against,
\* unless the owner changed the text since: a retry keeps the revision of the
\* occurrence as soon as somebody has his message (prepare_delivery_occurrence).
THEOREM SentOnesWork == Spec => []SentButtonsWork
<1>1. FanOut => SentButtonsWork
  BY DEF FanOut, SentInv, SentButtonsWork, Sent, Terminal
<1>2. QED
  BY <1>1, AlwaysFans, PTL
=============================================================================
