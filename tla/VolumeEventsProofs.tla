------------------------ MODULE VolumeEventsProofs ------------------------
(***************************************************************************)
(* The order of the events of a handoff, on top of the safety of the       *)
(* authority and for the same constants: as long as no crash falls between *)
(* a row and its event, each side hears of a handoff in the order of its   *)
(* rows, and no event finds a row that refuses it.                         *)
(***************************************************************************)
EXTENDS VolumeAuthorityProofs

-----------------------------------------------------------------------------
(* The order of the events in a stream, as long as no crash fell between a *)
(* row and its event.                                                      *)

Closed(r) == r.state \in Broken \cup {"committed"}
Ends(e, t) == e.t = t /\ e.op \in Broken \cup {"committed"}
Breaks(e, t) == e.t = t /\ e.op \in Broken
Offers(e, t) == e.t = t /\ e.op = "snapshot-ready"
HasSnap(e) == e.op \in {"created", "snapshot-ready", "committed"}
NoSnaps(q) == \A i \in DOMAIN q : ~ HasSnap(q[i])

(* A stream brings the snapshots from L to M in their order and leaves     *)
(* none out; a commit's is new.                                            *)
Ordered(q, L, M) ==
  /\ \A i \in DOMAIN q : HasSnap(q[i]) =>
       L <= q[i].snap /\ q[i].snap <= M /\ (q[i].op = "committed" => L < q[i].snap)
  /\ \A i, j \in DOMAIN q : i < j /\ HasSnap(q[i]) /\ HasSnap(q[j]) =>
       q[i].snap <= q[j].snap /\ (q[j].op = "committed" => q[i].snap < q[j].snap)
  /\ \A n \in (L + 1)..M : \E i \in DOMAIN q : HasSnap(q[i]) /\ q[i].snap = n

(* Every event is sent as its row is written.                              *)
SentInv == \A x \in Sites, t \in DOMAIN transfers : Owed(x, t) = {}

EndsInv ==
  \A s \in Suitcases, t \in DOMAIN transfers :
    /\ row[s][t].state = "committed" => row[Home][t].state = "committed"
    /\ row[s][t].state \in Broken /\ row[s][t].snap = 0 =>
         row[Home][t].state \in Broken \/ s = Source(t)

(* A suitcase hears the end of a handoff before anything of the next one.  *)
OrderInv ==
  \A s \in Suitcases, t \in DOMAIN transfers : ~ Closed(row[s][t]) =>
    /\ Closed(row[Home][t]) => \E i \in DOMAIN incoming[s] : Ends(incoming[s][i], t)
    /\ \A u \in DOMAIN transfers : t < u => row[s][u].state = "none"
    /\ \A i \in DOMAIN incoming[s] :
         t < incoming[s][i].t => \E j \in DOMAIN incoming[s] : j < i /\ Ends(incoming[s][j], t)

(* Only the writer sends snapshots, its own, and Home passes them on.      *)
OutgoingInv ==
  \A s \in Suitcases :
    /\ s = writer[Home] => Ordered(outgoing[s], Latest(Home), Top)
    /\ s # writer[Home] => NoSnaps(outgoing[s])
    /\ \A i \in DOMAIN outgoing[s] : HasSnap(outgoing[s][i]) =>
         AuthorityOf(outgoing[s][i].snap) = s /\ outgoing[s][i].snap <= Latest(s)

IncomingInv ==
  \A s \in Suitcases :
    /\ Ordered(incoming[s], Latest(s), Latest(Home))
    /\ \A i \in DOMAIN incoming[s] :
         incoming[s][i].op \in {"created", "snapshot-ready"} =>
           AuthorityOf(incoming[s][i].snap) # s

(* The snapshot handed over is the last one its source sends.              *)
HandoverInv ==
  \A t \in DOMAIN transfers : row[Home][t].state \in Active /\ Source(t) # Home =>
    /\ row[Home][t].snap # 0 => NoSnaps(outgoing[Source(t)])
    /\ \A i, j \in DOMAIN outgoing[Source(t)] :
         i < j /\ Offers(outgoing[Source(t)][i], t) => ~ HasSnap(outgoing[Source(t)][j])

(* A suitcase has the snapshot of the handoff, or hears of it before what  *)
(* becomes of the handoff.                                                 *)
Coming(q, t) ==
  \E j \in DOMAIN q :
    /\ Offers(q[j], t)
    /\ \A k \in DOMAIN q : k < j /\ q[k].t = t => q[k].op \notin Broken \cup Restored

Offered(s, t) ==
  row[s][t].snap # 0 \/ (row[s][t].state \notin Broken /\ Coming(incoming[s], t))

OfferInv ==
  \A s \in Suitcases, t \in DOMAIN transfers :
    /\ row[Home][t].snap # 0 => Offered(s, t)
    /\ row[s][t].snap # 0 /\ s # Source(t) => row[Home][t].snap # 0
    /\ s = Source(t) =>
         (row[Home][t].snap # 0 \/ Told(s, "snapshot-ready", t) => row[s][t].snap # 0)
    /\ \A i \in DOMAIN incoming[s] : incoming[s][i].t = t /\ incoming[s][i].op \in Restored =>
         /\ row[Home][t].snap # 0 /\ row[s][t].state # "committed"
         /\ \A j \in DOMAIN incoming[s] :
              j < i /\ incoming[s][j].t = t => incoming[s][j].op # "committed"
    /\ \A i \in DOMAIN incoming[s] : row[Home][t].snap = 0 /\ Offers(incoming[s][i], t) =>
         \/ row[s][t].state \in Broken
         \/ \E j \in DOMAIN incoming[s] : j < i /\ Breaks(incoming[s][j], t)

(* That a target is ready is said once, and of a snapshot Home has.        *)
ReadyInv ==
  \A s \in Suitcases : \A i \in DOMAIN outgoing[s] :
    LET e == outgoing[s][i] IN e.op = "target-ready" =>
      /\ row[Home][e.t].snap # 0 /\ row[Home][e.t].state \notin Restored
      /\ row[s][e.t].state \in Restored \cup Broken
      /\ \A j \in DOMAIN outgoing[s] :
           outgoing[s][j].op = "target-ready" /\ outgoing[s][j].t = e.t => i = j

(* What a pass at a suitcase is about to announce is the newest snapshot.  *)
RecordedInv ==
  \A w \in Workers :
    WorkerSite[w] # Home /\ job[w].at = "recorded"
      /\ row[WorkerSite[w]][job[w].t].state = "source-capturing"
    => job[w].snap = Top

(* Only the writer knows a snapshot that Home does not.                    *)
BehindInv == \A s \in Suitcases : s = writer[Home] \/ Latest(s) <= Latest(Home)

CalmInv ==
  /\ SentInv /\ EndsInv /\ OrderInv /\ OutgoingInv /\ IncomingInv /\ HandoverInv /\ OfferInv
  /\ ReadyInv /\ RecordedInv /\ BehindInv

(* Stream p is q with one event more, or without its first one.            *)
Longer(p, q, e) ==
  /\ p \in Seq(Events) /\ q \in Seq(Events) /\ e \in Events /\ Len(q) \in Nat
  /\ DOMAIN q = 1..Len(q) /\ DOMAIN p = 1..(Len(q) + 1)
  /\ p[Len(q) + 1] = e /\ \A i \in 1..Len(q) : p[i] = q[i]

Shorter(p, q) ==
  /\ p \in Seq(Events) /\ q \in Seq(Events) /\ Len(q) \in Nat /\ Len(q) # 0
  /\ DOMAIN q = 1..Len(q) /\ DOMAIN p = 1..(Len(q) - 1)
  /\ \A i \in 1..(Len(q) - 1) : p[i] = q[i + 1]

LEMMA EventTypes ==
  ASSUME NEW q \in Seq(Events), NEW i \in DOMAIN q
  PROVE  /\ q[i] \in Events /\ q[i].snap \in Nat /\ q[i].t \in Nat
         /\ DOMAIN q = 1..Len(q) /\ Len(q) \in Nat /\ i \in Nat
<1>1. q[i] \in Events /\ DOMAIN q = 1..Len(q) /\ Len(q) \in Nat
  OBVIOUS
<1> QED BY <1>1 DEF Events

LEMMA JoinedIsLonger ==
  ASSUME NEW q \in Seq(Events), NEW e \in Events
  PROVE  Longer(q \o <<e>>, q, e) /\ Longer(Append(q, e), q, e)
<1>1. Longer(q \o <<e>>, q, e)
  BY JoinedEvents DEF Longer
<1>2. Longer(Append(q, e), q, e)
  BY SeqAppended DEF Longer
<1> QED BY <1>1, <1>2

LEMMA LongerFacts ==
  ASSUME NEW p, NEW q, NEW e, Longer(p, q, e)
  PROVE  /\ \A i \in DOMAIN p : (i \in DOMAIN q /\ p[i] = q[i]) \/ p[i] = e
         /\ \A i \in DOMAIN q : i \in DOMAIN p /\ p[i] = q[i]
<1>1. Len(q) \in Nat /\ DOMAIN q = 1..Len(q) /\ DOMAIN p = 1..(Len(q) + 1)
  BY DEF Longer
<1>2. \A i \in DOMAIN p : i \in DOMAIN q \/ i = Len(q) + 1
  BY <1>1
<1>3. \A i \in DOMAIN q : i \in DOMAIN p
  BY <1>1
<1> QED BY <1>1, <1>2, <1>3 DEF Longer

LEMMA TailIsShorter ==
  ASSUME NEW q \in Seq(Events), q # << >>
  PROVE  Shorter(Tail(q), q) /\ Head(q) = q[1] /\ 1 \in DOMAIN q
<1>1. Len(q) \in Nat /\ Len(q) # 0 /\ DOMAIN q = 1..Len(q)
  OBVIOUS
<1>2. Tail(q) \in Seq(Events) /\ DOMAIN Tail(q) = 1..(Len(q) - 1)
  BY <1>1
<1>3. \A i \in 1..(Len(q) - 1) : Tail(q)[i] = q[i + 1]
  BY <1>1
<1> QED BY <1>1, <1>2, <1>3 DEF Shorter

LEMMA ShorterFacts ==
  ASSUME NEW p, NEW q, Shorter(p, q)
  PROVE  /\ \A i \in DOMAIN p :
              i \in Nat /\ 1 < i + 1 /\ i + 1 \in DOMAIN q /\ p[i] = q[i + 1]
         /\ \A j \in DOMAIN q :
              j \in Nat /\ (j # 1 => 1 < j /\ j - 1 \in DOMAIN p /\ p[j - 1] = q[j])
         /\ 1 \in DOMAIN q
<1>1. \A i \in DOMAIN p : i \in Nat /\ 1 < i + 1 /\ i + 1 \in DOMAIN q /\ p[i] = q[i + 1]
  BY DEF Shorter
<1>2. \A j \in DOMAIN q :
        j \in Nat /\ (j # 1 => 1 < j /\ j - 1 \in DOMAIN p /\ p[j - 1] = q[j])
  BY DEF Shorter
<1> QED BY <1>1, <1>2 DEF Shorter

(* What an order allows to be added, and leaves when its first is taken.   *)
LEMMA OrderedPlain ==
  ASSUME NEW L \in Nat, NEW M \in Nat, NEW q, NEW p, NEW e, Longer(p, q, e), ~ HasSnap(e),
         Ordered(q, L, M)
  PROVE  Ordered(p, L, M)
<1>1. \A i \in DOMAIN p : HasSnap(p[i]) => i \in DOMAIN q /\ p[i] = q[i]
  BY DEF Longer
<1>2. \A i \in DOMAIN q : i \in DOMAIN p /\ p[i] = q[i]
  BY DEF Longer
<1> QED BY <1>1, <1>2 DEF Ordered

LEMMA OrderedMore ==
  ASSUME NEW L \in Nat, NEW M \in Nat, NEW N \in Nat, NEW q, NEW p, NEW e, Longer(p, q, e),
         HasSnap(e), e.snap = N, M <= N, N <= M + 1, L <= N,
         e.op = "committed" => N = M + 1 /\ L < N,
         Ordered(q, L, M)
  PROVE  Ordered(p, L, N)
<1>1. \A i \in DOMAIN p : i \in Nat /\ (i # Len(q) + 1 => i \in DOMAIN q /\ p[i] = q[i])
  BY DEF Longer
<1>2. \A i \in DOMAIN q : i \in DOMAIN p /\ p[i] = q[i] /\ q[i].snap \in Nat
  BY EventTypes DEF Longer
<1>3. Len(q) \in Nat /\ p[Len(q) + 1] = e /\ Len(q) + 1 \in DOMAIN p
      /\ \A i \in DOMAIN p : i <= Len(q) + 1
  BY DEF Longer
<1>4. ASSUME NEW i \in DOMAIN p, HasSnap(p[i])
      PROVE  L <= p[i].snap /\ p[i].snap <= N /\ (p[i].op = "committed" => L < p[i].snap)
  <2>1. CASE i = Len(q) + 1
    BY <1>3, <2>1
  <2>2. CASE i # Len(q) + 1
    BY <1>1, <1>2, <1>4, <2>2 DEF Ordered
  <2> QED BY <2>1, <2>2
<1>5. ASSUME NEW i \in DOMAIN p, NEW j \in DOMAIN p, i < j, HasSnap(p[i]), HasSnap(p[j])
      PROVE  p[i].snap <= p[j].snap /\ (p[j].op = "committed" => p[i].snap < p[j].snap)
  <2>1. i # Len(q) + 1 /\ i \in DOMAIN q /\ p[i] = q[i]
    BY <1>1, <1>3, <1>5
  <2>2. CASE j = Len(q) + 1
    <3>1. q[i].snap <= M /\ q[i].snap \in Nat
      BY <1>2, <1>5, <2>1 DEF Ordered
    <3> QED BY <1>3, <2>1, <2>2, <3>1
  <2>3. CASE j # Len(q) + 1
    BY <1>1, <1>5, <2>1, <2>3 DEF Ordered
  <2> QED BY <2>2, <2>3
<1>6. ASSUME NEW n \in (L + 1)..N
      PROVE  \E i \in DOMAIN p : HasSnap(p[i]) /\ p[i].snap = n
  <2>1. CASE n = N
    BY <1>3, <2>1
  <2>2. CASE n # N
    <3>1. n \in (L + 1)..M
      BY <2>2
    <3> QED BY <1>2, <3>1 DEF Ordered
  <2> QED BY <2>1, <2>2
<1> QED BY <1>4, <1>5, <1>6 DEF Ordered

LEMMA OrderedTail ==
  ASSUME NEW L \in Nat, NEW M \in Nat, NEW q, NEW p, Shorter(p, q), Ordered(q, L, M)
  PROVE  /\ ~ HasSnap(q[1]) => Ordered(p, L, M)
         /\ HasSnap(q[1]) =>
              /\ L <= q[1].snap /\ q[1].snap <= L + 1 /\ q[1].snap <= M
              /\ Ordered(p, q[1].snap, M)
<1>1. \A i \in DOMAIN p : i \in Nat /\ i + 1 \in DOMAIN q /\ 1 < i + 1 /\ p[i] = q[i + 1]
  BY DEF Shorter
<1>2. \A i \in DOMAIN q :
        i \in Nat /\ q[i].snap \in Nat /\ (i # 1 => i - 1 \in DOMAIN p /\ p[i - 1] = q[i])
  BY EventTypes DEF Shorter
<1>3. 1 \in DOMAIN q
  BY DEF Shorter
<1>4. ASSUME NEW i \in DOMAIN p, NEW j \in DOMAIN p, i < j, HasSnap(p[i]), HasSnap(p[j])
      PROVE  p[i].snap <= p[j].snap /\ (p[j].op = "committed" => p[i].snap < p[j].snap)
  <2>1. i + 1 < j + 1
    BY <1>1, <1>4
  <2> QED BY <1>1, <1>4, <2>1 DEF Ordered
<1>5. ASSUME ~ HasSnap(q[1])
      PROVE  Ordered(p, L, M)
  <2>1. \A n \in (L + 1)..M : \E i \in DOMAIN p : HasSnap(p[i]) /\ p[i].snap = n
    BY <1>2, <1>5 DEF Ordered
  <2>2. \A i \in DOMAIN p : HasSnap(p[i]) =>
          L <= p[i].snap /\ p[i].snap <= M /\ (p[i].op = "committed" => L < p[i].snap)
    BY <1>1 DEF Ordered
  <2> QED BY <1>4, <2>1, <2>2 DEF Ordered
<1>6. ASSUME HasSnap(q[1])
      PROVE  /\ L <= q[1].snap /\ q[1].snap <= L + 1 /\ q[1].snap <= M
             /\ Ordered(p, q[1].snap, M)
  <2>1. L <= q[1].snap /\ q[1].snap <= M /\ q[1].snap \in Nat
    BY <1>2, <1>3, <1>6 DEF Ordered
  <2>2. q[1].snap <= L + 1
    <3>1. SUFFICES ASSUME L + 1 < q[1].snap PROVE FALSE
      BY <2>1
    <3>2. L + 1 \in (L + 1)..M
      BY <2>1, <3>1
    <3>3. PICK i \in DOMAIN q : HasSnap(q[i]) /\ q[i].snap = L + 1
      BY <3>2 DEF Ordered
    <3>4. i # 1 /\ 1 < i
      BY <1>2, <3>1, <3>3 DEF Shorter
    <3> QED BY <1>3, <1>6, <2>1, <3>1, <3>3, <3>4 DEF Ordered
  <2>3. \A i \in DOMAIN p : HasSnap(p[i]) =>
          /\ q[1].snap <= p[i].snap /\ p[i].snap <= M
          /\ p[i].op = "committed" => q[1].snap < p[i].snap
    BY <1>1, <1>3, <1>6 DEF Ordered
  <2>4. ASSUME NEW n \in (q[1].snap + 1)..M
        PROVE  \E i \in DOMAIN p : HasSnap(p[i]) /\ p[i].snap = n
    <3>1. n \in (L + 1)..M
      BY <2>1
    <3>2. PICK i \in DOMAIN q : HasSnap(q[i]) /\ q[i].snap = n
      BY <3>1 DEF Ordered
    <3>3. i # 1
      BY <2>1, <3>2
    <3> QED BY <1>2, <3>2, <3>3
  <2> QED BY <1>4, <2>1, <2>2, <2>3, <2>4 DEF Ordered
<1> QED BY <1>5, <1>6

LEMMA OrderedNone ==
  ASSUME NEW L \in Nat, NEW M \in Nat, NEW q, NoSnaps(q)
  PROVE  /\ M <= L => Ordered(q, L, M)
         /\ Ordered(q, L, M) => M <= L
<1>1. Ordered(q, L, M) => M <= L
  <2>1. SUFFICES ASSUME Ordered(q, L, M), L < M PROVE FALSE
    OBVIOUS
  <2>2. L + 1 \in (L + 1)..M
    BY <2>1
  <2> QED BY <2>1, <2>2 DEF Ordered, NoSnaps
<1>2. M <= L => (L + 1)..M = {}
  OBVIOUS
<1> QED BY <1>1, <1>2 DEF Ordered, NoSnaps

-----------------------------------------------------------------------------
(* A step that moves one row at its own site and may tell of it.           *)
Spreads(e) == \A s \in Suitcases : Longer(incoming'[s], incoming[s], e)

Posts(x, e) ==
  \A s \in Suitcases :
    /\ outgoing'[s] = outgoing[s] \/ (s = x /\ Longer(outgoing'[s], outgoing[s], e))
    /\ incoming'[s] = incoming[s] \/ (x = Home /\ Longer(incoming'[s], incoming[s], e))

RowMoved(x, t, q, r) ==
  /\ q = row[x][t] /\ r = row'[x][t] /\ OthersStay(x, t)
  /\ q.state \in Broken => r.state \in Broken
  /\ r.state = "committed" <=> q.state = "committed"
  /\ r.state \in Active => q.state \in Active
  /\ q.state \in Restored => r.state \in Restored \cup Broken
  /\ r.state \in Restored => q.state \in Restored \/ x = Target(t)
  /\ x # Home => q.state # "none"
  /\ x # Home /\ r.state \in Broken /\ r.snap = 0 => q.state \in Broken \/ x = Source(t)

(* The event of the step is of its row; one that ends the handoff at Home, *)
(* or hands the snapshot over, is sent.                                    *)
RowSaid(x, t, q, r, e) ==
  /\ Posts(x, e) /\ e \in Events /\ e.t = t /\ e.op \notin {"created", "committed"}
  /\ x = Home /\ r.state \in Broken => q.state \in Broken \/ (e.op \in Broken /\ Spreads(e))
  /\ r.snap = q.snap \/ (e.op = "snapshot-ready" /\ r.snap # 0)
  /\ e.op = "snapshot-ready" =>
       /\ x = Source(t) /\ q.state = "source-capturing" /\ r.state = "snapshot-ready"
       /\ r.snap = e.snap /\ e.snap = Top /\ e.snap # 0 /\ (x = Home => Spreads(e))
  /\ e.op = "target-ready" =>
       x = Target(t) /\ q.state = "target-restoring" /\ r.state = "target-ready"

RowChange(x, t, q, r, e) ==
  SameLine /\ JobsGo /\ RowMoved(x, t, q, r) /\ RowSaid(x, t, q, r, e)

LEMMA SameLineFacts ==
  ASSUME AuthorityInv, AuthorityInv', SameLine
  PROVE  /\ transfers' = transfers /\ writer' = writer /\ Top' = Top /\ Top \in Nat
         /\ \A n \in 0..Top : AuthorityOf(n)' = AuthorityOf(n)
         /\ \A y \in Sites : Latest(y)' = Latest(y) /\ Latest(y) \in 0..Top
         /\ \A u \in DOMAIN transfers :
              /\ u \in Transfers /\ u \in Nat /\ u # 0 /\ Source(u) \in Sites /\ Target(u) \in Sites
              /\ Source(u)' = Source(u) /\ Target(u)' = Target(u)
              /\ Expected(u)' = Expected(u)
<1>1. TypesInv /\ TypesInv' /\ LineInv /\ Grown /\ SameSnapshots /\ transfers' = transfers
  BY DEF AuthorityInv, SameLine, SameSnapshots, Grown
<1>2. /\ \A y \in Sites : Latest(y)' = Latest(y)
      /\ Top' = Top /\ \A n \in 0..Top : AuthorityOf(n)' = AuthorityOf(n)
  BY <1>1, SameLineKeeps
<1>3. Top \in Nat /\ \A y \in Sites : Latest(y) \in 0..Top
  BY <1>1, LatestFacts, TypeFacts DEF Top
<1>4. \A u \in DOMAIN transfers : u \in Transfers /\ u \in Nat /\ u # 0
  BY HandoffsAreTransfers
<1>5. \A u \in DOMAIN transfers :
        /\ Source(u) \in Sites /\ Target(u) \in Sites
        /\ Source(u)' = Source(u) /\ Target(u)' = Target(u) /\ Expected(u)' = Expected(u)
  BY <1>1, TypeFacts DEF Source, Target, Expected
<1> QED BY <1>1, <1>2, <1>3, <1>4, <1>5 DEF SameSnapshots

LEMMA StreamTypes ==
  ASSUME TypesInv, NEW s \in Suitcases
  PROVE  /\ outgoing[s] \in Seq(Events) /\ incoming[s] \in Seq(Events)
         /\ \A i \in DOMAIN outgoing[s] :
              /\ i \in Nat /\ outgoing[s][i] \in Events /\ outgoing[s][i] \in Outs(s)
              /\ outgoing[s][i].snap \in Nat /\ outgoing[s][i].t \in Nat
         /\ \A i \in DOMAIN incoming[s] :
              /\ i \in Nat /\ incoming[s][i] \in Events /\ incoming[s][i] \in Ins(s)
              /\ incoming[s][i].snap \in Nat /\ incoming[s][i].t \in Nat
<1>1. outgoing[s] \in Seq(Events) /\ incoming[s] \in Seq(Events)
  BY DEF TypesInv
<1> QED BY <1>1, EventTypes DEF Outs, Ins

(* Home's handoffs but the last are over.                                  *)
LEMMA OldOnesClosed ==
  ASSUME AuthorityInv, NEW t \in DOMAIN transfers, NEW u \in DOMAIN transfers, t < u
  PROVE  Closed(row[Home][t])
<1>1. t \in Transfers /\ t \in Nat /\ u \in Nat /\ u <= Len(transfers)
  BY HandoffsAreTransfers, TypeFacts DEF AuthorityInv
<1>2. row[Home][t].state \in States
  BY <1>1, RowFacts, HomeIsSite DEF AuthorityInv
<1>3. row[Home][t].state # "none" /\ (row[Home][t].state \in Active => t = Len(transfers))
  BY DEF AuthorityInv, TransfersInv
<1> QED BY <1>1, <1>2, <1>3 DEF Closed, States, Active, Broken

(* What the order says of a stream that got longer.                        *)
LEMMA OrderLonger ==
  ASSUME NEW p, NEW q, NEW e, Longer(p, q, e), NEW t \in Nat,
         \A i \in DOMAIN q : t < q[i].t => \E j \in DOMAIN q : j < i /\ Ends(q[j], t),
         t < e.t => \E j \in DOMAIN q : Ends(q[j], t)
  PROVE  /\ \A i \in DOMAIN p : t < p[i].t => \E j \in DOMAIN p : j < i /\ Ends(p[j], t)
         /\ (\E i \in DOMAIN q : Ends(q[i], t)) \/ Ends(e, t) => \E i \in DOMAIN p : Ends(p[i], t)
<1>1. \A i \in DOMAIN q : i \in DOMAIN p /\ p[i] = q[i] /\ i \in Nat /\ i < Len(q) + 1
  BY DEF Longer
<1>2. /\ Len(q) + 1 \in DOMAIN p /\ p[Len(q) + 1] = e
      /\ \A i \in DOMAIN p : i # Len(q) + 1 => i \in DOMAIN q /\ p[i] = q[i]
  BY DEF Longer
<1>3. ASSUME NEW i \in DOMAIN p, t < p[i].t
      PROVE  \E j \in DOMAIN p : j < i /\ Ends(p[j], t)
  <2>1. CASE i = Len(q) + 1
    <3>1. PICK j \in DOMAIN q : Ends(q[j], t)
      BY <1>2, <1>3, <2>1
    <3> QED BY <1>1, <2>1, <3>1
  <2>2. CASE i # Len(q) + 1
    <3>1. PICK j \in DOMAIN q : j < i /\ Ends(q[j], t)
      BY <1>2, <1>3, <2>2
    <3> QED BY <1>1, <3>1
  <2> QED BY <2>1, <2>2
<1>4. ASSUME (\E i \in DOMAIN q : Ends(q[i], t)) \/ Ends(e, t)
      PROVE  \E i \in DOMAIN p : Ends(p[i], t)
  BY <1>1, <1>2, <1>4
<1> QED BY <1>3, <1>4

LEMMA OrderOfRow ==
  ASSUME AuthorityInv, AuthorityInv', OrderInv, NEW x \in Sites, NEW t \in DOMAIN transfers,
         NEW q, NEW r, NEW e, RowChange(x, t, q, r, e)
  PROVE  OrderInv'
<1>0. SameLine /\ RowMoved(x, t, q, r) /\ RowSaid(x, t, q, r, e)
  BY DEF RowChange
<1>1. /\ transfers' = transfers
      /\ \A u \in DOMAIN transfers : u \in Transfers /\ u \in Nat
  BY <1>0, SameLineFacts
<1>2. \A y \in Sites, u \in DOMAIN transfers :
        /\ row'[y][u].state \in Broken \cup {"committed"} \/ ~ Closed(row'[y][u])
        /\ y # x \/ u # t => row'[y][u] = row[y][u]
  BY <1>0, <1>1 DEF RowMoved, OthersStay, Closed
<1>3. Home \in Sites /\ \A s \in Suitcases : s \in Sites /\ s # Home
  BY HomeIsSite
<1>4. SUFFICES ASSUME NEW s \in Suitcases, NEW u \in DOMAIN transfers, ~ Closed(row'[s][u])
               PROVE  /\ Closed(row'[Home][u])
                           => \E i \in DOMAIN incoming'[s] : Ends(incoming'[s][i], u)
                      /\ \A v \in DOMAIN transfers : u < v => row'[s][v].state = "none"
                      /\ \A i \in DOMAIN incoming'[s] : u < incoming'[s][i].t =>
                           \E j \in DOMAIN incoming'[s] : j < i /\ Ends(incoming'[s][j], u)
  BY <1>1 DEF OrderInv
<1>5. ~ Closed(row[s][u])
  <2>1. CASE s = x /\ u = t
    BY <1>0, <1>4, <2>1 DEF RowMoved, Closed
  <2>2. CASE s # x \/ u # t
    BY <1>2, <1>3, <1>4, <2>2
  <2> QED BY <2>1, <2>2
<1>6. /\ Closed(row[Home][u]) => \E i \in DOMAIN incoming[s] : Ends(incoming[s][i], u)
      /\ \A v \in DOMAIN transfers : u < v => row[s][v].state = "none"
      /\ \A i \in DOMAIN incoming[s] :
           u < incoming[s][i].t => \E j \in DOMAIN incoming[s] : j < i /\ Ends(incoming[s][j], u)
  BY <1>5 DEF OrderInv
<1>7. \A v \in DOMAIN transfers : u < v => row'[s][v].state = "none"
  <2>1. SUFFICES ASSUME NEW v \in DOMAIN transfers, u < v PROVE row'[s][v].state = "none"
    OBVIOUS
  <2>2. row[s][v].state = "none"
    BY <1>6, <2>1
  <2>3. s # x \/ v # t
    BY <1>0, <1>3, <2>2 DEF RowMoved
  <2> QED BY <1>2, <1>3, <2>2, <2>3
<1>8. Closed(row'[Home][u]) =>
        \/ Closed(row[Home][u])
        \/ x = Home /\ u = t /\ Ends(e, u) /\ Longer(incoming'[s], incoming[s], e)
  <2>1. CASE x = Home /\ u = t
    BY <1>0, <2>1 DEF RowMoved, RowSaid, Closed, Ends, Spreads
  <2>2. CASE x # Home \/ u # t
    BY <1>2, <1>3, <2>2
  <2> QED BY <2>1, <2>2
<1>9. CASE incoming'[s] = incoming[s]
  <2>1. Closed(row'[Home][u]) => Closed(row[Home][u])
    <3>1. ~ Longer(incoming[s], incoming[s], e)
      BY DEF Longer
    <3> QED BY <1>8, <1>9, <3>1
  <2> QED BY <1>6, <1>7, <1>9, <2>1
<1>10. CASE Longer(incoming'[s], incoming[s], e)
  <2>1. u < e.t => \E j \in DOMAIN incoming[s] : Ends(incoming[s][j], u)
    BY <1>0, <1>6, OldOnesClosed DEF RowSaid
  <2>2. /\ \A i \in DOMAIN incoming'[s] : u < incoming'[s][i].t =>
             \E j \in DOMAIN incoming'[s] : j < i /\ Ends(incoming'[s][j], u)
        /\ (\E i \in DOMAIN incoming[s] : Ends(incoming[s][i], u)) \/ Ends(e, u)
             => \E i \in DOMAIN incoming'[s] : Ends(incoming'[s][i], u)
    <3>1. u \in Nat
      BY <1>1
    <3> QED BY <1>6, <1>10, <2>1, <3>1, OrderLonger
  <2> QED BY <1>6, <1>7, <1>8, <2>2
<1> QED BY <1>0, <1>9, <1>10 DEF RowSaid, Posts

LEMMA EndsOfRow ==
  ASSUME AuthorityInv, AuthorityInv', EndsInv, NEW x \in Sites, NEW t \in DOMAIN transfers,
         NEW q, NEW r, NEW e, RowChange(x, t, q, r, e)
  PROVE  EndsInv'
<1>0. SameLine /\ RowMoved(x, t, q, r) /\ RowSaid(x, t, q, r, e)
  BY DEF RowChange
<1>1. /\ transfers' = transfers
      /\ \A u \in DOMAIN transfers : u \in Transfers /\ Source(u)' = Source(u)
  BY <1>0, SameLineFacts
<1>2. \A y \in Sites, u \in DOMAIN transfers : y # x \/ u # t => row'[y][u] = row[y][u]
  BY <1>0, <1>1 DEF RowMoved, OthersStay
<1>3. Home \in Sites /\ \A s \in Suitcases : s \in Sites /\ s # Home
  BY HomeIsSite
<1>4. SUFFICES ASSUME NEW s \in Suitcases, NEW u \in DOMAIN transfers
               PROVE  /\ row'[s][u].state = "committed" => row'[Home][u].state = "committed"
                      /\ row'[s][u].state \in Broken /\ row'[s][u].snap = 0 =>
                           row'[Home][u].state \in Broken \/ s = Source(u)
  BY <1>1 DEF EndsInv
<1>5. /\ row[s][u].state = "committed" => row[Home][u].state = "committed"
      /\ row[s][u].state \in Broken /\ row[s][u].snap = 0 =>
           row[Home][u].state \in Broken \/ s = Source(u)
  BY DEF EndsInv
<1>6. /\ row[Home][u].state = "committed" => row'[Home][u].state = "committed"
      /\ row[Home][u].state \in Broken => row'[Home][u].state \in Broken
  BY <1>0, <1>2, <1>3 DEF RowMoved
<1>7. CASE s = x /\ u = t
  <2>1. r.state \in Broken /\ r.snap = 0 => (q.state \in Broken /\ q.snap = 0) \/ x = Source(t)
    BY <1>0, <1>3, <1>7 DEF RowMoved, RowSaid, Broken
  <2> QED BY <1>0, <1>5, <1>6, <1>7, <2>1 DEF RowMoved
<1>8. CASE s # x \/ u # t
  BY <1>2, <1>3, <1>5, <1>6, <1>8
<1> QED BY <1>7, <1>8

LEMMA SentOfRow ==
  ASSUME AuthorityInv, SentInv, NEW x \in Sites, NEW t \in DOMAIN transfers, OthersStay(x, t),
         transfers' = transfers, Owed(x, t)' = {}
  PROVE  SentInv'
<1>1. \A u \in DOMAIN transfers : u \in Transfers
  BY HandoffsAreTransfers
<1>2. SUFFICES ASSUME NEW y \in Sites, NEW u \in DOMAIN transfers PROVE Owed(y, u)' = {}
  BY DEF SentInv
<1>3. CASE y = x /\ u = t
  BY <1>3
<1>4. CASE y # x \/ u # t
  <2>1. row'[y][u] = row[y][u]
    BY <1>1, <1>4 DEF OthersStay
  <2>2. Owed(y, u) = {}
    BY DEF SentInv
  <2> QED BY <2>1, <2>2 DEF Owed
<1> QED BY <1>3, <1>4

(* The event that hands a snapshot over comes from the writer.             *)
LEMMA HandsOverNewest ==
  ASSUME AuthorityInv, AuthorityInv', NEW x \in Sites, NEW t \in DOMAIN transfers,
         NEW q, NEW r, NEW e, RowChange(x, t, q, r, e), e.op = "snapshot-ready"
  PROVE  /\ e.snap = Top /\ AuthorityOf(Top) = x /\ writer[Home] = x /\ Top <= Latest(x)
         /\ x = Source(t)
<1>0. SameLine /\ RowMoved(x, t, q, r) /\ RowSaid(x, t, q, r, e)
  BY DEF RowChange
<1>1. /\ x = Source(t) /\ e.snap = Top /\ r.snap = Top /\ Top # 0 /\ r = row'[x][t]
      /\ r.state = "snapshot-ready"
  BY <1>0 DEF RowMoved, RowSaid
<1>2. /\ transfers' = transfers /\ t \in Transfers /\ t \in DOMAIN transfers' /\ Top' = Top
      /\ Top \in Nat /\ Source(t)' = Source(t) /\ Latest(x)' = Latest(x)
      /\ \A n \in 0..Top : AuthorityOf(n)' = AuthorityOf(n)
  BY <1>0, SameLineFacts
<1>3. RowSound(x, t, row[x][t])'
  BY <1>2 DEF AuthorityInv, RowsInv
<1>4. row'[x][t].snap \in known'[x] /\ Handed(t, row[x][t].snap)'
  BY <1>1, <1>3 DEF RowSound
<1>5. AuthorityOf(Top) = x
  <2>1. AuthorityOf(row[x][t].snap)' = Source(t)'
    BY <1>4 DEF Handed
  <2>2. row'[x][t].snap = Top'
    BY <1>1, <1>2
  <2>3. AuthorityOf(Top)' = Source(t)'
    BY <2>1, <2>2 DEF AuthorityOf
  <2> QED BY <1>1, <1>2, <2>3
<1>6. Top <= Latest(x)
  <2>1. TypesInv' /\ LineInv'
    BY DEF AuthorityInv
  <2>2. IsLatest(Latest(x)', known'[x])
    BY <2>1, LatestFactsAfter
  <2> QED BY <1>1, <1>2, <1>4, <2>2 DEF IsLatest
<1> QED BY <1>1, <1>5, <1>6, TopIsOfTheWriter

LEMMA OutgoingOfRow ==
  ASSUME AuthorityInv, AuthorityInv', OutgoingInv, NEW x \in Sites, NEW t \in DOMAIN transfers,
         NEW q, NEW r, NEW e, RowChange(x, t, q, r, e)
  PROVE  OutgoingInv'
<1>0. SameLine /\ RowMoved(x, t, q, r) /\ RowSaid(x, t, q, r, e)
  BY DEF RowChange
<1>1. /\ transfers' = transfers /\ writer' = writer /\ Top' = Top /\ Top \in Nat
      /\ \A n \in 0..Top : AuthorityOf(n)' = AuthorityOf(n)
      /\ \A y \in Sites : Latest(y)' = Latest(y) /\ Latest(y) \in 0..Top
  BY <1>0, SameLineFacts
<1>2. Home \in Sites /\ \A s \in Suitcases : s \in Sites /\ s # Home
  BY HomeIsSite
<1>3. SUFFICES ASSUME NEW s \in Suitcases
               PROVE  /\ s = writer[Home] => Ordered(outgoing'[s], Latest(Home), Top)
                      /\ s # writer[Home] => NoSnaps(outgoing'[s])
                      /\ \A i \in DOMAIN outgoing'[s] : HasSnap(outgoing'[s][i]) =>
                           /\ AuthorityOf(outgoing'[s][i].snap) = s
                           /\ outgoing'[s][i].snap <= Latest(s)
  <2>1. SUFFICES ASSUME NEW s \in Suitcases
                 PROVE  /\ s = writer'[Home] => Ordered(outgoing'[s], Latest(Home)', Top')
                        /\ s # writer'[Home] => NoSnaps(outgoing'[s])
                        /\ \A i \in DOMAIN outgoing'[s] : HasSnap(outgoing'[s][i]) =>
                             /\ AuthorityOf(outgoing[s][i].snap)' = s
                             /\ outgoing'[s][i].snap <= Latest(s)'
    BY DEF OutgoingInv
  <2>2. /\ s = writer[Home] => Ordered(outgoing'[s], Latest(Home), Top)
        /\ s # writer[Home] => NoSnaps(outgoing'[s])
        /\ \A i \in DOMAIN outgoing'[s] : HasSnap(outgoing'[s][i]) =>
             AuthorityOf(outgoing'[s][i].snap) = s /\ outgoing'[s][i].snap <= Latest(s)
    BY <1>3
  <2>3. snapshots' = snapshots
    BY <1>0 DEF SameLine, SameSnapshots
  <2>4. Latest(Home)' = Latest(Home) /\ Latest(s)' = Latest(s)
    BY <1>1, <1>2
  <2>5. \A i \in DOMAIN outgoing'[s] :
          AuthorityOf(outgoing[s][i].snap)' = AuthorityOf(outgoing'[s][i].snap)
    BY <2>3 DEF AuthorityOf
  <2> QED BY <1>1, <2>2, <2>4, <2>5
<1>4. /\ s = writer[Home] => Ordered(outgoing[s], Latest(Home), Top)
      /\ s # writer[Home] => NoSnaps(outgoing[s])
      /\ \A i \in DOMAIN outgoing[s] : HasSnap(outgoing[s][i]) =>
           AuthorityOf(outgoing[s][i].snap) = s /\ outgoing[s][i].snap <= Latest(s)
  BY DEF OutgoingInv
<1>5. CASE outgoing'[s] = outgoing[s]
  BY <1>4, <1>5
<1>6. CASE s = x /\ Longer(outgoing'[s], outgoing[s], e)
  <2>1. HasSnap(e) => /\ e.op = "snapshot-ready" /\ e.snap = Top /\ AuthorityOf(Top) = s
                      /\ writer[Home] = s /\ Top <= Latest(s)
    BY <1>0, <1>6, HandsOverNewest DEF HasSnap, RowSaid
  <2>2. Latest(Home) \in Nat /\ Latest(Home) <= Top
    BY <1>1, <1>2
  <2>3. \A i \in DOMAIN outgoing'[s] : outgoing'[s][i] = e
          \/ (i \in DOMAIN outgoing[s] /\ outgoing'[s][i] = outgoing[s][i])
    BY <1>6 DEF Longer
  <2>4. s = writer[Home] => Ordered(outgoing'[s], Latest(Home), Top)
    <3>1. CASE HasSnap(e)
      BY <1>1, <1>4, <1>6, <2>1, <2>2, <3>1, OrderedMore
    <3>2. CASE ~ HasSnap(e)
      BY <1>1, <1>4, <1>6, <2>2, <3>2, OrderedPlain
    <3> QED BY <3>1, <3>2
  <2>5. s # writer[Home] => NoSnaps(outgoing'[s])
    BY <1>4, <2>1, <2>3 DEF NoSnaps
  <2> QED BY <1>4, <2>1, <2>3, <2>4, <2>5
<1> QED BY <1>0, <1>5, <1>6 DEF RowSaid, Posts

LEMMA IncomingOfRow ==
  ASSUME AuthorityInv, AuthorityInv', IncomingInv, NEW x \in Sites, NEW t \in DOMAIN transfers,
         NEW q, NEW r, NEW e, RowChange(x, t, q, r, e)
  PROVE  IncomingInv'
<1>0. SameLine /\ RowMoved(x, t, q, r) /\ RowSaid(x, t, q, r, e)
  BY DEF RowChange
<1>1. /\ Top' = Top /\ Top \in Nat
      /\ \A y \in Sites : Latest(y)' = Latest(y) /\ Latest(y) \in 0..Top
  BY <1>0, SameLineFacts
<1>2. Home \in Sites /\ \A s \in Suitcases : s \in Sites /\ s # Home
  BY HomeIsSite
<1>3. SUFFICES ASSUME NEW s \in Suitcases
               PROVE  /\ Ordered(incoming'[s], Latest(s), Latest(Home))
                      /\ \A i \in DOMAIN incoming'[s] :
                           incoming'[s][i].op \in {"created", "snapshot-ready"} =>
                             AuthorityOf(incoming'[s][i].snap) # s
  <2>1. SUFFICES ASSUME NEW s \in Suitcases
                 PROVE  /\ Ordered(incoming'[s], Latest(s)', Latest(Home)')
                        /\ \A i \in DOMAIN incoming'[s] :
                             incoming'[s][i].op \in {"created", "snapshot-ready"} =>
                               AuthorityOf(incoming[s][i].snap)' # s
    BY DEF IncomingInv
  <2>2. /\ Ordered(incoming'[s], Latest(s), Latest(Home))
        /\ \A i \in DOMAIN incoming'[s] :
             incoming'[s][i].op \in {"created", "snapshot-ready"} =>
               AuthorityOf(incoming'[s][i].snap) # s
    BY <1>3
  <2>3. snapshots' = snapshots
    BY <1>0 DEF SameLine, SameSnapshots
  <2>4. Latest(Home)' = Latest(Home) /\ Latest(s)' = Latest(s)
    BY <1>1, <1>2
  <2>5. \A i \in DOMAIN incoming'[s] :
          AuthorityOf(incoming[s][i].snap)' = AuthorityOf(incoming'[s][i].snap)
    BY <2>3 DEF AuthorityOf
  <2> QED BY <2>2, <2>4, <2>5
<1>4. /\ Ordered(incoming[s], Latest(s), Latest(Home))
      /\ \A i \in DOMAIN incoming[s] :
           incoming[s][i].op \in {"created", "snapshot-ready"} =>
             AuthorityOf(incoming[s][i].snap) # s
  BY DEF IncomingInv
<1>5. CASE incoming'[s] = incoming[s]
  BY <1>4, <1>5
<1>6. CASE x = Home /\ Longer(incoming'[s], incoming[s], e)
  <2>1. e.op = "snapshot-ready" =>
          e.snap = Latest(Home) /\ AuthorityOf(e.snap) = Home /\ Latest(Home) = Top
    BY <1>6, HandsOverNewest, HomeHasTheNewest
  <2>2. Latest(Home) \in Nat /\ Latest(s) \in Nat /\ Latest(s) <= Top
    BY <1>1, <1>2
  <2>3. \A i \in DOMAIN incoming'[s] : incoming'[s][i] = e
          \/ (i \in DOMAIN incoming[s] /\ incoming'[s][i] = incoming[s][i])
    BY <1>6 DEF Longer
  <2>4. HasSnap(e) => e.op = "snapshot-ready"
    BY <1>0 DEF HasSnap, RowSaid
  <2>5. Ordered(incoming'[s], Latest(s), Latest(Home))
    <3>1. CASE HasSnap(e)
      BY <1>4, <1>6, <2>1, <2>2, <2>4, <3>1, OrderedMore
    <3>2. CASE ~ HasSnap(e)
      BY <1>4, <1>6, <2>2, <3>2, OrderedPlain
    <3> QED BY <3>1, <3>2
  <2>6. e.op # "created"
    BY <1>0 DEF RowSaid
  <2> QED BY <1>2, <1>4, <2>1, <2>3, <2>5, <2>6
<1> QED BY <1>0, <1>5, <1>6 DEF RowSaid, Posts

LEMMA HandoverOfRow ==
  ASSUME AuthorityInv, AuthorityInv', OrderInv, HandoverInv, NEW x \in Sites,
         NEW t \in DOMAIN transfers, NEW q, NEW r, NEW e, RowChange(x, t, q, r, e)
  PROVE  HandoverInv'
<1>0. SameLine /\ RowMoved(x, t, q, r) /\ RowSaid(x, t, q, r, e)
  BY DEF RowChange
<1>1. /\ transfers' = transfers
      /\ \A u \in DOMAIN transfers : /\ u \in Transfers /\ u \in Nat /\ Source(u) \in Sites
                                     /\ Source(u)' = Source(u)
  BY <1>0, SameLineFacts
<1>2. \A y \in Sites, u \in DOMAIN transfers : y # x \/ u # t => row'[y][u] = row[y][u]
  BY <1>0, <1>1 DEF RowMoved, OthersStay
<1>3. Home \in Sites /\ \A s \in Sites : s # Home => s \in Suitcases
  BY HomeIsSite DEF Sites
<1>4. SUFFICES ASSUME NEW u \in DOMAIN transfers, row'[Home][u].state \in Active,
                      NEW s \in Suitcases, s = Source(u), s # Home
               PROVE  /\ row'[Home][u].snap # 0 => NoSnaps(outgoing'[s])
                      /\ \A i, j \in DOMAIN outgoing'[s] :
                           i < j /\ Offers(outgoing'[s][i], u) => ~ HasSnap(outgoing'[s][j])
  <2>1. SUFFICES ASSUME NEW u \in DOMAIN transfers, row'[Home][u].state \in Active,
                        Source(u) # Home
                 PROVE  /\ row'[Home][u].snap # 0 => NoSnaps(outgoing'[Source(u)])
                        /\ \A i, j \in DOMAIN outgoing'[Source(u)] :
                             i < j /\ Offers(outgoing'[Source(u)][i], u)
                               => ~ HasSnap(outgoing'[Source(u)][j])
    BY <1>1 DEF HandoverInv
  <2>2. Source(u) \in Suitcases
    BY <1>1, <1>3, <2>1
  <2> QED BY <1>4, <2>1, <2>2
<1>5. row[Home][u].state \in Active /\ (row'[Home][u].snap # 0 => row[Home][u].snap # 0)
  <2>1. CASE x = Home /\ u = t
    BY <1>0, <1>4, <2>1 DEF RowMoved, RowSaid
  <2>2. CASE x # Home \/ u # t
    BY <1>2, <1>3, <1>4, <2>2
  <2> QED BY <2>1, <2>2
<1>6. /\ row[Home][u].snap # 0 => NoSnaps(outgoing[s])
      /\ \A i, j \in DOMAIN outgoing[s] :
           i < j /\ Offers(outgoing[s][i], u) => ~ HasSnap(outgoing[s][j])
  BY <1>4, <1>5 DEF HandoverInv
<1>7. CASE outgoing'[s] = outgoing[s]
  BY <1>5, <1>6, <1>7
<1>8. CASE s = x /\ Longer(outgoing'[s], outgoing[s], e)
  <2>1. HasSnap(e) => /\ row[Home][u].snap = 0
                      /\ \A i \in DOMAIN outgoing[s] : ~ Offers(outgoing[s][i], u)
    <3>1. SUFFICES ASSUME HasSnap(e),
                          \/ row[Home][u].snap # 0
                          \/ \E i \in DOMAIN outgoing[s] : Offers(outgoing[s][i], u)
                   PROVE  FALSE
      OBVIOUS
    <3>2. Told(s, "snapshot-ready", u) \/ row[Home][u].snap # 0
      BY <3>1 DEF Told, Outs, Offers
    <3>3. row[Home][u].state \notin Broken
      BY <1>5 DEF Active, Broken
    <3>4. row[s][u].state \in Over \cup {"committed"}
      BY <1>4, <3>2, <3>3 DEF AuthorityInv, HandoffInv, HandoffAt
    <3>5. row[s][t].state = "source-capturing"
      BY <1>0, <1>8, <3>1 DEF RowMoved, RowSaid, HasSnap
    <3>6. t # u
      BY <3>4, <3>5 DEF Over
    <3>7. t < u
      <4>1. u = Len(transfers)
        BY <1>5 DEF AuthorityInv, TransfersInv
      <4>2. t <= Len(transfers)
        BY TypeFacts DEF AuthorityInv
      <4> QED BY <1>1, <3>6, <4>1, <4>2
    <3>8. ~ Closed(row[s][t])
      BY <3>5 DEF Closed, Broken
    <3>9. row[s][u].state = "none"
      BY <3>7, <3>8 DEF OrderInv
    <3> QED BY <3>4, <3>9 DEF Over
  <2>2. \A i \in DOMAIN outgoing'[s] :
          /\ i \in Nat /\ i <= Len(outgoing[s]) + 1 /\ Len(outgoing[s]) \in Nat
          /\ \/ i = Len(outgoing[s]) + 1 /\ outgoing'[s][i] = e
             \/ i \in DOMAIN outgoing[s] /\ outgoing'[s][i] = outgoing[s][i]
    BY <1>8 DEF Longer
  <2>3. row'[Home][u].snap # 0 => NoSnaps(outgoing'[s])
    BY <1>5, <1>6, <2>1, <2>2 DEF NoSnaps
  <2>4. ASSUME NEW i \in DOMAIN outgoing'[s], NEW j \in DOMAIN outgoing'[s], i < j,
               Offers(outgoing'[s][i], u), HasSnap(outgoing'[s][j])
        PROVE  FALSE
    <3>1. i \in DOMAIN outgoing[s] /\ outgoing'[s][i] = outgoing[s][i]
      BY <2>2, <2>4
    <3>2. CASE outgoing'[s][j] = e
      BY <2>1, <2>4, <3>1, <3>2
    <3>3. CASE j \in DOMAIN outgoing[s] /\ outgoing'[s][j] = outgoing[s][j]
      BY <1>6, <2>4, <3>1, <3>3
    <3> QED BY <2>2, <3>2, <3>3
  <2> QED BY <2>3, <2>4
<1> QED BY <1>0, <1>7, <1>8 DEF RowSaid, Posts

LEMMA RecordedOfRow ==
  ASSUME AuthorityInv, AuthorityInv', RecordedInv, NEW x \in Sites, NEW t \in DOMAIN transfers,
         NEW q, NEW r, NEW e, RowChange(x, t, q, r, e)
  PROVE  RecordedInv'
<1>0. SameLine /\ RowMoved(x, t, q, r) /\ JobsGo
  BY DEF RowChange
<1>1. Top' = Top /\ \A u \in DOMAIN transfers : u \in Transfers
  BY <1>0, SameLineFacts
<1>2. SUFFICES ASSUME NEW w \in Workers, WorkerSite[w] # Home, job'[w].at = "recorded",
                      row'[WorkerSite[w]][job'[w].t].state = "source-capturing"
               PROVE  job'[w].snap = Top
  BY <1>1 DEF RecordedInv
<1>3. job'[w] = job[w]
  BY <1>0, <1>2, NoJobIsJob DEF JobsGo
<1>4. /\ JobSound(WorkerSite[w], job[w]) /\ WorkerSite[w] \in Sites
      /\ JobHasRow(job[w], row[WorkerSite[w]][job[w].t].state)
  BY <1>2, JobFacts
<1>5. /\ job[w].at = "recorded" /\ job[w].t \in DOMAIN transfers
      /\ row[WorkerSite[w]][job[w].t].state \in {"source-capturing"} \cup Broken
  BY <1>2, <1>3, <1>4 DEF JobSound, JobHasRow
<1>6. row[WorkerSite[w]][job[w].t].state = "source-capturing"
  <2>1. CASE WorkerSite[w] = x /\ job[w].t = t
    BY <1>0, <1>2, <1>3, <1>5, <2>1 DEF RowMoved, Broken
  <2>2. CASE WorkerSite[w] # x \/ job[w].t # t
    BY <1>0, <1>1, <1>2, <1>3, <1>4, <1>5, <2>2 DEF RowMoved, OthersStay
  <2> QED BY <2>1, <2>2
<1> QED BY <1>2, <1>3, <1>5, <1>6 DEF RecordedInv

LEMMA ReadyOfRow ==
  ASSUME AuthorityInv, AuthorityInv', OfferInv, ReadyInv, NEW x \in Sites,
         NEW t \in DOMAIN transfers, NEW q, NEW r, NEW e, RowChange(x, t, q, r, e)
  PROVE  ReadyInv'
<1>0. SameLine /\ RowMoved(x, t, q, r) /\ RowSaid(x, t, q, r, e)
  BY DEF RowChange
<1>1. /\ transfers' = transfers
      /\ \A u \in DOMAIN transfers : u \in Transfers /\ u \in Nat
  BY <1>0, SameLineFacts
<1>2. \A y \in Sites, u \in DOMAIN transfers : y # x \/ u # t => row'[y][u] = row[y][u]
  BY <1>0, <1>1 DEF RowMoved, OthersStay
<1>3. Home \in Sites /\ TypesInv /\ \A s \in Suitcases : s \in Sites /\ s # Home
  BY HomeIsSite DEF AuthorityInv
<1>4. SUFFICES ASSUME NEW s \in Suitcases, NEW i \in DOMAIN outgoing'[s], NEW f,
                      f = outgoing'[s][i], f.op = "target-ready"
               PROVE  /\ row'[Home][f.t].snap # 0 /\ row'[Home][f.t].state \notin Restored
                      /\ row'[s][f.t].state \in Restored \cup Broken
                      /\ \A j \in DOMAIN outgoing'[s] :
                           outgoing'[s][j].op = "target-ready" /\ outgoing'[s][j].t = f.t => i = j
  BY DEF ReadyInv
<1>5. \A j \in DOMAIN outgoing[s] : outgoing[s][j].op = "target-ready" =>
        /\ outgoing[s][j].t \in DOMAIN transfers /\ s = Target(outgoing[s][j].t)
        /\ row[Home][outgoing[s][j].t].snap # 0
        /\ row[Home][outgoing[s][j].t].state \notin Restored
        /\ row[s][outgoing[s][j].t].state \in Restored \cup Broken
        /\ \A k \in DOMAIN outgoing[s] :
             outgoing[s][k].op = "target-ready" /\ outgoing[s][k].t = outgoing[s][j].t => j = k
  <2>1. SUFFICES ASSUME NEW j \in DOMAIN outgoing[s], outgoing[s][j].op = "target-ready"
                 PROVE  outgoing[s][j].t \in DOMAIN transfers /\ s = Target(outgoing[s][j].t)
    BY DEF ReadyInv
  <2>2. OutSound(s, outgoing[s][j])
    BY <1>3, StreamTypes DEF AuthorityInv, EventsInv
  <2> QED BY <2>1, <2>2 DEF OutSound, EventSound
<1>6. \A u \in DOMAIN transfers : s = Target(u) =>
        /\ row[Home][u].snap # 0 => row'[Home][u].snap # 0
        /\ row[Home][u].state \notin Restored => row'[Home][u].state \notin Restored
        /\ row[s][u].state \in Restored \cup Broken => row'[s][u].state \in Restored \cup Broken
  <2>1. SUFFICES ASSUME NEW u \in DOMAIN transfers, s = Target(u)
                 PROVE  /\ row[Home][u].snap # 0 => row'[Home][u].snap # 0
                        /\ row[Home][u].state \notin Restored => row'[Home][u].state \notin Restored
                        /\ row[s][u].state \in Restored \cup Broken
                             => row'[s][u].state \in Restored \cup Broken
    OBVIOUS
  <2>2. CASE u = t
    BY <1>0, <1>2, <1>3, <2>1, <2>2 DEF RowMoved, RowSaid
  <2>3. CASE u # t
    BY <1>2, <1>3, <2>3
  <2> QED BY <2>2, <2>3
<1>7. CASE outgoing'[s] = outgoing[s]
  BY <1>4, <1>5, <1>6, <1>7
<1>8. CASE s = x /\ Longer(outgoing'[s], outgoing[s], e)
  <2>1. \A j \in DOMAIN outgoing'[s] :
          \/ j = Len(outgoing[s]) + 1 /\ outgoing'[s][j] = e
          \/ j \in DOMAIN outgoing[s] /\ outgoing'[s][j] = outgoing[s][j]
    BY <1>8 DEF Longer
  <2>2. e.op = "target-ready" =>
          /\ e.t = t /\ s = Target(t) /\ row[s][t].state = "target-restoring"
          /\ row'[s][t].state = "target-ready"
    BY <1>0, <1>8 DEF RowMoved, RowSaid
  <2>3. \A j \in DOMAIN outgoing[s] :
          ~ (e.op = "target-ready" /\ outgoing[s][j].op = "target-ready" /\ outgoing[s][j].t = t)
    BY <1>5, <2>2 DEF Restored, Broken
  <2>4. CASE i \in DOMAIN outgoing[s] /\ f = outgoing[s][i]
    BY <1>4, <1>5, <1>6, <2>1, <2>2, <2>3, <2>4
  <2>5. CASE i = Len(outgoing[s]) + 1 /\ f = e
    <3>1. /\ f.t = t /\ s = Target(t) /\ row[s][t].state = "target-restoring"
          /\ row'[s][t].state = "target-ready"
      BY <1>4, <2>2, <2>5
    <3>2. \A j \in DOMAIN outgoing'[s] :
            outgoing'[s][j].op = "target-ready" /\ outgoing'[s][j].t = f.t => i = j
      BY <1>4, <2>1, <2>3, <2>5, <3>1
    <3>3. row[Home][t].snap # 0
      <4>1. RowSound(s, t, row[s][t])
        BY <1>1, <1>3 DEF AuthorityInv, RowsInv
      <4>2. row[s][t].snap # 0
        BY <3>1, <4>1 DEF RowSound, Over
      <4>3. s # Source(t)
        BY <3>1, TwoEnds
      <4> QED BY <4>2, <4>3 DEF OfferInv
    <3>4. row[Home][t].state \notin Restored
      <4>1. SUFFICES ASSUME row[Home][t].state \in Restored PROVE FALSE
        OBVIOUS
      <4>2. row[Home][t].state \notin Broken
        BY <4>1 DEF Restored, Broken
      <4>3. row[s][t].state \in Restored
        BY <1>3, <3>1, <4>1, <4>2 DEF AuthorityInv, HandoffInv, HandoffAt
      <4> QED BY <3>1, <4>3 DEF Restored
    <3> QED BY <1>6, <3>1, <3>2, <3>3, <3>4 DEF Restored
  <2> QED BY <1>4, <2>1, <2>4, <2>5
<1> QED BY <1>0, <1>7, <1>8 DEF RowSaid, Posts

LEMMA ComingLonger ==
  ASSUME NEW p, NEW q, NEW e, Longer(p, q, e), NEW t
  PROVE  /\ Coming(q, t) => Coming(p, t)
         /\ Offers(e, t) /\ (\A k \in DOMAIN q : q[k].t = t => q[k].op \notin Broken \cup Restored)
              => Coming(p, t)
<1>1. \A i \in DOMAIN q : i \in DOMAIN p /\ p[i] = q[i] /\ i \in Nat /\ i <= Len(q)
  BY DEF Longer
<1>2. /\ Len(q) \in Nat /\ Len(q) + 1 \in DOMAIN p /\ p[Len(q) + 1] = e
      /\ \A i \in DOMAIN p : i \in Nat /\ (i <= Len(q) => i \in DOMAIN q /\ p[i] = q[i])
  BY DEF Longer
<1>3. ASSUME Coming(q, t)
      PROVE  Coming(p, t)
  <2>1. PICK j \in DOMAIN q :
          /\ Offers(q[j], t)
          /\ \A k \in DOMAIN q : k < j /\ q[k].t = t => q[k].op \notin Broken \cup Restored
    BY <1>3 DEF Coming
  <2>2. \A k \in DOMAIN p : k < j /\ p[k].t = t => p[k].op \notin Broken \cup Restored
    BY <1>1, <1>2, <2>1
  <2> QED BY <1>1, <2>1, <2>2 DEF Coming
<1>4. ASSUME Offers(e, t),
             \A k \in DOMAIN q : q[k].t = t => q[k].op \notin Broken \cup Restored
      PROVE  Coming(p, t)
  <2>1. \A k \in DOMAIN p : k < Len(q) + 1 /\ p[k].t = t => p[k].op \notin Broken \cup Restored
    BY <1>2, <1>4
  <2> QED BY <1>2, <1>4, <2>1 DEF Coming
<1> QED BY <1>3, <1>4

(* The parts of OfferInv, of one suitcase and one handoff.                 *)
OfferOf(s, t, q, S, H) ==
  /\ H.snap # 0 => S.snap # 0 \/ (S.state \notin Broken /\ Coming(q, t))
  /\ S.snap # 0 /\ s # Source(t) => H.snap # 0
  /\ \A i \in DOMAIN q : q[i].t = t /\ q[i].op \in Restored =>
       /\ H.snap # 0 /\ S.state # "committed"
       /\ \A j \in DOMAIN q : j < i /\ q[j].t = t => q[j].op # "committed"
  /\ \A i \in DOMAIN q : H.snap = 0 /\ Offers(q[i], t) =>
       S.state \in Broken \/ \E j \in DOMAIN q : j < i /\ Breaks(q[j], t)

GivesOwn(s, t) ==
  s = Source(t) => (row[Home][t].snap # 0 \/ Told(s, "snapshot-ready", t) => row[s][t].snap # 0)

LEMMA OfferParts ==
  OfferInv <=> \A s \in Suitcases, t \in DOMAIN transfers :
                 OfferOf(s, t, incoming[s], row[s][t], row[Home][t]) /\ GivesOwn(s, t)
BY DEF OfferInv, OfferOf, GivesOwn, Offered

LEMMA OfferPartsAfter ==
  ASSUME transfers' = transfers,
         \A s \in Suitcases, t \in DOMAIN transfers :
           OfferOf(s, t, incoming'[s], row'[s][t], row'[Home][t]) /\ GivesOwn(s, t)'
  PROVE  OfferInv'
<1>1. \A s \in Suitcases, t \in DOMAIN transfers : Source(t)' = Source(t)
  BY DEF Source
<1> QED BY <1>1 DEF OfferInv, OfferOf, GivesOwn, Offered

(* A row that moves, and an event that is added to the stream.             *)
LEMMA OfferKept ==
  ASSUME NEW s, NEW t, NEW q, NEW S, NEW H, OfferOf(s, t, q, S, H), NEW R, NEW G,
         R.snap = S.snap \/ (R.snap # 0 /\ (s # Source(t) => G.snap # 0)),
         R.state = "committed" => S.state = "committed", S.state \in Broken => R.state \in Broken,
         G.snap = H.snap \/ (G.snap # 0 /\ (R.snap # 0 \/ (R.state \notin Broken /\ Coming(q, t)))),
         H.snap # 0 => G.snap # 0, S.snap # 0 => R.snap # 0,
         H.snap # 0 /\ R.state \in Broken => S.state \in Broken \/ R.snap # 0
  PROVE  OfferOf(s, t, q, R, G)
BY DEF OfferOf

LEMMA OfferLonger ==
  ASSUME NEW s, NEW t, NEW q, NEW p, NEW e, NEW S, NEW H, OfferOf(s, t, q, S, H),
         Longer(p, q, e), e.t = t => e.op # "snapshot-ready" \/ H.snap # 0 \/ S.state \in Broken
                                     \/ \E j \in DOMAIN q : Breaks(q[j], t),
         e.t = t /\ e.op \in Restored =>
           /\ H.snap # 0 /\ S.state # "committed"
           /\ \A j \in DOMAIN q : q[j].t = t => q[j].op # "committed"
  PROVE  OfferOf(s, t, p, S, H)
<1>1. \A i \in DOMAIN q : i \in DOMAIN p /\ p[i] = q[i] /\ i \in Nat /\ i < Len(q) + 1
  BY DEF Longer
<1>2. \A i \in DOMAIN p : /\ i \in Nat /\ Len(q) \in Nat
                          /\ \/ i = Len(q) + 1 /\ p[i] = e
                             \/ i \in DOMAIN q /\ p[i] = q[i] /\ i < Len(q) + 1
  BY DEF Longer
<1>3. Coming(q, t) => Coming(p, t)
  BY ComingLonger
<1>4. ASSUME NEW i \in DOMAIN p, p[i].t = t, p[i].op \in Restored
      PROVE  /\ H.snap # 0 /\ S.state # "committed"
             /\ \A j \in DOMAIN p : j < i /\ p[j].t = t => p[j].op # "committed"
  <2>1. CASE i \in DOMAIN q /\ p[i] = q[i] /\ i < Len(q) + 1
    <3>1. \A j \in DOMAIN p : j < i => j \in DOMAIN q /\ p[j] = q[j]
      BY <1>2, <2>1
    <3> QED BY <1>4, <2>1, <3>1 DEF OfferOf
  <2>2. CASE i = Len(q) + 1 /\ p[i] = e
    <3>1. \A j \in DOMAIN p : j < i => j \in DOMAIN q /\ p[j] = q[j]
      BY <1>2, <2>2
    <3> QED BY <1>4, <2>2, <3>1
  <2> QED BY <1>2, <2>1, <2>2
<1>5. ASSUME NEW i \in DOMAIN p, H.snap = 0, Offers(p[i], t)
      PROVE  S.state \in Broken \/ \E j \in DOMAIN p : j < i /\ Breaks(p[j], t)
  <2>1. CASE i \in DOMAIN q /\ p[i] = q[i]
    BY <1>1, <1>5, <2>1 DEF OfferOf
  <2>2. CASE i = Len(q) + 1 /\ p[i] = e
    <3>1. S.state \in Broken \/ \E j \in DOMAIN q : Breaks(q[j], t)
      BY <1>5, <2>2 DEF Offers
    <3> QED BY <1>1, <2>2, <3>1
  <2> QED BY <1>2, <2>1, <2>2
<1> QED BY <1>3, <1>4, <1>5 DEF OfferOf

LEMMA OfferOfRow ==
  ASSUME AuthorityInv, AuthorityInv', EndsInv, OfferInv, NEW x \in Sites,
         NEW t \in DOMAIN transfers, NEW q, NEW r, NEW e, RowChange(x, t, q, r, e)
  PROVE  OfferInv'
<1>0. SameLine /\ RowMoved(x, t, q, r) /\ RowSaid(x, t, q, r, e)
  BY DEF RowChange
<1>1. /\ transfers' = transfers
      /\ \A u \in DOMAIN transfers : u \in Transfers /\ Source(u)' = Source(u)
  BY <1>0, SameLineFacts
<1>2. \A y \in Sites, u \in DOMAIN transfers : y # x \/ u # t => row'[y][u] = row[y][u]
  BY <1>0, <1>1 DEF RowMoved, OthersStay
<1>3. Home \in Sites /\ TypesInv /\ \A s \in Suitcases : s \in Sites /\ s # Home
  BY HomeIsSite DEF AuthorityInv
<1>4. SUFFICES ASSUME NEW s \in Suitcases, NEW u \in DOMAIN transfers
               PROVE  OfferOf(s, u, incoming'[s], row'[s][u], row'[Home][u]) /\ GivesOwn(s, u)'
  BY <1>1, OfferPartsAfter
<1>5. OfferOf(s, u, incoming[s], row[s][u], row[Home][u]) /\ GivesOwn(s, u)
  BY OfferParts
<1>6. /\ row[s][u].snap # 0 => row'[s][u].snap # 0
      /\ row[Home][u].snap # 0 => row'[Home][u].snap # 0
      /\ row[s][u].state \in Broken => row'[s][u].state \in Broken
      /\ row'[s][u].state = "committed" => row[s][u].state = "committed"
      /\ row'[s][u].snap = row[s][u].snap \/ (s = x /\ u = t /\ e.op = "snapshot-ready")
      /\ row'[Home][u].snap = row[Home][u].snap \/ (x = Home /\ u = t /\ e.op = "snapshot-ready")
  <2>1. CASE u = t
    BY <1>0, <1>2, <1>3, <2>1 DEF RowMoved, RowSaid
  <2>2. CASE u # t
    BY <1>2, <1>3, <2>2
  <2> QED BY <2>1, <2>2
<1>7. GivesOwn(s, u)'
  <2>1. SUFFICES ASSUME s = Source(u), row'[Home][u].snap # 0 \/ Told(s, "snapshot-ready", u)'
                 PROVE  row'[s][u].snap # 0
    BY <1>1 DEF GivesOwn
  <2>2. CASE row'[Home][u].snap # 0
    <3>1. row[Home][u].snap # 0
      BY <1>0, <1>3, <1>6, <2>1, <2>2 DEF RowSaid
    <3> QED BY <1>5, <1>6, <2>1, <3>1 DEF GivesOwn
  <2>3. CASE Told(s, "snapshot-ready", u)'
    <3>1. PICK i \in DOMAIN outgoing'[s] :
            outgoing'[s][i].op = "snapshot-ready" /\ outgoing'[s][i].t = u
      BY <2>3 DEF Told, Outs
    <3>2. CASE i \in DOMAIN outgoing[s] /\ outgoing'[s][i] = outgoing[s][i]
      <4>1. Told(s, "snapshot-ready", u)
        BY <3>1, <3>2 DEF Told, Outs
      <4> QED BY <1>5, <1>6, <2>1, <4>1 DEF GivesOwn
    <3>3. CASE s = x /\ outgoing'[s][i] = e
      BY <1>0, <3>1, <3>3 DEF RowMoved, RowSaid
    <3> QED BY <1>0, <3>2, <3>3 DEF RowSaid, Posts, Longer
  <2> QED BY <2>1, <2>2, <2>3
<1>8. row[Home][u].snap # 0 /\ row'[s][u].state \in Broken
        => row[s][u].state \in Broken \/ row'[s][u].snap # 0
  <2>1. SUFFICES ASSUME row[Home][u].snap # 0, row'[s][u].state \in Broken,
                        row[s][u].state \notin Broken, row'[s][u].snap = 0
                 PROVE  FALSE
    OBVIOUS
  <2>2. s = x /\ u = t
    BY <1>2, <1>3, <2>1
  <2>3. s = Source(u)
    BY <1>0, <1>3, <2>1, <2>2 DEF RowMoved
  <2> QED BY <1>5, <1>6, <2>1, <2>3 DEF GivesOwn
<1>9. ASSUME row'[Home][u].snap # row[Home][u].snap, row[Home][u].snap = 0
      PROVE  OfferOf(s, u, incoming'[s], row'[s][u], row'[Home][u])
  <2>1. /\ x = Home /\ u = t /\ e.op = "snapshot-ready" /\ e.t = u
        /\ Source(u) = Home /\ Longer(incoming'[s], incoming[s], e)
        /\ row[Home][u].state = "source-capturing" /\ row'[Home][u].snap # 0
    BY <1>0, <1>6, <1>9 DEF RowMoved, RowSaid, Spreads
  <2>2. row'[s][u] = row[s][u]
    BY <1>2, <1>3, <2>1
  <2>3. \A k \in DOMAIN incoming[s] :
          incoming[s][k].t = u => incoming[s][k].op \notin Broken \cup Restored
    <3>1. SUFFICES ASSUME NEW k \in DOMAIN incoming[s], incoming[s][k].t = u
                   PROVE  incoming[s][k].op \notin Broken \cup Restored
      OBVIOUS
    <3>2. InSound(s, incoming[s][k])
      BY <1>3, StreamTypes DEF AuthorityInv, EventsInv
    <3>3. incoming[s][k].op \notin Broken
      BY <2>1, <3>1, <3>2 DEF InSound, Broken
    <3> QED BY <1>5, <1>9, <3>1, <3>3 DEF OfferOf
  <2>4. Coming(incoming'[s], u)
    BY <2>1, <2>3, ComingLonger DEF Offers
  <2>5. row[s][u].snap = 0 /\ row[s][u].state \notin Broken
    <3>1. row[s][u].snap = 0
      BY <1>3, <1>5, <1>9, <2>1 DEF OfferOf
    <3> QED BY <1>3, <2>1, <3>1 DEF EndsInv, Broken
  <2>6. \A i \in DOMAIN incoming'[s] :
          ~ (incoming'[s][i].t = u /\ incoming'[s][i].op \in Restored)
    BY <2>1, <2>3 DEF Longer, Restored
  <2> QED BY <2>1, <2>2, <2>4, <2>5, <2>6 DEF OfferOf
<1>10. ASSUME row'[Home][u].snap = row[Home][u].snap \/ row[Home][u].snap # 0
       PROVE  OfferOf(s, u, incoming'[s], row'[s][u], row'[Home][u])
  <2>1. row'[s][u].snap = row[s][u].snap
          \/ (row'[s][u].snap # 0 /\ (s # Source(u) => row'[Home][u].snap # 0))
    BY <1>0, <1>6 DEF RowMoved, RowSaid
  <2>2. OfferOf(s, u, incoming[s], row'[s][u], row'[Home][u])
    <3>1. row'[Home][u].snap = row[Home][u].snap
            \/ (/\ row'[Home][u].snap # 0
                /\ row'[s][u].snap # 0
                     \/ (row'[s][u].state \notin Broken /\ Coming(incoming[s], u)))
      BY <1>5, <1>6, <1>8, <1>10 DEF OfferOf
    <3> QED BY <1>5, <1>6, <1>8, <2>1, <3>1, OfferKept
  <2>3. CASE incoming'[s] = incoming[s]
    BY <2>2, <2>3
  <2>4. CASE x = Home /\ Longer(incoming'[s], incoming[s], e)
    <3>1. e.t = u => e.op # "snapshot-ready" \/ row'[Home][u].snap # 0
      BY <1>0, <2>4 DEF RowMoved, RowSaid
    <3>2. ASSUME e.t = u, e.op \in Restored
          PROVE  /\ row'[Home][u].snap # 0 /\ row'[s][u].state # "committed"
                 /\ \A j \in DOMAIN incoming[s] :
                      incoming[s][j].t = u => incoming[s][j].op # "committed"
      <4>1. u = t /\ row[Home][u].state = "target-restoring"
        BY <1>0, <2>4, <3>2 DEF RowMoved, RowSaid, Restored
      <4>2. RowSound(Home, u, row[Home][u])
        BY <1>1, <1>3 DEF AuthorityInv, RowsInv
      <4>3. row[Home][u].snap # 0
        BY <4>1, <4>2 DEF RowSound, Over
      <4>4. row[s][u].state # "committed"
        BY <4>1 DEF EndsInv
      <4>5. \A j \in DOMAIN incoming[s] :
              incoming[s][j].t = u => incoming[s][j].op # "committed"
        <5>1. SUFFICES ASSUME NEW j \in DOMAIN incoming[s], incoming[s][j].t = u,
                              incoming[s][j].op = "committed"
                       PROVE  FALSE
          OBVIOUS
        <5>2. InSound(s, incoming[s][j])
          BY <1>3, StreamTypes DEF AuthorityInv, EventsInv
        <5> QED BY <4>1, <5>1, <5>2 DEF InSound, EventSound
      <4> QED BY <1>6, <4>3, <4>4, <4>5
    <3> QED BY <2>2, <2>4, <3>1, <3>2, OfferLonger
  <2> QED BY <1>0, <2>3, <2>4 DEF RowSaid, Posts
<1> QED BY <1>7, <1>9, <1>10

LEMMA BehindAsBefore ==
  ASSUME BehindInv, writer' = writer, \A y \in Sites : Latest(y)' = Latest(y)
  PROVE  BehindInv'
<1>1. Home \in Sites /\ \A s \in Suitcases : s \in Sites
  BY HomeIsSite
<1>2. Latest(Home)' = Latest(Home) /\ \A s \in Suitcases : Latest(s)' = Latest(s)
  BY <1>1
<1> QED BY <1>2 DEF BehindInv

LEMMA RowKeepsCalm ==
  ASSUME AuthorityInv, AuthorityInv', CalmInv, NEW x \in Sites, NEW t \in DOMAIN transfers,
         NEW q, NEW r, NEW e, RowChange(x, t, q, r, e), Owed(x, t)' = {}
  PROVE  CalmInv'
<1>1. transfers' = transfers /\ OthersStay(x, t)
  BY DEF RowChange, RowMoved, SameLine
<1>2. SentInv'
  BY <1>1, SentOfRow DEF CalmInv
<1>3. EndsInv' /\ OrderInv' /\ OutgoingInv' /\ IncomingInv'
  BY EndsOfRow, OrderOfRow, OutgoingOfRow, IncomingOfRow DEF CalmInv
<1>4. HandoverInv' /\ OfferInv' /\ ReadyInv' /\ RecordedInv'
  BY HandoverOfRow, OfferOfRow, ReadyOfRow, RecordedOfRow DEF CalmInv
<1>5. BehindInv'
  <2>1. writer' = writer /\ \A y \in Sites : Latest(y)' = Latest(y)
    BY SameLineFacts DEF RowChange
  <2> QED BY <2>1, BehindAsBefore DEF CalmInv
<1> QED BY <1>2, <1>3, <1>4, <1>5 DEF CalmInv

-----------------------------------------------------------------------------
(* The steps that move one row, none of them torn.                         *)
LEMMA EmitSays ==
  ASSUME TypesInv, NEW x \in Sites, NEW e \in Events, Emit(x, <<e>>)
  PROVE  /\ Posts(x, e)
         /\ x = Home => Spreads(e)
         /\ x # Home => Longer(outgoing'[x], outgoing[x], e)
<1>1. \A s \in Suitcases : outgoing[s] \in Seq(Events) /\ incoming[s] \in Seq(Events)
  BY StreamTypes
<1>2. CASE x = Home
  <2>1. \A s \in Suitcases : outgoing'[s] = outgoing[s] /\ incoming'[s] = incoming[s] \o <<e>>
    BY <1>2 DEF Emit
  <2>2. \A s \in Suitcases : Longer(incoming'[s], incoming[s], e)
    BY <1>1, <2>1, JoinedIsLonger
  <2> QED BY <1>2, <2>1, <2>2 DEF Posts, Spreads
<1>3. CASE x # Home
  <2>1. /\ outgoing' = [outgoing EXCEPT ![x] = outgoing[x] \o <<e>>] /\ incoming' = incoming
        /\ outgoing \in [Suitcases -> Seq(Events)]
    BY <1>3 DEF Emit, TypesInv
  <2>2. \A s \in Suitcases :
          /\ incoming'[s] = incoming[s]
          /\ outgoing'[s] = outgoing[s] \/ (s = x /\ outgoing'[s] = outgoing[s] \o <<e>>)
    BY <2>1
  <2>3. \A s \in Suitcases :
          outgoing'[s] = outgoing[s] \/ (s = x /\ Longer(outgoing'[s], outgoing[s], e))
    BY <1>1, <2>2, JoinedIsLonger
  <2>4. Longer(outgoing'[x], outgoing[x], e)
    <3>1. x \in Suitcases
      BY <1>3 DEF Sites
    <3>2. outgoing'[x] = outgoing[x] \o <<e>>
      BY <2>1, <3>1
    <3> QED BY <1>1, <3>1, <3>2, JoinedIsLonger
  <2> QED BY <1>3, <2>2, <2>3, <2>4 DEF Posts
<1> QED BY <1>2, <1>3

LEMMA SilentPosts ==
  ASSUME NEW x, NEW e, UNCHANGED wireVars
  PROVE  Posts(x, e)
BY DEF Posts, wireVars

LEMMA EmptySays ==
  ASSUME TypesInv, NEW x \in Sites, NEW e, Emit(x, << >>)
  PROVE  Posts(x, e)
<1>1. \A s \in Suitcases : outgoing[s] \in Seq(Events) /\ incoming[s] \in Seq(Events)
  BY StreamTypes
<1>2. \A s \in Suitcases : outgoing[s] \o << >> = outgoing[s] /\ incoming[s] \o << >> = incoming[s]
  BY <1>1
<1>3. CASE x = Home
  BY <1>2, <1>3 DEF Emit, Posts
<1>4. CASE x # Home
  <2>1. /\ outgoing' = [outgoing EXCEPT ![x] = outgoing[x] \o << >>] /\ incoming' = incoming
        /\ outgoing \in [Suitcases -> Seq(Events)]
    BY <1>4 DEF Emit, TypesInv
  <2>2. \A s \in Suitcases : incoming'[s] = incoming[s] /\ outgoing'[s] = outgoing[s]
    BY <1>2, <2>1
  <2> QED BY <2>2 DEF Posts
<1> QED BY <1>3, <1>4

LEMMA CalmTells ==
  ASSUME NEW x, NEW E, NEW how, Tells(x, E, how), ~ torn'
  PROVE  how = "done" /\ Emit(x, E) /\ ~ torn
BY DEF Tells

LEMMA NothingOwed ==
  ASSUME NEW x, NEW t,
         \/ row'[x][t].state \in row'[x][t].sent
         \/ row'[x][t].state \notin {"snapshot-ready", "target-ready", "committed"}
  PROVE  Owed(x, t)' = {}
BY DEF Owed

LEMMA OwedAsBefore ==
  ASSUME NEW x \in Sites, NEW t \in DOMAIN transfers, SentInv, transfers' = transfers,
         row'[x][t].state = row[x][t].state, row'[x][t].sent = row[x][t].sent
  PROVE  Owed(x, t)' = {}
<1>1. Owed(x, t) = {}
  BY DEF SentInv
<1> QED BY <1>1 DEF Owed

LEMMA AbortKeepsCalm ==
  ASSUME AuthorityInv, AuthorityInv', CalmInv, ~ torn', NEW t \in DOMAIN transfers, NEW how,
         AbortTransfer(t, how)
  PROVE  CalmInv'
<1>1. PICK q, r : q = row[Home][t] /\ r = [q EXCEPT !.state = "aborted", !.resumed = FALSE]
  OBVIOUS
<1>2. /\ TypesInv /\ Home \in Sites /\ t \in Transfers /\ t \in Nat /\ q \in TransferRow
  BY <1>1, HomeIsSite, HandoffsAreTransfers, RowFacts DEF AuthorityInv
<1>3. row' = [row EXCEPT ![Home][t] = r]
  BY <1>1, <1>2 DEF AbortTransfer, TypesInv, TransferRow
<1>4. r.state = "aborted" /\ r.snap = q.snap
  BY <1>1, <1>2 DEF TransferRow
<1>5. OthersStay(Home, t) /\ row'[Home][t] = r
  BY <1>2, <1>3, RowSet
<1>6. PICK e \in Events : e = Event("aborted", t, 0) /\ e.op = "aborted" /\ e.t = t
  BY <1>2, EventIn DEF Ops
<1>7. Posts(Home, e) /\ Spreads(e)
  <2>1. Emit(Home, <<e>>)
    BY <1>6, CalmTells DEF AbortTransfer
  <2> QED BY <1>2, <2>1, EmitSays
<1>8. RowMoved(Home, t, q, r)
  BY <1>1, <1>4, <1>5 DEF RowMoved, AbortTransfer, Active, Broken, Restored
<1>9. RowSaid(Home, t, q, r, e)
  BY <1>4, <1>6, <1>7 DEF RowSaid, Broken
<1>10. JobsGo /\ SameLine
  <2>1. JobsGo
    BY <1>2, IdleEnds, JobsEndGo DEF AbortTransfer, JobsGo
  <2> QED BY <2>1 DEF AbortTransfer, SameLine, SameSnapshots
<1>11. Owed(Home, t)' = {}
  BY <1>4, <1>5, NothingOwed
<1> QED BY <1>2, <1>8, <1>9, <1>10, <1>11, RowKeepsCalm DEF RowChange

LEMMA TakeUpKeepsCalm ==
  ASSUME AuthorityInv, AuthorityInv', CalmInv, ~ torn', OnePass, NEW w \in Workers,
         NEW t \in DOMAIN transfers, NEW how, TakeUp(w, t, how)
  PROVE  CalmInv'
<1>1. PICK x \in Sites, q \in TransferRow : x = WorkerSite[w] /\ q = row[x][t]
  BY JobFacts, HandoffsAreTransfers, RowFacts DEF AuthorityInv
<1>2. /\ TypesInv /\ t \in Transfers /\ t \in Nat /\ q \in TransferRow
      /\ q.state = "requested" /\ x = Source(t)
  BY <1>1, HandoffsAreTransfers, RowFacts, SourceTargetFields DEF AuthorityInv, TakeUp, MayTake
<1>3. how = "done"
  BY CalmTells DEF TakeUp
<1>4. PICK r : r = [q EXCEPT !.state = "source-capturing",
                             !.sent = q.sent \cup Noted(how, "requested")]
  OBVIOUS
<1>5. row' = [row EXCEPT ![x][t] = r]
  <2>1. row' = [row EXCEPT ![x][t].state = IF how = "done" THEN "source-capturing" ELSE @,
                           ![x][t].sent = @ \cup Noted(how, "requested")]
    BY <1>1 DEF TakeUp
  <2>2. row \in [Sites -> [Transfers -> TransferRow]] /\ x \in Sites /\ t \in Transfers
        /\ q = row[x][t]
    BY <1>1, <1>2 DEF TypesInv
  <2> QED BY <1>3, <1>4, <2>1, <2>2 DEF TransferRow
<1>6. r.state = "source-capturing" /\ r.snap = q.snap
  BY <1>2, <1>4 DEF TransferRow
<1>7. OthersStay(x, t) /\ row'[x][t] = r
  <2>1. TypesInv /\ x \in Sites /\ t \in Transfers
    BY <1>2
  <2> QED BY <1>5, <2>1, RowSet
<1>8. PICK e \in Events : e = Event("requested", t, 0) /\ e.op = "requested" /\ e.t = t
  BY <1>2, EventIn DEF Ops
<1>9. Posts(x, e)
  <2>1. CASE x = Home /\ "requested" \notin row[x][t].sent
    <3>1. Emit(x, <<e>>)
      BY <1>1, <1>8, <2>1, CalmTells DEF TakeUp
    <3> QED BY <1>2, <3>1, EmitSays
  <2>2. CASE ~ (x = Home /\ "requested" \notin row[x][t].sent)
    BY <1>1, <2>2, SilentPosts DEF TakeUp
  <2> QED BY <2>1, <2>2
<1>10. RowMoved(x, t, q, r)
  BY <1>1, <1>2, <1>6, <1>7 DEF RowMoved, Active, Broken, Restored
<1>11. RowSaid(x, t, q, r, e)
  BY <1>6, <1>8, <1>9 DEF RowSaid, Broken
<1>12. JobsGo /\ SameLine
  <2>1. JobsGo
    BY <1>2, JobAfterEnds, JobsEndGo DEF TakeUp
  <2> QED BY <2>1 DEF TakeUp, SameLine, SameSnapshots
<1>13. Owed(x, t)' = {}
  BY <1>6, <1>7, NothingOwed
<1> QED BY <1>1, <1>10, <1>11, <1>12, <1>13, RowKeepsCalm DEF RowChange

LEMMA AcceptKeepsCalm ==
  ASSUME AuthorityInv, AuthorityInv', CalmInv, OnePass, NEW w \in Workers,
         NEW t \in DOMAIN transfers, AcceptSnapshot(w, t)
  PROVE  CalmInv'
<1>1. PICK x \in Sites, q \in TransferRow : x = WorkerSite[w] /\ q = row[x][t]
  BY JobFacts, HandoffsAreTransfers, RowFacts DEF AuthorityInv
<1>2. /\ TypesInv /\ t \in Transfers /\ t \in Nat /\ q \in TransferRow
      /\ q.state = "snapshot-ready"
  BY <1>1, HandoffsAreTransfers, RowFacts, SourceTargetFields
     DEF AuthorityInv, AcceptSnapshot, MayTake
<1>3. PICK r : r = [q EXCEPT !.state = "target-restoring"]
  OBVIOUS
<1>4. row' = [row EXCEPT ![x][t] = r]
  BY <1>1, <1>2, <1>3 DEF AcceptSnapshot, TypesInv, TransferRow
<1>5. r.state = "target-restoring" /\ r.snap = q.snap
  BY <1>2, <1>3 DEF TransferRow
<1>6. OthersStay(x, t) /\ row'[x][t] = r
  <2>1. TypesInv /\ x \in Sites /\ t \in Transfers
    BY <1>2
  <2> QED BY <1>4, <2>1, RowSet
<1>7. PICK e \in Events : e.op = "requested" /\ e.t = t
  BY <1>2, EventIn DEF Ops
<1>8. Posts(x, e)
  BY SilentPosts DEF AcceptSnapshot
<1>9. RowMoved(x, t, q, r)
  BY <1>1, <1>2, <1>5, <1>6 DEF RowMoved, Active, Broken, Restored
<1>10. RowSaid(x, t, q, r, e)
  BY <1>5, <1>7, <1>8 DEF RowSaid, Broken
<1>11. JobsGo /\ SameLine
  BY DEF AcceptSnapshot, SameLine, SameSnapshots, JobsGo
<1>12. Owed(x, t)' = {}
  BY <1>5, <1>6, NothingOwed
<1> QED BY <1>1, <1>9, <1>10, <1>11, <1>12, RowKeepsCalm DEF RowChange

LEMMA ResumeKeepsCalm ==
  ASSUME AuthorityInv, AuthorityInv', CalmInv, OnePass, NEW w \in Workers,
         NEW t \in DOMAIN transfers, ResumeSource(w, t)
  PROVE  CalmInv'
<1>1. PICK x \in Sites, q \in TransferRow : x = WorkerSite[w] /\ q = row[x][t]
  BY JobFacts, HandoffsAreTransfers, RowFacts DEF AuthorityInv
<1>2. /\ TypesInv /\ t \in Transfers /\ t \in Nat /\ q \in TransferRow /\ q.state \in Broken
  BY <1>1, HandoffsAreTransfers, RowFacts DEF AuthorityInv, ResumeSource, MayTake
<1>3. PICK r : r = [q EXCEPT !.resumed = TRUE]
  OBVIOUS
<1>4. row' = [row EXCEPT ![x][t] = r]
  BY <1>1, <1>2, <1>3 DEF ResumeSource, TypesInv, TransferRow
<1>5. r.state = q.state /\ r.snap = q.snap /\ r.sent = q.sent
  BY <1>2, <1>3 DEF TransferRow
<1>6. OthersStay(x, t) /\ row'[x][t] = r
  <2>1. TypesInv /\ x \in Sites /\ t \in Transfers
    BY <1>2
  <2> QED BY <1>4, <2>1, RowSet
<1>7. PICK e \in Events : e = Event("source-resumed", t, 0) /\ e.op = "source-resumed" /\ e.t = t
  BY <1>2, EventIn DEF Ops
<1>8. Posts(x, e)
  <2>1. Emit(x, <<e>>)
    BY <1>1, <1>7 DEF ResumeSource
  <2> QED BY <1>2, <2>1, EmitSays
<1>9. RowMoved(x, t, q, r)
  BY <1>1, <1>2, <1>5, <1>6 DEF RowMoved, Active, Broken, Restored
<1>10. RowSaid(x, t, q, r, e)
  BY <1>2, <1>5, <1>7, <1>8 DEF RowSaid, Broken
<1>11. JobsGo /\ SameLine
  BY DEF ResumeSource, SameLine, SameSnapshots, JobsGo
<1>12. Owed(x, t)' = {}
  BY <1>2, <1>5, <1>6, NothingOwed DEF Broken
<1> QED BY <1>1, <1>9, <1>10, <1>11, <1>12, RowKeepsCalm DEF RowChange

LEMMA FailKeepsCalm ==
  ASSUME AuthorityInv, AuthorityInv', CalmInv, ~ torn', NEW x \in Sites,
         NEW t \in DOMAIN transfers, NEW resumed \in BOOLEAN, NEW how,
         FailTransfer(x, t, resumed, how), JobsGo, SameLine,
         x # Home => row[x][t].state # "none",
         x # Home /\ row[x][t].snap = 0 => row[x][t].state \in Broken \/ x = Source(t)
  PROVE  CalmInv'
<1>1. PICK q : q = row[x][t]
  OBVIOUS
<1>2. TypesInv /\ t \in Transfers /\ t \in Nat /\ q \in TransferRow
  BY <1>1, HandoffsAreTransfers, RowFacts DEF AuthorityInv
<1>3. PICK r : r = FailedRow(q, resumed)
  OBVIOUS
<1>4. row' = [row EXCEPT ![x][t] = r]
  BY <1>1, <1>2, <1>3 DEF FailTransfer, TypesInv, FailedRow
<1>5. OthersStay(x, t) /\ row'[x][t] = r
  BY <1>2, <1>4, RowSet
<1>6. PICK e \in Events : e = [Event("failed", t, 0) EXCEPT !.resumed = resumed]
                          /\ e.op = "failed" /\ e.t = t
  <2> DEFINE d == [Event("failed", t, 0) EXCEPT !.resumed = resumed]
  <2>1. d \in Events /\ d.op = "failed" /\ d.t = t
    BY <1>2 DEF Event, Events, Ops
  <2> HIDE DEF d
  <2>2. d \in Events /\ d = d /\ d.op = "failed" /\ d.t = t
    BY <2>1
  <2> QED BY <2>2 DEF d
<1>7. Emit(x, FailedEvents(q, t, resumed))
  BY <1>1, CalmTells DEF FailTransfer
<1>8. CASE Fails(q)
  <2>1. r.state = "failed" /\ r.snap = q.snap
    BY <1>2, <1>3, <1>8 DEF FailedRow, TransferRow
  <2>2. Posts(x, e) /\ (x = Home => Spreads(e))
    <3>1. Emit(x, <<e>>)
      BY <1>6, <1>7, <1>8 DEF FailedEvents
    <3> QED BY <1>2, <3>1, EmitSays
  <2>3. RowMoved(x, t, q, r)
    BY <1>1, <1>5, <1>8, <2>1 DEF RowMoved, Fails, Active, Broken, Restored
  <2>4. RowSaid(x, t, q, r, e)
    BY <1>6, <2>1, <2>2 DEF RowSaid, Broken
  <2>5. Owed(x, t)' = {}
    BY <1>5, <2>1, NothingOwed
  <2> QED BY <2>3, <2>4, <2>5, RowKeepsCalm DEF RowChange
<1>9. CASE ~ Fails(q)
  <2>1. r = q
    BY <1>3, <1>9 DEF FailedRow
  <2>2. Posts(x, e)
    <3>1. Emit(x, << >>)
      BY <1>7, <1>9 DEF FailedEvents
    <3> QED BY <1>2, <3>1, EmptySays
  <2>3. RowMoved(x, t, q, r)
    BY <1>1, <1>5, <1>9, <2>1 DEF RowMoved, Fails, Broken
  <2>4. RowSaid(x, t, q, r, e)
    BY <1>6, <2>1, <2>2 DEF RowSaid, Broken
  <2>5. Owed(x, t)' = {}
    BY <1>1, <1>5, <2>1, OwedAsBefore DEF SameLine, CalmInv
  <2> QED BY <2>3, <2>4, <2>5, RowKeepsCalm DEF RowChange
<1> QED BY <1>8, <1>9

LEMMA CaptureFailsKeepsCalm ==
  ASSUME AuthorityInv, AuthorityInv', CalmInv, ~ torn', OnePass, NEW w \in Workers,
         NEW t \in DOMAIN transfers, NEW resumed \in BOOLEAN, NEW how,
         CaptureFails(w, t, resumed, how)
  PROVE  CalmInv'
<1>1. PICK x \in Sites : /\ x = WorkerSite[w] /\ JobSound(x, job[w]) /\ TypesInv
                         /\ x # Home => JobHasRow(job[w], row[x][job[w].t].state)
  BY JobFacts DEF AuthorityInv
<1>2. x = Source(t) /\ (x # Home => row[x][t].state # "none")
  <2>1. CASE MayTake(w, t, "source", {"source-capturing"})
    BY <1>1, <2>1, SourceTargetFields DEF MayTake
  <2>2. CASE job[w].t = t /\ job[w].at \in {"exported", "recorded"}
    BY <1>1, <2>2 DEF JobSound, JobHasRow, Broken
  <2> QED BY <2>1, <2>2 DEF CaptureFails, CaptureRefused
<1>3. JobsGo /\ SameLine
  <2>1. JobsGo
    BY <1>1, JobAfterEnds, JobsEndGo DEF CaptureFails
  <2> QED BY <2>1 DEF CaptureFails, SameLine, SameSnapshots
<1>4. FailTransfer(x, t, resumed, how)
  BY <1>1 DEF CaptureFails
<1> QED BY <1>2, <1>3, <1>4, FailKeepsCalm

LEMMA RestoreFailsKeepsCalm ==
  ASSUME AuthorityInv, AuthorityInv', CalmInv, ~ torn', OnePass, NEW w \in Workers, NEW how,
         RestoreFails(w, how)
  PROVE  CalmInv'
<1>1. PICK x, t : /\ x = WorkerSite[w] /\ t = job[w].t /\ TypesInv /\ x \in Sites
                  /\ x # Home => JobHasRow(job[w], row[x][t].state)
  BY JobFacts DEF AuthorityInv
<1>2. t \in DOMAIN transfers /\ t \in Transfers /\ job[w].at \in {"restoring", "probing"}
  BY <1>1, JobsPlaced, HandoffsAreTransfers DEF RestoreFails
<1>3. x # Home => row[x][t].state \in {"target-restoring"} \cup Broken
  BY <1>1, <1>2 DEF JobHasRow
<1>4. RowSound(x, t, row[x][t])
  BY <1>1, <1>2 DEF AuthorityInv, RowsInv
<1>5. /\ x # Home => row[x][t].state # "none"
      /\ x # Home /\ row[x][t].snap = 0 => row[x][t].state \in Broken \/ x = Source(t)
  BY <1>3, <1>4 DEF RowSound, Over, Broken
<1>6. JobsGo /\ SameLine
  <2>1. JobsGo
    BY <1>1, JobAfterEnds, JobsEndGo DEF RestoreFails
  <2> QED BY <2>1 DEF RestoreFails, SameLine, SameSnapshots
<1>7. FailTransfer(x, t, FALSE, how)
  BY <1>1 DEF RestoreFails
<1> QED BY <1>1, <1>2, <1>5, <1>6, <1>7, FailKeepsCalm

(* What is handed over is the newest snapshot there is.                    *)
LEMMA SnapshotReadyKeepsCalm ==
  ASSUME AuthorityInv, AuthorityInv', CalmInv, ~ torn', OnePass, NEW w \in Workers, NEW how,
         SnapshotReady(w, how)
  PROVE  CalmInv'
<1>1. PICK x \in Sites, j \in Job : x = WorkerSite[w] /\ j = job[w]
  BY JobFacts
<1>2. PICK t, q : t = j.t /\ q = row[x][t]
  OBVIOUS
<1>3. /\ j.at = "recorded" /\ t \in DOMAIN transfers /\ x = Source(t) /\ t \in Transfers
      /\ t \in Nat /\ q.state = "source-capturing" /\ q \in TransferRow /\ TypesInv
      /\ j.snap = Expected(t) + 1 /\ j.snap \in Nat /\ j.snap # 0
  <2>1. j.at = "recorded" /\ q.state = "source-capturing"
    BY <1>1, <1>2 DEF SnapshotReady
  <2>2. /\ t \in DOMAIN transfers /\ x = Source(t) /\ j.snap = Expected(t) + 1
        /\ j.snap \in 1..Top
    BY <1>1, <1>2, <2>1, JobsPlaced
  <2>3. t \in Transfers /\ t \in Nat /\ TypesInv
    BY <2>2, HandoffsAreTransfers DEF AuthorityInv
  <2>4. q \in TransferRow
    BY <1>2, <2>3, RowFacts
  <2> QED BY <2>1, <2>2, <2>3, <2>4
<1>4. how = "done"
  BY CalmTells DEF SnapshotReady
<1>5. PICK r : r = [q EXCEPT !.state = "snapshot-ready", !.snap = j.snap,
                             !.sent = q.sent \cup {"snapshot-ready"}]
  OBVIOUS
<1>6. row' = [row EXCEPT ![x][t] = r]
  <2>1. row' = [row EXCEPT ![x][t].state = "snapshot-ready", ![x][t].snap = j.snap,
                           ![x][t].sent = q.sent \cup {"snapshot-ready"}]
    BY <1>1, <1>2, <1>4 DEF SnapshotReady, Noted
  <2>2. row \in [Sites -> [Transfers -> TransferRow]]
    BY <1>3 DEF TypesInv
  <2>3. row[x] \in [Transfers -> TransferRow] /\ q = row[x][t]
    BY <1>2, <2>2
  <2> QED BY <1>3, <1>5, <2>1, <2>2, <2>3 DEF TransferRow
<1>7. r.state = "snapshot-ready" /\ r.snap = j.snap /\ "snapshot-ready" \in r.sent
  BY <1>3, <1>5 DEF TransferRow
<1>8. OthersStay(x, t) /\ row'[x][t] = r
  <2>1. TypesInv /\ x \in Sites /\ t \in Transfers
    BY <1>3
  <2> QED BY <1>6, <2>1, RowSet
<1>9. j.snap = Top
  <2>1. CASE x # Home
    BY <1>1, <1>2, <1>3, <2>1 DEF CalmInv, RecordedInv
  <2>2. CASE x = Home
    <3>1. Recorded(w, t)
      BY <1>1, <1>2, <1>3 DEF Recorded
    <3>2. Underway(t) /\ row[Home][t].state \in Active
      BY <1>2, <1>3, <2>2, <3>1 DEF Underway, Broken, Active
    <3> QED BY <1>3, <3>2 DEF AuthorityInv, UnderwayInv
  <2> QED BY <2>1, <2>2
<1>10. PICK e \in Events : /\ e = Event("snapshot-ready", t, j.snap)
                           /\ e.op = "snapshot-ready" /\ e.t = t /\ e.snap = j.snap
  BY <1>3, EventIn DEF Ops
<1>11. Posts(x, e) /\ (x = Home => Spreads(e))
  <2>1. Emit(x, <<e>>)
    BY <1>1, <1>2, <1>10, CalmTells DEF SnapshotReady
  <2> QED BY <1>3, <2>1, EmitSays
<1>12. RowMoved(x, t, q, r)
  BY <1>2, <1>3, <1>7, <1>8 DEF RowMoved, Active, Broken, Restored
<1>13. RowSaid(x, t, q, r, e)
  BY <1>3, <1>7, <1>9, <1>10, <1>11 DEF RowSaid, Broken
<1>14. JobsGo /\ SameLine
  <2>1. JobsGo
    BY <1>1, <1>3, JobAfterEnds, JobsEndGo DEF SnapshotReady
  <2> QED BY <2>1 DEF SnapshotReady, SameLine, SameSnapshots
<1>15. Owed(x, t)' = {}
  BY <1>7, <1>8, NothingOwed
<1> QED BY <1>3, <1>12, <1>13, <1>14, <1>15, RowKeepsCalm DEF RowChange

LEMMA TargetReadyKeepsCalm ==
  ASSUME AuthorityInv, AuthorityInv', CalmInv, ~ torn', OnePass, NEW w \in Workers, NEW how,
         TargetReady(w, how)
  PROVE  CalmInv'
<1>1. PICK x \in Sites, j \in Job : x = WorkerSite[w] /\ j = job[w]
  BY JobFacts
<1>2. PICK t, q : t = j.t /\ q = row[x][t]
  OBVIOUS
<1>3. /\ j.at = "probing" /\ t \in DOMAIN transfers /\ x = Target(t) /\ t \in Transfers
      /\ t \in Nat /\ q.state = "target-restoring" /\ q \in TransferRow /\ TypesInv
      /\ j.snap \in Nat
  <2>1. j.at = "probing" /\ q.state = "target-restoring"
    BY <1>1, <1>2 DEF TargetReady
  <2>2. t \in DOMAIN transfers /\ x = Target(t) /\ j.snap \in 1..Top
    BY <1>1, <1>2, <2>1, JobsPlaced
  <2>3. t \in Transfers /\ t \in Nat /\ TypesInv
    BY <2>2, HandoffsAreTransfers DEF AuthorityInv
  <2>4. q \in TransferRow
    BY <1>2, <2>3, RowFacts
  <2> QED BY <2>1, <2>2, <2>3, <2>4
<1>4. how = "done"
  BY CalmTells DEF TargetReady
<1>5. PICK r : r = [q EXCEPT !.state = "target-ready", !.sent = q.sent \cup {"target-ready"}]
  OBVIOUS
<1>6. row' = [row EXCEPT ![x][t] = r]
  <2>1. row' = [row EXCEPT ![x][t].state = "target-ready",
                           ![x][t].sent = q.sent \cup {"target-ready"}]
    BY <1>1, <1>2, <1>4 DEF TargetReady, Noted
  <2>2. row \in [Sites -> [Transfers -> TransferRow]]
    BY <1>3 DEF TypesInv
  <2>3. row[x] \in [Transfers -> TransferRow] /\ q = row[x][t]
    BY <1>2, <2>2
  <2> QED BY <1>3, <1>5, <2>1, <2>2, <2>3 DEF TransferRow
<1>7. r.state = "target-ready" /\ r.snap = q.snap /\ "target-ready" \in r.sent
  BY <1>3, <1>5 DEF TransferRow
<1>8. OthersStay(x, t) /\ row'[x][t] = r
  <2>1. TypesInv /\ x \in Sites /\ t \in Transfers
    BY <1>3
  <2> QED BY <1>6, <2>1, RowSet
<1>9. PICK e \in Events : /\ e = Event("target-ready", t, j.snap)
                          /\ e.op = "target-ready" /\ e.t = t
  BY <1>3, EventIn DEF Ops
<1>10. Posts(x, e)
  <2>1. Emit(x, <<e>>)
    BY <1>1, <1>2, <1>9, CalmTells DEF TargetReady
  <2> QED BY <1>3, <2>1, EmitSays
<1>11. RowMoved(x, t, q, r)
  BY <1>2, <1>3, <1>7, <1>8 DEF RowMoved, Active, Broken, Restored
<1>12. RowSaid(x, t, q, r, e)
  BY <1>3, <1>7, <1>9, <1>10 DEF RowSaid, Broken
<1>13. JobsGo /\ SameLine
  <2>1. JobsGo
    BY <1>1, <1>3, JobAfterEnds, JobsEndGo DEF TargetReady
  <2> QED BY <2>1 DEF TargetReady, SameLine, SameSnapshots
<1>14. Owed(x, t)' = {}
  BY <1>7, <1>8, NothingOwed
<1> QED BY <1>3, <1>11, <1>12, <1>13, <1>14, RowKeepsCalm DEF RowChange

-----------------------------------------------------------------------------
(* The steps that move no row and send nothing.                            *)
LEMMA QuietKeepsCalm ==
  ASSUME AuthorityInv, AuthorityInv', CalmInv, SameLine, row' = row, UNCHANGED wireVars,
         \A w \in Workers : WorkerSite[w] # Home /\ job'[w].at = "recorded" =>
           job'[w] = job[w] \/ job'[w].snap = Top
  PROVE  CalmInv'
<1>1. /\ transfers' = transfers /\ writer' = writer /\ Top' = Top /\ Top \in Nat
      /\ \A n \in 0..Top : AuthorityOf(n)' = AuthorityOf(n)
      /\ \A y \in Sites : Latest(y)' = Latest(y)
      /\ snapshots' = snapshots /\ outgoing' = outgoing /\ incoming' = incoming
  BY SameLineFacts DEF SameLine, SameSnapshots, wireVars
<1>2. Home \in Sites /\ \A s \in Suitcases : s \in Sites
  BY HomeIsSite
<1>3. SentInv'
  BY <1>1 DEF CalmInv, SentInv, Owed
<1>4. EndsInv' /\ OrderInv' /\ ReadyInv'
  BY <1>1 DEF CalmInv, EndsInv, OrderInv, ReadyInv, Source
<1>5. OutgoingInv'
  <2>1. Latest(Home)' = Latest(Home) /\ \A s \in Suitcases : Latest(s)' = Latest(s)
    BY <1>1, <1>2
  <2>2. \A s \in Suitcases : \A i \in DOMAIN outgoing[s] :
          AuthorityOf(outgoing[s][i].snap)' = AuthorityOf(outgoing[s][i].snap)
    BY <1>1 DEF AuthorityOf
  <2> QED BY <1>1, <2>1, <2>2 DEF CalmInv, OutgoingInv
<1>6. IncomingInv'
  <2>1. Latest(Home)' = Latest(Home) /\ \A s \in Suitcases : Latest(s)' = Latest(s)
    BY <1>1, <1>2
  <2>2. \A s \in Suitcases : \A i \in DOMAIN incoming[s] :
          AuthorityOf(incoming[s][i].snap)' = AuthorityOf(incoming[s][i].snap)
    BY <1>1 DEF AuthorityOf
  <2> QED BY <1>1, <2>1, <2>2 DEF CalmInv, IncomingInv
<1>7. HandoverInv'
  BY <1>1 DEF CalmInv, HandoverInv, Source
<1>8. OfferInv'
  BY <1>1 DEF CalmInv, OfferInv, Offered, Source, Told, Outs
<1>9. RecordedInv'
  BY <1>1 DEF CalmInv, RecordedInv
<1>10. BehindInv'
  BY <1>1, BehindAsBefore DEF CalmInv
<1> QED BY <1>3, <1>4, <1>5, <1>6, <1>7, <1>8, <1>9, <1>10 DEF CalmInv

LEMMA JobsGoKeepsCalm ==
  ASSUME AuthorityInv, AuthorityInv', CalmInv, SameLine, row' = row, UNCHANGED wireVars, JobsGo
  PROVE  CalmInv'
BY QuietKeepsCalm, NoJobIsJob DEF JobsGo

(* The snapshot a capture reuses was not handed over by another handoff.   *)
LEMMA ReusesTheNewest ==
  ASSUME AuthorityInv, CalmInv, NEW s \in Suitcases, NEW t \in DOMAIN transfers,
         Source(t) = s, row[s][t].state = "source-capturing", Reusable(s, t)
  PROVE  Latest(s) = Top
<1>1. /\ s \in Sites /\ Home \in Sites /\ t \in Nat /\ t \in Transfers /\ TypesInv /\ LineInv
      /\ Expected(t) \in Nat
  BY HomeIsSite, HandoffsAreTransfers, TypeFacts DEF AuthorityInv
<1>2. Latest(s) \in 0..Top /\ Latest(s) # 0 /\ AuthorityOf(Latest(s)) = s /\ Top \in Nat
  BY <1>1, LatestFacts, TypeFacts DEF Reusable, AuthorityOf, Top
<1>3. Latest(s) = Expected(t) + 1
  <2>1. snapshots[Latest(s)].parent = Latest(s) - 1
    BY <1>1, <1>2 DEF LineInv
  <2>2. snapshots[Latest(s)].parent = Expected(t)
    BY DEF Reusable, Expected
  <2> QED BY <1>1, <1>2, <2>1, <2>2
<1>4. SUFFICES ASSUME NEW u \in DOMAIN transfers, row[Home][u].state = "committed",
                      Source(u) = s, Expected(u) + 2 = Latest(s) + 1, row[s][u].state \in Over
               PROVE  FALSE
  BY <1>2, OwnerHasTheNewest
<1>5. u \in Nat /\ u \in Transfers /\ Expected(u) \in Nat /\ u # t
  BY <1>1, <1>4, HandoffsAreTransfers, TypeFacts DEF Over
<1>6. CASE u < t
  <2>1. row[Home][u].snap <= Expected(t)
    BY <1>4, <1>6 DEF AuthorityInv, TransfersInv
  <2>2. RowSound(Home, u, row[Home][u])
    BY <1>1, <1>5 DEF AuthorityInv, RowsInv
  <2>3. row[Home][u].snap = Expected(u) + 2
    BY <1>4, <2>2 DEF RowSound
  <2> QED BY <1>1, <1>3, <1>4, <1>5, <2>1, <2>3
<1>7. CASE t < u
  <2>1. ~ Closed(row[s][t])
    BY DEF Closed, Broken
  <2>2. row[s][u].state = "none"
    BY <1>7, <2>1 DEF CalmInv, OrderInv
  <2> QED BY <1>4, <2>2 DEF Over
<1> QED BY <1>1, <1>5, <1>6, <1>7

LEMMA BeginCaptureKeepsCalm ==
  ASSUME AuthorityInv, AuthorityInv', CalmInv, NEW w \in Workers, NEW t \in DOMAIN transfers,
         BeginCapture(w, t)
  PROVE  CalmInv'
<1>1. PICK x \in Sites : x = WorkerSite[w]
  BY JobFacts
<1>2. SameLine /\ row' = row /\ UNCHANGED wireVars
  BY DEF BeginCapture, durableVars, wireVars, SameLine, SameSnapshots
<1>3. x = Source(t) /\ row[x][t].state = "source-capturing" /\ job \in [Workers -> Job]
  BY <1>1, SourceTargetFields DEF BeginCapture, MayTake, AuthorityInv, TypesInv
<1>4. CASE Reusable(x, t) /\ job' = [job EXCEPT ![w] = [NoJob EXCEPT !.at = "recorded", !.t = t,
                                                                      !.snap = Latest(x)]]
  <2>1. job'[w].snap = Latest(x) /\ \A v \in Workers : v # w => job'[v] = job[v]
    BY <1>3, <1>4 DEF NoJob
  <2>2. x # Home => Latest(x) = Top
    BY <1>3, <1>4, ReusesTheNewest DEF Sites
  <2> QED BY <1>1, <1>2, <2>1, <2>2, QuietKeepsCalm
<1>5. CASE job' = [job EXCEPT ![w] = [at |-> "exported", t |-> t, snap |-> Latest(x),
                                      data |-> volume[x]]]
  <2>1. job'[w].at = "exported" /\ \A v \in Workers : v # w => job'[v] = job[v]
    BY <1>3, <1>5
  <2> QED BY <1>2, <2>1, QuietKeepsCalm
<1> QED BY <1>1, <1>4, <1>5 DEF BeginCapture

LEMMA BeginRestoreKeepsCalm ==
  ASSUME AuthorityInv, AuthorityInv', CalmInv, NEW w \in Workers, NEW t \in DOMAIN transfers,
         BeginRestore(w, t)
  PROVE  CalmInv'
<1>1. SameLine /\ row' = row /\ UNCHANGED wireVars
  BY DEF BeginRestore, durableVars, wireVars, SameLine, SameSnapshots
<1>2. PICK j : j = [NoJob EXCEPT !.at = "restoring", !.t = t,
                                 !.snap = row[WorkerSite[w]][t].snap]
  OBVIOUS
<1>3. j.at = "restoring"
  BY <1>2 DEF NoJob
<1>4. job' = [job EXCEPT ![w] = j]
  BY <1>2 DEF BeginRestore
<1>5. job'[w] = j /\ \A v \in Workers : v # w => job'[v] = job[v]
  BY <1>4 DEF AuthorityInv, TypesInv
<1> QED BY <1>1, <1>3, <1>5, QuietKeepsCalm

LEMMA RestoreVolumeKeepsCalm ==
  ASSUME AuthorityInv, AuthorityInv', CalmInv, NEW w \in Workers, RestoreVolume(w)
  PROVE  CalmInv'
<1>1. SameLine /\ row' = row /\ UNCHANGED wireVars
  BY DEF RestoreVolume, durableVars, wireVars, SameLine, SameSnapshots
<1>2. job' = [job EXCEPT ![w].at = "probing"] /\ job \in [Workers -> Job]
  BY DEF RestoreVolume, AuthorityInv, TypesInv
<1>3. job'[w].at = "probing" /\ \A v \in Workers : v # w => job'[v] = job[v]
  BY <1>2 DEF Job
<1> QED BY <1>1, <1>3, QuietKeepsCalm

LEMMA RepeatsKeepsCalm ==
  ASSUME AuthorityInv, AuthorityInv', CalmInv, NEW w \in Workers, Repeats(w)
  PROVE  CalmInv'
<1>1. PICK t \in DOMAIN transfers : StopTarget(w, t) \/ ActivateTarget(w, t) \/ StopSource(w, t)
  BY DEF Repeats
<1>2. SameLine /\ row' = row /\ UNCHANGED wireVars /\ JobsGo
  BY <1>1 DEF StopTarget, ActivateTarget, StopSource, durableVars, wireVars, SameLine,
              SameSnapshots, JobsGo
<1> QED BY <1>2, JobsGoKeepsCalm

LEMMA SiteKeepsCalm ==
  ASSUME AuthorityInv, AuthorityInv', CalmInv,
         \E s \in Sites : \/ Materialise(s) \/ SupervisorStarts(s) \/ Write(s) \/ Crash(s)
                          \/ UNCHANGED authorityVars
  PROVE  CalmInv'
<1>1. PICK s \in Sites : \/ Materialise(s) \/ SupervisorStarts(s) \/ Write(s) \/ Crash(s)
                         \/ UNCHANGED authorityVars
  OBVIOUS
<1>2. SameLine /\ row' = row /\ UNCHANGED wireVars
  BY <1>1 DEF Materialise, SupervisorStarts, Write, Crash, authorityVars, durableVars, wireVars,
              SameLine, SameSnapshots
<1>3. JobsGo
  BY <1>1 DEF Materialise, SupervisorStarts, Write, Crash, authorityVars, Idle, JobsGo
<1> QED BY <1>2, <1>3, JobsGoKeepsCalm

-----------------------------------------------------------------------------
(* A handoff starts when all before it are over at Home.                   *)
Starting(t, e) ==
  /\ t \in Nat /\ t \notin DOMAIN transfers /\ DOMAIN transfers' = DOMAIN transfers \cup {t}
  /\ \A u \in DOMAIN transfers :
       /\ u < t /\ u \in Nat /\ Closed(row[Home][u]) /\ Source(u)' = Source(u)
       /\ transfers'[u] = transfers[u]
       /\ \A y \in Sites : row'[y][u] = row[y][u]
  /\ row'[Home][t].state = "requested" /\ row'[Home][t].snap = 0
  /\ \A s \in Suitcases :
       /\ row'[s][t].state = "none" /\ row'[s][t].snap = 0
       /\ outgoing'[s] = outgoing[s] /\ Longer(incoming'[s], incoming[s], e)
       /\ \A i \in DOMAIN outgoing[s] : outgoing[s][i].t \in DOMAIN transfers \cup {0}
       /\ \A i \in DOMAIN incoming[s] : incoming[s][i].t \in DOMAIN transfers \cup {0}
  /\ e \in Events /\ e.op = "requested" /\ e.t = t /\ t # 0
  /\ snapshots' = snapshots /\ writer' = writer /\ Top' = Top /\ Top \in Nat
  /\ \A y \in Sites : Latest(y)' = Latest(y) /\ Latest(y) \in 0..Top
  /\ \A w \in Workers : job'[w] \in {job[w], NoJob}

LEMMA StartIsStarting ==
  ASSUME AuthorityInv, AuthorityInv', ~ torn', NEW target \in Sites, NEW how,
         StartTransfer(target, how)
  PROVE  \E t, e : Starting(t, e)
<1>1. PICK t, r, m :
        /\ t = Len(transfers) + 1
        /\ m = [source |-> AuthoritySite(Home), target |-> target, expected |-> Latest(Home)]
        /\ r = [NoRow EXCEPT !.state = "requested", !.sent = Noted(how, "requested")]
  OBVIOUS
<1>2. /\ TypesInv /\ TypesInv' /\ LineInv /\ Home \in Sites
      /\ t \in Nat /\ t # 0 /\ t \in Transfers /\ t \notin DOMAIN transfers
      /\ Len(transfers) \in Nat /\ DOMAIN transfers = 1..Len(transfers)
      /\ DOMAIN transfers \subseteq Transfers
  <2>1. /\ Len(transfers) \in Nat /\ MaxTransfers \in Nat /\ Len(transfers) < MaxTransfers
        /\ DOMAIN transfers = 1..Len(transfers)
    BY TypeFacts, AuthorityBounds DEF AuthorityInv, StartTransfer
  <2>2. t \in Nat /\ t # 0 /\ t \in Transfers /\ t \notin DOMAIN transfers
    BY <1>1, <2>1 DEF Transfers
  <2> QED BY <2>1, <2>2, HomeIsSite, HandoffsAreTransfers DEF AuthorityInv
<1>3. PICK e \in Events : e = Event("requested", t, 0) /\ e.op = "requested" /\ e.t = t
  BY <1>2, EventIn DEF Ops
<1>4. /\ SameSnapshots /\ row' = [row EXCEPT ![Home][t] = r] /\ transfers' = Append(transfers, m)
      /\ job' \in {job, Idle(Home)} /\ ActiveRows(Home) = {} /\ Emit(Home, <<e>>)
  <2>1. Emit(Home, <<Event("requested", Len(transfers) + 1, 0)>>)
    BY CalmTells DEF StartTransfer
  <2> QED BY <1>1, <1>3, <2>1 DEF StartTransfer, MayStart, SameSnapshots
<1>5. /\ DOMAIN transfers' = DOMAIN transfers \cup {t} /\ Len(transfers) <= Len(transfers')
      /\ \A u \in DOMAIN transfers : transfers'[u] = transfers[u]
  <2>1. transfers \in Seq(Transfer) /\ transfers' \in Seq(Transfer)
    BY <1>2 DEF TypesInv
  <2> QED BY <1>1, <1>2, <1>4, <2>1
<1>6. Top' = Top /\ \A y \in Sites : Latest(y)' = Latest(y)
  <2>1. Grown
    BY <1>2, <1>4, <1>5 DEF Grown, SameSnapshots, TypesInv
  <2> QED BY <1>2, <1>4, <2>1, SameLineKeeps
<1>7. Top \in Nat /\ \A y \in Sites : Latest(y) \in 0..Top
  BY <1>2, LatestFacts, TypeFacts DEF Top
<1>8. r.state = "requested" /\ r.snap = 0
  BY <1>1 DEF NoRow
<1>9. /\ row'[Home][t] = r /\ \A y \in Sites, u \in DOMAIN transfers : row'[y][u] = row[y][u]
      /\ \A s \in Suitcases : row'[s][t] = row[s][t]
  <2>1. OthersStay(Home, t) /\ row'[Home][t] = r
    BY <1>2, <1>4, RowSet
  <2> QED BY <1>2, <2>1, HomeIsSite DEF OthersStay
<1>10. ASSUME NEW s \in Suitcases
       PROVE  row[s][t].state = "none" /\ row[s][t].snap = 0
  <2>1. RowSound(s, t, row[s][t])
    BY <1>2, HomeIsSite DEF AuthorityInv, RowsInv
  <2> QED BY <1>2, <2>1 DEF RowSound, NoRow
<1>11. ASSUME NEW u \in DOMAIN transfers
       PROVE  Closed(row[Home][u])
  <2>1. row[Home][u].state \in States /\ row[Home][u].state # "none"
    BY <1>2, RowFacts DEF AuthorityInv, TransfersInv
  <2>2. row[Home][u].state \notin Active
    BY <1>2, <1>4 DEF ActiveRows
  <2> QED BY <2>1, <2>2 DEF Closed, States, Active, Broken
<1>12. ASSUME NEW s \in Suitcases
       PROVE  /\ \A i \in DOMAIN outgoing[s] : outgoing[s][i].t \in DOMAIN transfers \cup {0}
              /\ \A i \in DOMAIN incoming[s] : incoming[s][i].t \in DOMAIN transfers \cup {0}
  <2>1. (\A f \in Outs(s) : OutSound(s, f)) /\ (\A f \in Ins(s) : InSound(s, f))
    BY DEF AuthorityInv, EventsInv
  <2> QED BY <1>2, <2>1, StreamTypes DEF OutSound, InSound, EventSound
<1>13. ASSUME NEW s \in Suitcases
       PROVE  outgoing'[s] = outgoing[s] /\ Longer(incoming'[s], incoming[s], e)
  <2>1. Spreads(e)
    BY <1>2, <1>4, EmitSays
  <2> QED BY <1>4, <2>1 DEF Spreads, Emit
<1>14. \A w \in Workers : job'[w] \in {job[w], NoJob}
  BY <1>4 DEF Idle
<1>15. \A u \in DOMAIN transfers : u < t /\ u \in Nat /\ Source(u)' = Source(u)
  BY <1>1, <1>2, <1>5 DEF Source
<1>16. e.op = "requested" /\ e.t = t
  BY <1>3
<1>17. Starting(t, e)
  BY <1>2, <1>4, <1>5, <1>6, <1>7, <1>8, <1>9, <1>10, <1>11, <1>12, <1>13, <1>14, <1>15, <1>16
     DEF Starting, SameSnapshots
<1> QED BY <1>17

LEMMA StartKeepsOrder ==
  ASSUME AuthorityInv, CalmInv, NEW t, NEW e, Starting(t, e)
  PROVE  SentInv' /\ EndsInv' /\ OrderInv'
<1>0. Home \in Sites /\ \A s \in Suitcases : s \in Sites /\ s # Home
  BY HomeIsSite
<1>1. SentInv'
  <2>1. SUFFICES ASSUME NEW y \in Sites, NEW u \in DOMAIN transfers' PROVE Owed(y, u)' = {}
    BY DEF SentInv
  <2>2. CASE u = t
    <3>1. y = Home \/ y \in Suitcases
      BY DEF Sites
    <3>2. row'[y][t].state \in {"none", "requested"}
      BY <3>1 DEF Starting
    <3> QED BY <2>2, <3>2, NothingOwed
  <2>3. CASE u \in DOMAIN transfers
    <3>1. row'[y][u] = row[y][u] /\ transfers'[u] = transfers[u]
      BY <2>3 DEF Starting
    <3>2. Owed(y, u) = {}
      BY <2>3 DEF CalmInv, SentInv
    <3> QED BY <3>1, <3>2 DEF Owed
  <2> QED BY <2>2, <2>3 DEF Starting
<1>2. EndsInv'
  BY <1>0 DEF CalmInv, EndsInv, Starting, Broken
<1>3. SUFFICES ASSUME NEW s \in Suitcases, NEW u \in DOMAIN transfers', ~ Closed(row'[s][u])
               PROVE  /\ Closed(row'[Home][u])
                           => \E i \in DOMAIN incoming'[s] : Ends(incoming'[s][i], u)
                      /\ \A v \in DOMAIN transfers' : u < v => row'[s][v].state = "none"
                      /\ \A i \in DOMAIN incoming'[s] : u < incoming'[s][i].t =>
                           \E j \in DOMAIN incoming'[s] : j < i /\ Ends(incoming'[s][j], u)
  BY <1>1, <1>2 DEF OrderInv
<1>4. Longer(incoming'[s], incoming[s], e) /\ row'[s][t].state = "none" /\ e.t = t /\ t \in Nat
  BY DEF Starting
<1>5. CASE u \in DOMAIN transfers
  <2>1. row'[s][u] = row[s][u] /\ row'[Home][u] = row[Home][u] /\ Closed(row[Home][u]) /\ u \in Nat
    BY <1>0, <1>5 DEF Starting
  <2>2. /\ \E i \in DOMAIN incoming[s] : Ends(incoming[s][i], u)
        /\ \A v \in DOMAIN transfers : u < v => row[s][v].state = "none"
        /\ \A i \in DOMAIN incoming[s] : u < incoming[s][i].t =>
             \E j \in DOMAIN incoming[s] : j < i /\ Ends(incoming[s][j], u)
    BY <1>3, <1>5, <2>1 DEF CalmInv, OrderInv
  <2>3. /\ \A i \in DOMAIN incoming'[s] : u < incoming'[s][i].t =>
             \E j \in DOMAIN incoming'[s] : j < i /\ Ends(incoming'[s][j], u)
        /\ \E i \in DOMAIN incoming'[s] : Ends(incoming'[s][i], u)
    BY <1>4, <2>1, <2>2, OrderLonger
  <2>4. \A v \in DOMAIN transfers' : u < v => row'[s][v].state = "none"
    BY <1>0, <1>4, <2>2 DEF Starting
  <2> QED BY <2>3, <2>4
<1>6. CASE u = t
  <2>1. ~ Closed(row'[Home][u])
    BY <1>6 DEF Starting, Closed, Broken
  <2>2. \A v \in DOMAIN transfers' : ~ (u < v)
    BY <1>6 DEF Starting
  <2>3. \A i \in DOMAIN incoming'[s] : ~ (u < incoming'[s][i].t)
    <3>1. \A i \in DOMAIN incoming[s] : ~ (t < incoming[s][i].t)
      BY DEF Starting
    <3>2. \A i \in DOMAIN incoming'[s] : incoming'[s][i] = e
            \/ (i \in DOMAIN incoming[s] /\ incoming'[s][i] = incoming[s][i])
      BY <1>4, LongerFacts
    <3>3. ~ (t < e.t)
      BY DEF Starting
    <3> QED BY <1>6, <3>1, <3>2, <3>3
  <2> QED BY <2>1, <2>2, <2>3
<1> QED BY <1>5, <1>6 DEF Starting

LEMMA StartKeepsStreams ==
  ASSUME AuthorityInv, AuthorityInv', CalmInv, NEW t, NEW e, Starting(t, e)
  PROVE  OutgoingInv' /\ IncomingInv' /\ HandoverInv' /\ ReadyInv' /\ RecordedInv'
<1>0. Home \in Sites /\ \A s \in Suitcases : s \in Sites /\ s # Home
  BY HomeIsSite
<1>1. /\ writer' = writer /\ Top' = Top /\ Latest(Home)' = Latest(Home)
      /\ \A s \in Suitcases : Latest(s)' = Latest(s) /\ outgoing'[s] = outgoing[s]
  BY <1>0 DEF Starting
<1>2. OutgoingInv'
  <2>1. \A s \in Suitcases : \A i \in DOMAIN outgoing[s] :
          AuthorityOf(outgoing[s][i].snap)' = AuthorityOf(outgoing[s][i].snap)
    BY <1>1 DEF AuthorityOf, Starting
  <2> QED BY <1>1, <2>1 DEF CalmInv, OutgoingInv
<1>3. IncomingInv'
  <2>1. SUFFICES ASSUME NEW s \in Suitcases
                 PROVE  /\ Ordered(incoming'[s], Latest(s)', Latest(Home)')
                        /\ \A i \in DOMAIN incoming'[s] :
                             incoming'[s][i].op \in {"created", "snapshot-ready"} =>
                               AuthorityOf(incoming[s][i].snap)' # s
    BY DEF IncomingInv
  <2>2. /\ Ordered(incoming[s], Latest(s), Latest(Home))
        /\ \A i \in DOMAIN incoming[s] :
             incoming[s][i].op \in {"created", "snapshot-ready"} =>
               AuthorityOf(incoming[s][i].snap) # s
    BY DEF CalmInv, IncomingInv
  <2>3. /\ Longer(incoming'[s], incoming[s], e) /\ e.op = "requested"
        /\ Latest(s) \in Nat /\ Latest(Home) \in Nat /\ snapshots' = snapshots
    BY <1>0 DEF Starting
  <2>4. Ordered(incoming'[s], Latest(s), Latest(Home))
    BY <2>2, <2>3, OrderedPlain DEF HasSnap
  <2>5. \A i \in DOMAIN incoming'[s] : incoming'[s][i] = e
          \/ (i \in DOMAIN incoming[s] /\ incoming'[s][i] = incoming[s][i])
    BY <2>3 DEF Longer
  <2>6. \A i \in DOMAIN incoming'[s] :
          AuthorityOf(incoming[s][i].snap)' = AuthorityOf(incoming'[s][i].snap)
    BY <2>3 DEF AuthorityOf
  <2> QED BY <1>1, <2>2, <2>3, <2>4, <2>5, <2>6
<1>4. HandoverInv'
  <2>1. SUFFICES ASSUME NEW u \in DOMAIN transfers', row'[Home][u].state \in Active,
                        Source(u)' # Home
                 PROVE  /\ row'[Home][u].snap # 0 => NoSnaps(outgoing'[Source(u)'])
                        /\ \A i, j \in DOMAIN outgoing'[Source(u)'] :
                             i < j /\ Offers(outgoing'[Source(u)'][i], u)
                               => ~ HasSnap(outgoing'[Source(u)'][j])
    BY DEF HandoverInv
  <2>2. u = t
    BY <1>0, <2>1 DEF Starting, Closed, Active, Broken
  <2>3. Source(u)' \in Suitcases
    <3>1. transfers' \in Seq(Transfer) /\ u \in DOMAIN transfers'
      BY <2>1 DEF AuthorityInv, TypesInv
    <3>2. transfers'[u] \in Transfer
      BY <3>1
    <3>3. transfers'[u].source \in Sites
      BY <3>2 DEF Transfer
    <3> QED BY <2>1, <3>3 DEF Source, Sites
  <2>4. \A i \in DOMAIN outgoing'[Source(u)'] : ~ Offers(outgoing'[Source(u)'][i], u)
    BY <2>2, <2>3 DEF Starting, Offers
  <2> QED BY <2>2, <2>4 DEF Starting
<1>5. ReadyInv'
  <2>1. SUFFICES ASSUME NEW s \in Suitcases, NEW i \in DOMAIN outgoing[s], NEW f,
                        f = outgoing[s][i], f.op = "target-ready"
                 PROVE  /\ row'[Home][f.t].snap # 0 /\ row'[Home][f.t].state \notin Restored
                        /\ row'[s][f.t].state \in Restored \cup Broken
                        /\ \A j \in DOMAIN outgoing[s] :
                             outgoing[s][j].op = "target-ready" /\ outgoing[s][j].t = f.t => i = j
    BY <1>1 DEF ReadyInv
  <2>2. OutSound(s, f)
    BY <2>1, StreamTypes DEF AuthorityInv, EventsInv
  <2>3. f.t \in DOMAIN transfers
    BY <2>1, <2>2 DEF OutSound, EventSound
  <2>4. row'[Home][f.t] = row[Home][f.t] /\ row'[s][f.t] = row[s][f.t]
    BY <1>0, <2>3 DEF Starting
  <2> QED BY <2>1, <2>4 DEF CalmInv, ReadyInv
<1>6. RecordedInv'
  <2>1. SUFFICES ASSUME NEW w \in Workers, WorkerSite[w] # Home, job'[w].at = "recorded",
                        row'[WorkerSite[w]][job'[w].t].state = "source-capturing"
                 PROVE  job'[w].snap = Top
    BY <1>1 DEF RecordedInv
  <2>2. job'[w] = job[w]
    BY <2>1, NoJobIsJob DEF Starting
  <2>3. job[w].t \in DOMAIN transfers /\ WorkerSite[w] \in Sites
    BY <2>1, <2>2, JobFacts, JobsPlaced
  <2>4. row'[WorkerSite[w]][job[w].t] = row[WorkerSite[w]][job[w].t]
    BY <2>3 DEF Starting
  <2> QED BY <2>1, <2>2, <2>4 DEF CalmInv, RecordedInv
<1> QED BY <1>2, <1>3, <1>4, <1>5, <1>6

LEMMA StartKeepsOffers ==
  ASSUME AuthorityInv, CalmInv, NEW t, NEW e, Starting(t, e)
  PROVE  OfferInv'
<1>0. Home \in Sites /\ \A s \in Suitcases : s \in Sites /\ s # Home
  BY HomeIsSite
<1>1. SUFFICES ASSUME NEW s \in Suitcases, NEW u \in DOMAIN transfers'
               PROVE  OfferOf(s, u, incoming[s], row[s][u], row[Home][u])' /\ GivesOwn(s, u)'
  BY DEF OfferInv, OfferOf, GivesOwn, Offered
<1>2. Longer(incoming'[s], incoming[s], e) /\ e.op = "requested" /\ e.t = t
      /\ outgoing'[s] = outgoing[s]
  BY DEF Starting
<1>3. CASE u \in DOMAIN transfers
  <2>1. /\ row'[s][u] = row[s][u] /\ row'[Home][u] = row[Home][u] /\ u # t
        /\ Source(u)' = Source(u)
    BY <1>0, <1>3 DEF Starting
  <2>2. OfferOf(s, u, incoming[s], row[s][u], row[Home][u]) /\ GivesOwn(s, u)
    BY <1>3, OfferParts DEF CalmInv
  <2>3. OfferOf(s, u, incoming'[s], row[s][u], row[Home][u])
    BY <1>2, <2>1, <2>2, OfferLonger
  <2>4. OfferOf(s, u, incoming[s], row[s][u], row[Home][u])'
    BY <2>1, <2>3 DEF OfferOf
  <2> QED BY <1>2, <2>1, <2>2, <2>4 DEF GivesOwn, Told, Outs
<1>4. CASE u = t
  <2>1. row'[s][u].snap = 0 /\ row'[Home][u].snap = 0
    BY <1>4 DEF Starting
  <2>2. \A i \in DOMAIN outgoing'[s] : outgoing'[s][i].t # u
    BY <1>4 DEF Starting
  <2>3. \A i \in DOMAIN incoming'[s] : incoming'[s][i].t = u => incoming'[s][i].op = "requested"
    <3>1. \A i \in DOMAIN incoming[s] : incoming[s][i].t # u
      BY <1>4 DEF Starting
    <3> QED BY <1>2, <3>1 DEF Longer
  <2>4. GivesOwn(s, u)'
    BY <2>1, <2>2 DEF GivesOwn, Told, Outs
  <2> QED BY <2>1, <2>3, <2>4 DEF OfferOf, Offers, Restored
<1> QED BY <1>3, <1>4 DEF Starting

LEMMA StartKeepsCalm ==
  ASSUME AuthorityInv, AuthorityInv', CalmInv, ~ torn', NEW target \in Sites, NEW how,
         StartTransfer(target, how)
  PROVE  CalmInv'
<1>1. PICK t, e : Starting(t, e)
  BY StartIsStarting
<1>2. SentInv' /\ EndsInv' /\ OrderInv'
  BY <1>1, StartKeepsOrder
<1>3. OutgoingInv' /\ IncomingInv' /\ HandoverInv' /\ ReadyInv' /\ RecordedInv'
  BY <1>1, StartKeepsStreams
<1>4. OfferInv'
  BY <1>1, StartKeepsOffers
<1>5. BehindInv'
  BY <1>1, BehindAsBefore DEF CalmInv, Starting
<1> QED BY <1>2, <1>3, <1>4, <1>5 DEF CalmInv

-----------------------------------------------------------------------------
(* The writer makes a snapshot, and says so.                               *)
Capturing(x, p, e) ==
  /\ writer[Home] = x /\ Latest(x) = Top /\ AuthorityOf(Top) = x /\ Top \in Nat
  /\ p = Top + 1 /\ Top' = p /\ Latest(x)' = p /\ AuthorityOf(p)' = x
  /\ \A n \in 0..Top : AuthorityOf(n)' = AuthorityOf(n)
  /\ \A y \in Sites : Latest(y) \in 0..Top /\ (y # x => Latest(y)' = Latest(y))
  /\ transfers' = transfers /\ row' = row /\ writer' = writer
  /\ e \in Events /\ e.op = "created" /\ e.t = 0 /\ e.snap = p
  /\ Posts(x, e)
  /\ x = Home => Spreads(e)
  /\ x # Home => Longer(outgoing'[x], outgoing[x], e)
  /\ \A t \in DOMAIN transfers : row[Home][t].state \in Active => ~ Underway(t)
  /\ \A w \in Workers :
       /\ WorkerSite[w] = x /\ x # Home /\ job'[w].at = "recorded"
       /\ row[x][job'[w].t].state = "source-capturing"
       => job'[w].snap = p
  /\ \A w \in Workers : WorkerSite[w] # x => job'[w] \in {job[w], NoJob}

LEMMA MadeIsNewest ==
  ASSUME AuthorityInv, AuthorityInv', NEW x \in Sites, NEW m, NEW p, Extends(m),
         m.authority = x, Made(x, m, p), UNCHANGED <<transfers, row, writer>>
  PROVE  /\ Top \in Nat /\ p = Top + 1 /\ Top' = p /\ Latest(x)' = p /\ AuthorityOf(p)' = x
         /\ \A n \in 0..Top : AuthorityOf(n)' = AuthorityOf(n)
         /\ \A y \in Sites : Latest(y) \in 0..Top /\ (y # x => Latest(y)' = Latest(y))
<1>1. TypesInv /\ LineInv /\ TypesInv'
  BY DEF AuthorityInv
<1>2. /\ LineInv' /\ Top \in Nat /\ p = Top + 1 /\ Top' = p /\ snapshots' \in Seq(Snapshot)
      /\ \A n \in 1..Top : snapshots'[n] = snapshots[n]
      /\ AuthorityOf(p)' = x /\ known'[x] = known[x] \cup {p}
      /\ \A y \in Sites : y # x => known'[y] = known[y]
      /\ \A y \in Sites : known[y] \subseteq known'[y]
  BY <1>1, LineExtended
<1>3. Grown
  BY <1>1, <1>2 DEF TypesInv, Grown, Top
<1>a. p \in Nat /\ Home \in Sites
  BY <1>2, HomeIsSite
<1>4. Latest(x)' = p
  <2>1. Latest(x)' = IF Latest(x) < p THEN p ELSE Latest(x)
    BY <1>1, <1>2, <1>3, <1>a, LatestAdded
  <2>2. Latest(x) \in 0..Top
    BY <1>1, LatestFacts DEF Top
  <2> QED BY <1>2, <2>1, <2>2
<1>5. \A y \in Sites : Latest(y) \in 0..Top /\ (y # x => Latest(y)' = Latest(y))
  BY <1>1, <1>2, <1>3, LatestGrows
<1>6. \A n \in 0..Top : AuthorityOf(n)' = AuthorityOf(n)
  BY <1>2 DEF AuthorityOf
<1> QED BY <1>2, <1>4, <1>5, <1>6

LEMMA CaptureKeepsRows ==
  ASSUME AuthorityInv, AuthorityInv', CalmInv, NEW x \in Sites, NEW p, NEW e, Capturing(x, p, e)
  PROVE  SentInv' /\ EndsInv' /\ OrderInv' /\ ReadyInv' /\ OfferInv' /\ RecordedInv'
<1>0. /\ Home \in Sites /\ \A s \in Suitcases : s \in Sites /\ s # Home
      /\ transfers' = transfers /\ row' = row
      /\ \A t \in DOMAIN transfers : t # 0 /\ t \in Nat
  BY HomeIsSite, HandoffsAreTransfers DEF Capturing
<1>1. SentInv' /\ EndsInv'
  BY <1>0 DEF CalmInv, SentInv, Owed, EndsInv, Source
<1>2. ASSUME NEW s \in Suitcases
      PROVE  /\ outgoing'[s] = outgoing[s] \/ Longer(outgoing'[s], outgoing[s], e)
             /\ incoming'[s] = incoming[s] \/ Longer(incoming'[s], incoming[s], e)
             /\ e.op = "created" /\ e.t = 0
  BY DEF Capturing, Posts
<1>3. OrderInv'
  <2>1. SUFFICES ASSUME NEW s \in Suitcases, NEW t \in DOMAIN transfers, ~ Closed(row[s][t])
                 PROVE  /\ Closed(row[Home][t])
                             => \E i \in DOMAIN incoming'[s] : Ends(incoming'[s][i], t)
                        /\ \A u \in DOMAIN transfers : t < u => row[s][u].state = "none"
                        /\ \A i \in DOMAIN incoming'[s] : t < incoming'[s][i].t =>
                             \E j \in DOMAIN incoming'[s] : j < i /\ Ends(incoming'[s][j], t)
    BY <1>0 DEF OrderInv
  <2>2. /\ Closed(row[Home][t]) => \E i \in DOMAIN incoming[s] : Ends(incoming[s][i], t)
        /\ \A u \in DOMAIN transfers : t < u => row[s][u].state = "none"
        /\ \A i \in DOMAIN incoming[s] : t < incoming[s][i].t =>
             \E j \in DOMAIN incoming[s] : j < i /\ Ends(incoming[s][j], t)
    BY <2>1 DEF CalmInv, OrderInv
  <2>3. CASE incoming'[s] = incoming[s]
    BY <2>2, <2>3
  <2>4. CASE Longer(incoming'[s], incoming[s], e)
    <3>1. t \in Nat /\ ~ (t < e.t)
      BY <1>0, <1>2
    <3>2. /\ \A i \in DOMAIN incoming'[s] : t < incoming'[s][i].t =>
               \E j \in DOMAIN incoming'[s] : j < i /\ Ends(incoming'[s][j], t)
          /\ (\E i \in DOMAIN incoming[s] : Ends(incoming[s][i], t))
               => \E i \in DOMAIN incoming'[s] : Ends(incoming'[s][i], t)
      BY <2>2, <2>4, <3>1, OrderLonger
    <3> QED BY <2>2, <3>2
  <2> QED BY <1>2, <2>3, <2>4
<1>4. ReadyInv'
  <2>1. SUFFICES ASSUME NEW s \in Suitcases, NEW i \in DOMAIN outgoing'[s],
                        outgoing'[s][i].op = "target-ready"
                 PROVE  /\ row[Home][outgoing'[s][i].t].snap # 0
                        /\ row[Home][outgoing'[s][i].t].state \notin Restored
                        /\ row[s][outgoing'[s][i].t].state \in Restored \cup Broken
                        /\ \A j \in DOMAIN outgoing'[s] :
                             /\ outgoing'[s][j].op = "target-ready"
                             /\ outgoing'[s][j].t = outgoing'[s][i].t
                             => i = j
    BY <1>0 DEF ReadyInv
  <2>2. \A j \in DOMAIN outgoing'[s] : outgoing'[s][j].op = "target-ready" =>
          j \in DOMAIN outgoing[s] /\ outgoing'[s][j] = outgoing[s][j]
    BY <1>2, LongerFacts
  <2> QED BY <2>1, <2>2 DEF CalmInv, ReadyInv
<1>5. OfferInv'
  <2>1. SUFFICES ASSUME NEW s \in Suitcases, NEW t \in DOMAIN transfers
                 PROVE  OfferOf(s, t, incoming'[s], row[s][t], row[Home][t]) /\ GivesOwn(s, t)'
    BY <1>0, OfferPartsAfter
  <2>2. OfferOf(s, t, incoming[s], row[s][t], row[Home][t]) /\ GivesOwn(s, t)
    BY OfferParts DEF CalmInv
  <2>3. OfferOf(s, t, incoming'[s], row[s][t], row[Home][t])
    <3>1. CASE incoming'[s] = incoming[s]
      BY <2>2, <3>1
    <3>2. CASE Longer(incoming'[s], incoming[s], e)
      BY <1>0, <1>2, <2>2, <3>2, OfferLonger
    <3> QED BY <1>2, <3>1, <3>2
  <2>4. \A j \in DOMAIN outgoing'[s] : outgoing'[s][j].op = "snapshot-ready" =>
          j \in DOMAIN outgoing[s] /\ outgoing'[s][j] = outgoing[s][j]
    BY <1>2 DEF Longer
  <2> QED BY <1>0, <2>2, <2>3, <2>4 DEF GivesOwn, Told, Outs, Source
<1>6. RecordedInv'
  <2>1. SUFFICES ASSUME NEW w \in Workers, WorkerSite[w] # Home, job'[w].at = "recorded",
                        row[WorkerSite[w]][job'[w].t].state = "source-capturing"
                 PROVE  job'[w].snap = p
    BY <1>0 DEF RecordedInv, Capturing
  <2>2. CASE WorkerSite[w] = x
    BY <2>1, <2>2 DEF Capturing
  <2>3. CASE WorkerSite[w] # x
    <3>1. job'[w] = job[w]
      BY <2>1, <2>3, NoJobIsJob DEF Capturing
    <3>2. job[w].snap = Top
      BY <2>1, <3>1 DEF CalmInv, RecordedInv
    <3>3. AuthorityOf(job[w].snap) = WorkerSite[w]
      BY <2>1, <3>1, JobsPlaced
    <3> QED BY <2>3, <3>2, <3>3 DEF Capturing
  <2> QED BY <2>2, <2>3
<1> QED BY <1>1, <1>3, <1>4, <1>5, <1>6

(* The writer hears nothing of a snapshot.                                 *)
LEMMA WriterHearsNone ==
  ASSUME AuthorityInv, CalmInv, NEW s \in Suitcases, Latest(s) = Top, AuthorityOf(Top) = s
  PROVE  NoSnaps(incoming[s])
<1>1. Latest(Home) \in 0..Top /\ Top \in Nat
  BY TopIsOfTheWriter
<1>2. SUFFICES ASSUME NEW i \in DOMAIN incoming[s], HasSnap(incoming[s][i]) PROVE FALSE
  BY DEF NoSnaps
<1>3. /\ Top <= incoming[s][i].snap /\ incoming[s][i].snap <= Latest(Home)
      /\ incoming[s][i].op = "committed" => Top < incoming[s][i].snap
  BY <1>2 DEF CalmInv, IncomingInv, Ordered
<1>4. incoming[s][i].snap \in Nat
  BY StreamTypes DEF AuthorityInv
<1>5. incoming[s][i].snap = Top /\ incoming[s][i].op # "committed"
  BY <1>1, <1>3, <1>4
<1>6. incoming[s][i].op \in {"created", "snapshot-ready"}
  BY <1>2, <1>5 DEF HasSnap
<1> QED BY <1>5, <1>6 DEF CalmInv, IncomingInv

LEMMA CaptureKeepsStreams ==
  ASSUME AuthorityInv, AuthorityInv', CalmInv, NEW x \in Sites, NEW p, NEW e, Capturing(x, p, e)
  PROVE  OutgoingInv' /\ IncomingInv' /\ HandoverInv'
<1>0. /\ Home \in Sites /\ \A s \in Suitcases : s \in Sites /\ s # Home
      /\ transfers' = transfers /\ row' = row /\ writer' = writer /\ HasSnap(e)
      /\ Top \in Nat /\ p = Top + 1 /\ p \in Nat /\ Top' = p /\ e.snap = p
      /\ e.op = "created" /\ TypesInv /\ \A y \in Sites : Latest(y) \in 0..Top /\ Latest(y) \in Nat
  BY HomeIsSite DEF Capturing, HasSnap, AuthorityInv
<1>1. ASSUME NEW s \in Suitcases
      PROVE  /\ outgoing'[s] = outgoing[s] \/ (s = x /\ Longer(outgoing'[s], outgoing[s], e))
             /\ incoming'[s] = incoming[s] \/ (x = Home /\ Longer(incoming'[s], incoming[s], e))
             /\ x = Home => Longer(incoming'[s], incoming[s], e)
  BY DEF Capturing, Posts, Spreads
<1>2. ASSUME NEW s \in Suitcases
      PROVE  /\ s = writer[Home] => Ordered(outgoing'[s], Latest(Home)', p)
             /\ s # writer[Home] => NoSnaps(outgoing'[s])
             /\ \A i \in DOMAIN outgoing'[s] : HasSnap(outgoing'[s][i]) =>
                  AuthorityOf(outgoing[s][i].snap)' = s /\ outgoing'[s][i].snap <= Latest(s)'
  <2>1. /\ s = writer[Home] => Ordered(outgoing[s], Latest(Home), Top)
        /\ s # writer[Home] => NoSnaps(outgoing[s])
        /\ \A i \in DOMAIN outgoing[s] : HasSnap(outgoing[s][i]) =>
             AuthorityOf(outgoing[s][i].snap) = s /\ outgoing[s][i].snap <= Latest(s)
    BY DEF CalmInv, OutgoingInv
  <2>2. ASSUME NEW i \in DOMAIN outgoing[s], HasSnap(outgoing[s][i]),
               outgoing'[s][i] = outgoing[s][i]
        PROVE  AuthorityOf(outgoing[s][i].snap)' = s /\ outgoing'[s][i].snap <= Latest(s)'
    <3>1. PICK n \in 0..Top : n = outgoing[s][i].snap /\ n <= Latest(s) /\ AuthorityOf(n) = s
      <4>1. outgoing[s][i].snap \in Nat
        BY <1>0, StreamTypes
      <4> QED BY <1>0, <2>1, <2>2, <4>1
    <3>2. AuthorityOf(n)' = s
      BY <3>1 DEF Capturing
    <3>3. n <= Latest(s)'
      BY <1>0, <3>1 DEF Capturing
    <3>4. AuthorityOf(outgoing[s][i].snap)' = AuthorityOf(n)'
      BY <2>2, <3>1 DEF AuthorityOf
    <3> QED BY <2>2, <3>1, <3>2, <3>3, <3>4
  <2>3. CASE s # x
    <3>1. outgoing'[s] = outgoing[s] /\ s # writer[Home]
      BY <1>1, <2>3 DEF Capturing
    <3> QED BY <2>1, <2>2, <3>1
  <2>4. CASE s = x
    <3>1. Longer(outgoing'[s], outgoing[s], e)
      BY <1>0, <2>4 DEF Capturing
    <3>2. s = writer[Home] /\ Latest(Home)' = Latest(Home) /\ Latest(s)' = p
      BY <1>0, <2>4 DEF Capturing
    <3>3. Ordered(outgoing'[s], Latest(Home), p)
      BY <1>0, <2>1, <3>1, <3>2, OrderedMore
    <3>4. ASSUME NEW i \in DOMAIN outgoing'[s], HasSnap(outgoing'[s][i])
          PROVE  AuthorityOf(outgoing[s][i].snap)' = s /\ outgoing'[s][i].snap <= Latest(s)'
      <4>1. CASE outgoing'[s][i] = e
        <5>1. AuthorityOf(outgoing[s][i].snap)' = AuthorityOf(p)'
          BY <1>0, <4>1 DEF AuthorityOf, Capturing
        <5> QED BY <1>0, <2>4, <3>2, <4>1, <5>1 DEF Capturing
      <4>2. CASE i \in DOMAIN outgoing[s] /\ outgoing'[s][i] = outgoing[s][i]
        BY <2>2, <3>4, <4>2
      <4> QED BY <3>1, <4>1, <4>2 DEF Longer
    <3> QED BY <3>2, <3>3, <3>4
  <2> QED BY <2>3, <2>4
<1>3. OutgoingInv'
  BY <1>0, <1>2 DEF OutgoingInv
<1>4. ASSUME NEW s \in Suitcases
      PROVE  /\ Ordered(incoming'[s], Latest(s)', Latest(Home)')
             /\ \A i \in DOMAIN incoming'[s] :
                  incoming'[s][i].op \in {"created", "snapshot-ready"} =>
                    AuthorityOf(incoming[s][i].snap)' # s
  <2>1. /\ Ordered(incoming[s], Latest(s), Latest(Home))
        /\ \A i \in DOMAIN incoming[s] :
             incoming[s][i].op \in {"created", "snapshot-ready"} =>
               AuthorityOf(incoming[s][i].snap) # s
    BY DEF CalmInv, IncomingInv
  <2>2. ASSUME NEW i \in DOMAIN incoming[s], incoming'[s][i] = incoming[s][i],
               incoming[s][i].op \in {"created", "snapshot-ready"}
        PROVE  AuthorityOf(incoming[s][i].snap)' # s
    <3>1. incoming[s][i].snap \in Nat /\ HasSnap(incoming[s][i])
      BY <1>0, <2>2, StreamTypes DEF HasSnap
    <3>2. incoming[s][i].snap <= Latest(Home)
      BY <2>1, <3>1 DEF Ordered
    <3>3. PICK n \in 0..Top : n = incoming[s][i].snap
      BY <1>0, <3>1, <3>2
    <3>4. AuthorityOf(n)' # s
      BY <2>1, <2>2, <3>3 DEF Capturing
    <3>5. AuthorityOf(incoming[s][i].snap)' = AuthorityOf(n)'
      BY <2>2, <3>3 DEF AuthorityOf
    <3> QED BY <3>4, <3>5
  <2>3. CASE x = Home
    <3>1. Longer(incoming'[s], incoming[s], e)
      BY <1>1, <2>3
    <3>2. /\ Latest(Home)' = p /\ Latest(Home) = Top /\ Latest(s)' = Latest(s)
          /\ AuthorityOf(p)' = Home
      BY <1>0, <2>3 DEF Capturing
    <3>3. Ordered(incoming'[s], Latest(s), p)
      BY <1>0, <2>1, <3>1, <3>2, OrderedMore
    <3>4. ASSUME NEW i \in DOMAIN incoming'[s], incoming'[s][i].op \in {"created", "snapshot-ready"}
          PROVE  AuthorityOf(incoming[s][i].snap)' # s
      <4>1. CASE incoming'[s][i] = e
        <5>1. AuthorityOf(incoming[s][i].snap)' = AuthorityOf(p)'
          BY <1>0, <4>1 DEF AuthorityOf, Capturing
        <5> QED BY <1>0, <3>2, <5>1
      <4>2. CASE i \in DOMAIN incoming[s] /\ incoming'[s][i] = incoming[s][i]
        BY <2>2, <3>4, <4>2
      <4> QED BY <3>1, <4>1, <4>2 DEF Longer
    <3> QED BY <3>2, <3>3, <3>4
  <2>4. CASE x # Home
    <3>1. incoming'[s] = incoming[s] /\ Latest(Home)' = Latest(Home)
      BY <1>0, <1>1, <2>4 DEF Capturing
    <3>2. CASE s # x
      <4>1. Latest(s)' = Latest(s)
        BY <1>0, <3>2 DEF Capturing
      <4> QED BY <2>1, <2>2, <3>1, <4>1
    <3>3. CASE s = x
      <4>1. NoSnaps(incoming[s])
        BY <3>3, WriterHearsNone DEF Capturing
      <4>2. Latest(s)' = p /\ Latest(Home) <= p /\ Latest(Home) \in Nat
        BY <1>0, <3>3 DEF Capturing
      <4>3. Ordered(incoming[s], p, Latest(Home))
        BY <1>0, <4>1, <4>2, OrderedNone
      <4> QED BY <2>2, <3>1, <4>2, <4>3
    <3> QED BY <3>2, <3>3
  <2> QED BY <2>3, <2>4
<1>5. IncomingInv'
  BY <1>4 DEF IncomingInv
<1>6. HandoverInv'
  <2>1. SUFFICES ASSUME NEW t \in DOMAIN transfers, row[Home][t].state \in Active,
                        NEW s \in Suitcases, s = Source(t)
                 PROVE  /\ row[Home][t].snap # 0 => NoSnaps(outgoing'[s])
                        /\ \A i, j \in DOMAIN outgoing'[s] :
                             i < j /\ Offers(outgoing'[s][i], t) => ~ HasSnap(outgoing'[s][j])
    <3>1. SUFFICES ASSUME NEW t \in DOMAIN transfers, row[Home][t].state \in Active,
                          Source(t) # Home
                   PROVE  /\ row[Home][t].snap # 0 => NoSnaps(outgoing'[Source(t)])
                          /\ \A i, j \in DOMAIN outgoing'[Source(t)] :
                               i < j /\ Offers(outgoing'[Source(t)][i], t)
                                 => ~ HasSnap(outgoing'[Source(t)][j])
      BY <1>0 DEF HandoverInv, Source
    <3>2. Source(t) \in Suitcases
      BY <1>0, <3>1, TypeFacts DEF Sites
    <3> QED BY <2>1, <3>1, <3>2
  <2>2. /\ row[Home][t].snap # 0 => NoSnaps(outgoing[s])
        /\ \A i, j \in DOMAIN outgoing[s] :
             i < j /\ Offers(outgoing[s][i], t) => ~ HasSnap(outgoing[s][j])
    BY <1>0, <2>1 DEF CalmInv, HandoverInv
  <2>3. CASE s # x
    <3>1. outgoing'[s] = outgoing[s]
      BY <1>1, <2>3
    <3> QED BY <2>2, <3>1
  <2>4. CASE s = x
    <3>1. row[Home][t].snap = 0 /\ ~ Told(s, "snapshot-ready", t)
      <4>1. SUFFICES ASSUME row[Home][t].snap # 0 \/ Told(s, "snapshot-ready", t) PROVE FALSE
        OBVIOUS
      <4>2. row[Home][t].state \notin Broken
        BY <2>1 DEF Active, Broken
      <4>3. row[s][t].state \in Over \cup {"committed"}
        BY <1>0, <2>1, <4>1, <4>2 DEF AuthorityInv, HandoffInv, HandoffAt
      <4>4. row[s][t].state # "committed"
        BY <2>1 DEF CalmInv, EndsInv, Active
      <4>5. Underway(t)
        BY <2>1, <4>3, <4>4 DEF Underway
      <4> QED BY <2>1, <4>5 DEF Capturing
    <3>2. Longer(outgoing'[s], outgoing[s], e)
      BY <1>0, <2>4 DEF Capturing
    <3>3. \A i \in DOMAIN outgoing[s] : ~ Offers(outgoing[s][i], t)
      BY <3>1 DEF Told, Outs, Offers
    <3>4. \A i \in DOMAIN outgoing'[s] : ~ Offers(outgoing'[s][i], t)
      <4>1. ~ Offers(e, t)
        BY <1>0 DEF Offers
      <4> QED BY <3>2, <3>3, <4>1, LongerFacts
    <3> QED BY <3>1, <3>4
  <2> QED BY <2>3, <2>4
<1> QED BY <1>3, <1>5, <1>6

LEMMA CaptureKeepsCalm ==
  ASSUME AuthorityInv, AuthorityInv', CalmInv, NEW x \in Sites, NEW p, NEW e, Capturing(x, p, e)
  PROVE  CalmInv'
<1>1. BehindInv'
  <2>1. SUFFICES ASSUME NEW s \in Suitcases PROVE s = writer'[Home] \/ Latest(s)' <= Latest(Home)'
    BY DEF BehindInv
  <2>2. /\ s \in Sites /\ Home \in Sites /\ s # Home /\ Latest(s) \in Nat /\ Latest(Home) \in Nat
        /\ s = writer[Home] \/ Latest(s) <= Latest(Home)
    BY HomeIsSite DEF CalmInv, BehindInv, Capturing
  <2>3. CASE s = x
    BY <2>3 DEF Capturing
  <2>4. CASE s # x
    <3>1. Latest(s)' = Latest(s) /\ Latest(s) <= Top /\ writer' = writer
      BY <2>2, <2>4 DEF Capturing
    <3>2. CASE x = Home
      BY <2>2, <3>1, <3>2 DEF Capturing
    <3>3. CASE x # Home
      BY <2>2, <3>1, <3>3 DEF Capturing
    <3> QED BY <3>2, <3>3
  <2> QED BY <2>3, <2>4
<1> QED BY <1>1, CaptureKeepsRows, CaptureKeepsStreams DEF CalmInv

LEMMA RecordKeepsCalm ==
  ASSUME AuthorityInv, AuthorityInv', CalmInv, ~ torn', OnePass, NEW w \in Workers, NEW how,
         RecordSnapshot(w, how)
  PROVE  CalmInv'
<1>1. PICK x \in Sites, j \in Job : x = WorkerSite[w] /\ j = job[w]
  BY JobFacts DEF AuthorityInv
<1>2. PICK p : p = Len(snapshots) + 1
  OBVIOUS
<1>3. /\ TypesInv /\ TypesInv' /\ LineInv /\ JobSound(x, j) /\ j.at = "exported"
      /\ Top \in Nat /\ p = Top + 1 /\ Latest(x) \in 0..Top
  BY <1>1, <1>2, JobFacts, TypeFacts, LatestFacts DEF AuthorityInv, RecordSnapshot, Top
<1>4. j.snap = Latest(x)
  <2>1. Recordable(x, Manifest(x, j.snap, j.data), p, FALSE)
    BY <1>1, <1>2 DEF RecordSnapshot
  <2>2. Manifest(x, j.snap, j.data).parent = j.snap
    BY DEF Manifest
  <2> QED BY <1>3, <2>1, <2>2 DEF Recordable
<1>5. j.snap = Top /\ AuthorityOf(Top) = x /\ Latest(x) = Top
  BY <1>3, <1>4 DEF JobSound
<1>6. PICK m : m = Manifest(x, Top, j.data)
  OBVIOUS
<1>7. Extends(m) /\ m.authority = x
  <2>1. j.data \in SUBSET Writes
    BY DEF Job
  <2> QED BY <1>5, <1>6, <2>1, ManifestExtends
<1>8. Made(x, m, p)
  BY <1>1, <1>2, <1>3, <1>5, <1>6 DEF RecordSnapshot, Made
<1> DEFINE e == Event("created", 0, p)
<1>9. e \in Events /\ e.op = "created" /\ e.t = 0 /\ e.snap = p
  BY <1>3, EventIn DEF Ops
<1>10. Tells(x, <<e>>, how)
  BY <1>1, <1>2 DEF RecordSnapshot
<1> HIDE DEF e
<1>11. how = "done" /\ Emit(x, <<e>>)
  BY <1>10, CalmTells
<1>12. /\ Posts(x, e)
       /\ x = Home => Spreads(e)
       /\ x # Home => Longer(outgoing'[x], outgoing[x], e)
  BY <1>3, <1>9, <1>11, EmitSays
<1>13. /\ job \in [Workers -> Job] /\ job' \in [Workers -> Job]
       /\ job' = [job EXCEPT ![w] = [NoJob EXCEPT !.at = "recorded", !.t = job[w].t, !.snap = p]]
  BY <1>2, <1>3, <1>11 DEF RecordSnapshot, JobAfter, TypesInv
<1>14. job'[w].snap = p /\ \A v \in Workers : v # w => job'[v] = job[v]
  <2>1. job'[w] = [NoJob EXCEPT !.at = "recorded", !.t = job[w].t, !.snap = p]
    BY <1>13
  <2>2. job'[w].snap = p
    BY <2>1 DEF NoJob
  <2> QED BY <1>13, <2>2
<1>15. ASSUME NEW u \in DOMAIN transfers, row[Home][u].state \in Active, Underway(u)
       PROVE  FALSE
  <2>1. Top = Expected(u) + 1 /\ u = Len(transfers)
    BY <1>15 DEF AuthorityInv, UnderwayInv, TransfersInv
  <2>2. j.t \in DOMAIN transfers /\ Expected(j.t) = Top
    BY <1>3, <1>5 DEF JobSound
  <2>3. j.t <= u
    BY <1>3, <2>1, <2>2, TypeFacts
  <2>4. Expected(j.t) <= Expected(u) /\ Expected(u) \in Nat
    BY <1>3, <2>2, <2>3, TypeFacts DEF AuthorityInv, TransfersInv
  <2> QED BY <1>3, <2>1, <2>2, <2>4
<1>16. UNCHANGED <<transfers, row, writer>>
  BY DEF RecordSnapshot
<1>17. /\ Top' = p /\ Latest(x)' = p /\ AuthorityOf(p)' = x
       /\ \A n \in 0..Top : AuthorityOf(n)' = AuthorityOf(n)
       /\ \A y \in Sites : Latest(y) \in 0..Top /\ (y # x => Latest(y)' = Latest(y))
  BY <1>7, <1>8, <1>16, MadeIsNewest
<1>18. writer[Home] = x
  BY <1>5, TopIsOfTheWriter
<1>19. \A v \in Workers : WorkerSite[v] = x /\ x # Home => v = w
  BY <1>1 DEF OnePass
<1>20. Capturing(x, p, e)
  BY <1>1, <1>3, <1>5, <1>9, <1>12, <1>14, <1>15, <1>16, <1>17, <1>18, <1>19 DEF Capturing
<1> QED BY <1>20, CaptureKeepsCalm

LEMMA ScheduledKeepsCalm ==
  ASSUME AuthorityInv, AuthorityInv', CalmInv, ~ torn', NEW s \in Suitcases, NEW how,
         ScheduledCapture(s, how)
  PROVE  CalmInv'
<1>1. PICK p : p = Len(snapshots) + 1
  OBVIOUS
<1>2. /\ TypesInv /\ LineInv /\ s \in Sites /\ s # Home /\ Top \in Nat /\ p = Top + 1
      /\ Latest(s) # 0 /\ AuthorityOf(Latest(s)) = s
  BY <1>1, HomeIsSite, TypeFacts, AuthoritySiteFacts DEF AuthorityInv, ScheduledCapture, Top
<1>3. ASSUME NEW u \in DOMAIN transfers
      PROVE  row[s][u].state \notin Active
  <2>1. u \in Transfers
    BY HandoffsAreTransfers DEF AuthorityInv
  <2> QED BY <2>1 DEF ScheduledCapture, ActiveRows
<1>4. Latest(s) = Top
  BY <1>2, <1>3, OwnerHasTheNewest DEF Over, Active
<1>5. AuthorityOf(Top) = s /\ writer[Home] = s
  BY <1>2, <1>4, TopIsOfTheWriter
<1>6. PICK m : m = Manifest(s, Top, volume[s])
  OBVIOUS
<1>7. Extends(m) /\ m.authority = s
  <2>1. volume[s] \in SUBSET Writes
    BY <1>2 DEF TypesInv
  <2> QED BY <1>2, <1>5, <1>6, <2>1, ManifestExtends
<1>8. Made(s, m, p)
  BY <1>1, <1>2, <1>4, <1>6 DEF ScheduledCapture, Made
<1> DEFINE e == Event("created", 0, p)
<1>9. e \in Events /\ e.op = "created" /\ e.t = 0 /\ e.snap = p
  BY <1>2, EventIn DEF Ops
<1>10. Emit(s, <<e>>) /\ job' = job
  BY <1>1 DEF ScheduledCapture
<1> HIDE DEF e
<1>12. Posts(s, e) /\ Longer(outgoing'[s], outgoing[s], e)
  BY <1>2, <1>9, <1>10, EmitSays
<1>13. ASSUME NEW u \in DOMAIN transfers, row[Home][u].state \in Active, Underway(u)
       PROVE  FALSE
  <2>1. Source(u) = s
    BY <1>5, <1>13 DEF AuthorityInv, TransfersInv
  <2>2. row[s][u].state \notin Over
    BY <1>3 DEF Over, Active
  <2>3. PICK v \in Workers : /\ WorkerSite[v] = s /\ job[v].at = "recorded" /\ job[v].t = u
                             /\ row[s][u].state \notin Broken
    BY <1>13, <2>1, <2>2 DEF Underway, Recorded
  <2>4. row[s][u].state = "source-capturing"
    BY <1>2, <2>3, JobFacts DEF JobHasRow, AuthorityInv
  <2> QED BY <1>3, <2>4 DEF Active
<1>14. UNCHANGED <<transfers, row, writer>>
  BY DEF ScheduledCapture
<1>15. /\ Top' = p /\ Latest(s)' = p /\ AuthorityOf(p)' = s
       /\ \A n \in 0..Top : AuthorityOf(n)' = AuthorityOf(n)
       /\ \A y \in Sites : Latest(y) \in 0..Top /\ (y # s => Latest(y)' = Latest(y))
  BY <1>2, <1>7, <1>8, <1>14, MadeIsNewest
<1>16. ASSUME NEW v \in Workers, WorkerSite[v] = s, job[v].at = "recorded"
       PROVE  row[s][job[v].t].state # "source-capturing"
  <2>1. job[v].t \in DOMAIN transfers
    BY <1>2, <1>16, JobFacts DEF JobSound, AuthorityInv
  <2> QED BY <1>3, <2>1 DEF Active
<1>17. Capturing(s, p, e)
  BY <1>2, <1>4, <1>5, <1>9, <1>10, <1>12, <1>13, <1>14, <1>15, <1>16 DEF Capturing
<1> QED BY <1>2, <1>17, CaptureKeepsCalm

-----------------------------------------------------------------------------
(* Home commits: the target has the authority, and every suitcase hears.   *)
Committing(t, p, e) ==
  /\ t \in Transfers /\ t = Len(transfers) /\ row[Home][t].state = "target-ready"
  /\ row[Home][t].snap = Top /\ Top = Latest(Home) /\ Top \in Nat /\ Top # 0
  /\ AuthorityOf(Top) = Source(t) /\ Source(t) = writer[Home] /\ Source(t) # Target(t)
  /\ HandoffAt(t)
  /\ p = Top + 1 /\ Top' = p /\ Latest(Home)' = p
  /\ \A n \in 0..Top : AuthorityOf(n)' = AuthorityOf(n)
  /\ \A y \in Sites : Latest(y) \in 0..Top /\ (y # Home => Latest(y)' = Latest(y))
  /\ transfers' = transfers /\ writer'[Home] = Target(t) /\ OthersStay(Home, t) /\ JobsGo
  /\ row'[Home][t].state = "committed" /\ row'[Home][t].snap = p
  /\ e \in Events /\ e.op = "committed" /\ e.t = t /\ e.snap = p
  /\ \A s \in Suitcases : outgoing'[s] = outgoing[s] /\ Longer(incoming'[s], incoming[s], e)

LEMMA CommitKeepsRows ==
  ASSUME AuthorityInv, AuthorityInv', CalmInv, NEW t \in DOMAIN transfers, NEW p, NEW e,
         Committing(t, p, e)
  PROVE  EndsInv' /\ OrderInv' /\ OfferInv' /\ ReadyInv' /\ RecordedInv'
<1>0. /\ Home \in Sites /\ TypesInv /\ transfers' = transfers /\ t \in Transfers /\ t \in Nat
      /\ \A s \in Suitcases : s \in Sites /\ s # Home
      /\ \A u \in DOMAIN transfers : u \in Transfers /\ u \in Nat /\ u # 0 /\ u <= t
      /\ \A u \in DOMAIN transfers : Source(u)' = Source(u)
  <2>1. \A u \in DOMAIN transfers : u \in Transfers /\ u \in Nat /\ u # 0
    BY HandoffsAreTransfers
  <2>2. \A u \in DOMAIN transfers : u <= t
    BY TypeFacts DEF Committing, AuthorityInv
  <2> QED BY <2>1, <2>2, HomeIsSite DEF Committing, AuthorityInv, Source
<1>1. \A y \in Sites, u \in DOMAIN transfers : y # Home \/ u # t => row'[y][u] = row[y][u]
  BY <1>0 DEF Committing, OthersStay
<1>2. EndsInv'
  <2>1. SUFFICES ASSUME NEW s \in Suitcases, NEW u \in DOMAIN transfers
                 PROVE  /\ row'[s][u].state = "committed" => row'[Home][u].state = "committed"
                        /\ row'[s][u].state \in Broken /\ row'[s][u].snap = 0 =>
                             row'[Home][u].state \in Broken \/ s = Source(u)
    BY <1>0 DEF EndsInv
  <2>2. row'[s][u] = row[s][u]
    BY <1>0, <1>1
  <2>3. /\ row[s][u].state = "committed" => row[Home][u].state = "committed"
        /\ row[s][u].state \in Broken /\ row[s][u].snap = 0 =>
             row[Home][u].state \in Broken \/ s = Source(u)
    BY DEF CalmInv, EndsInv
  <2>4. CASE u = t
    BY <2>2, <2>3, <2>4 DEF Committing, Broken
  <2>5. CASE u # t
    BY <1>0, <1>1, <2>2, <2>3, <2>5
  <2> QED BY <2>4, <2>5
<1>3. OrderInv'
  <2>1. SUFFICES ASSUME NEW s \in Suitcases, NEW u \in DOMAIN transfers, ~ Closed(row[s][u])
                 PROVE  /\ Closed(row'[Home][u])
                             => \E i \in DOMAIN incoming'[s] : Ends(incoming'[s][i], u)
                        /\ \A v \in DOMAIN transfers : u < v => row[s][v].state = "none"
                        /\ \A i \in DOMAIN incoming'[s] : u < incoming'[s][i].t =>
                             \E j \in DOMAIN incoming'[s] : j < i /\ Ends(incoming'[s][j], u)
    <3>1. SUFFICES ASSUME NEW s \in Suitcases, NEW u \in DOMAIN transfers, ~ Closed(row'[s][u])
                   PROVE  /\ Closed(row'[Home][u])
                               => \E i \in DOMAIN incoming'[s] : Ends(incoming'[s][i], u)
                          /\ \A v \in DOMAIN transfers : u < v => row'[s][v].state = "none"
                          /\ \A i \in DOMAIN incoming'[s] : u < incoming'[s][i].t =>
                               \E j \in DOMAIN incoming'[s] : j < i /\ Ends(incoming'[s][j], u)
      BY <1>0 DEF OrderInv
    <3>2. \A v \in DOMAIN transfers : row'[s][v] = row[s][v]
      BY <1>0, <1>1
    <3> QED BY <2>1, <3>1, <3>2
  <2>2. /\ Closed(row[Home][u]) => \E i \in DOMAIN incoming[s] : Ends(incoming[s][i], u)
        /\ \A v \in DOMAIN transfers : u < v => row[s][v].state = "none"
        /\ \A i \in DOMAIN incoming[s] : u < incoming[s][i].t =>
             \E j \in DOMAIN incoming[s] : j < i /\ Ends(incoming[s][j], u)
    BY <2>1 DEF CalmInv, OrderInv
  <2>3. Longer(incoming'[s], incoming[s], e) /\ e.t = t /\ Ends(e, t) /\ u \in Nat
    BY <1>0 DEF Committing, Ends
  <2>4. u < t => \E j \in DOMAIN incoming[s] : Ends(incoming[s][j], u)
    BY <2>2, OldOnesClosed
  <2>5. /\ \A i \in DOMAIN incoming'[s] : u < incoming'[s][i].t =>
             \E j \in DOMAIN incoming'[s] : j < i /\ Ends(incoming'[s][j], u)
        /\ (\E i \in DOMAIN incoming[s] : Ends(incoming[s][i], u)) \/ Ends(e, u)
             => \E i \in DOMAIN incoming'[s] : Ends(incoming'[s][i], u)
    BY <2>2, <2>3, <2>4, OrderLonger
  <2>6. \E i \in DOMAIN incoming'[s] : Ends(incoming'[s][i], u)
    <3>1. u < t \/ u = t
      BY <1>0
    <3> QED BY <2>3, <2>4, <2>5, <3>1
  <2> QED BY <2>2, <2>5, <2>6
<1>4. OfferInv'
  <2>1. SUFFICES ASSUME NEW s \in Suitcases, NEW u \in DOMAIN transfers
                 PROVE  OfferOf(s, u, incoming'[s], row'[s][u], row'[Home][u]) /\ GivesOwn(s, u)'
    BY <1>0, OfferPartsAfter
  <2>2. OfferOf(s, u, incoming[s], row[s][u], row[Home][u]) /\ GivesOwn(s, u)
    BY OfferParts DEF CalmInv
  <2>3. /\ row'[s][u] = row[s][u] /\ outgoing'[s] = outgoing[s]
        /\ row'[Home][u].snap # 0 <=> row[Home][u].snap # 0
        /\ u # t => row'[Home][u] = row[Home][u]
    <3>1. row'[s][u] = row[s][u] /\ (u # t => row'[Home][u] = row[Home][u])
      BY <1>0, <1>1
    <3>2. u = t => row'[Home][u].snap # 0 /\ row[Home][u].snap # 0
      BY DEF Committing
    <3> QED BY <3>1, <3>2 DEF Committing
  <2>4. GivesOwn(s, u)'
    BY <1>0, <2>2, <2>3 DEF GivesOwn, Told, Outs
  <2>5. OfferOf(s, u, incoming[s], row[s][u], row'[Home][u])
    BY <2>2, <2>3 DEF OfferOf
  <2>6. ASSUME u = t
        PROVE  /\ row'[Home][u].snap # 0 /\ row[s][u].state # "committed"
               /\ \A j \in DOMAIN incoming[s] :
                    incoming[s][j].t = u => incoming[s][j].op # "committed"
    <3>1. row[s][u].state # "committed"
      BY <2>6 DEF CalmInv, EndsInv, Committing
    <3>2. SUFFICES ASSUME NEW j \in DOMAIN incoming[s], incoming[s][j].t = u,
                          incoming[s][j].op = "committed"
                   PROVE  FALSE
      BY <2>3, <2>6, <3>1 DEF Committing
    <3>3. InSound(s, incoming[s][j])
      BY <1>0, StreamTypes DEF AuthorityInv, EventsInv
    <3> QED BY <2>6, <3>2, <3>3 DEF InSound, EventSound, Committing
  <2>7. OfferOf(s, u, incoming'[s], row[s][u], row'[Home][u])
    <3>1. Longer(incoming'[s], incoming[s], e) /\ e.op = "committed" /\ e.t = t
      BY DEF Committing
    <3> QED BY <2>5, <2>6, <3>1, OfferLonger
  <2> QED BY <2>3, <2>4, <2>7
<1>5. ReadyInv'
  <2>0. \A s \in Suitcases : outgoing'[s] = outgoing[s]
    BY DEF Committing
  <2>1. SUFFICES ASSUME NEW s \in Suitcases, NEW i \in DOMAIN outgoing[s],
                        outgoing[s][i].op = "target-ready"
                 PROVE  /\ row'[Home][outgoing[s][i].t].snap # 0
                        /\ row'[Home][outgoing[s][i].t].state \notin Restored
                        /\ row'[s][outgoing[s][i].t].state \in Restored \cup Broken
                        /\ \A j \in DOMAIN outgoing[s] :
                             /\ outgoing[s][j].op = "target-ready"
                             /\ outgoing[s][j].t = outgoing[s][i].t
                             => i = j
    BY <2>0 DEF ReadyInv
  <2>2. /\ row[Home][outgoing[s][i].t].snap # 0
        /\ row[Home][outgoing[s][i].t].state \notin Restored
        /\ row[s][outgoing[s][i].t].state \in Restored \cup Broken
        /\ \A j \in DOMAIN outgoing[s] :
             outgoing[s][j].op = "target-ready" /\ outgoing[s][j].t = outgoing[s][i].t => i = j
    BY <2>1 DEF CalmInv, ReadyInv
  <2>3. outgoing[s][i].t \in DOMAIN transfers /\ outgoing[s][i].t # t
    <3>1. OutSound(s, outgoing[s][i])
      BY <1>0, StreamTypes DEF AuthorityInv, EventsInv
    <3>2. outgoing[s][i].t \in DOMAIN transfers
      BY <2>1, <3>1 DEF OutSound, EventSound
    <3> QED BY <2>2, <3>2 DEF Committing, Restored
  <2>4. row'[Home][outgoing[s][i].t] = row[Home][outgoing[s][i].t]
        /\ row'[s][outgoing[s][i].t] = row[s][outgoing[s][i].t]
    BY <1>0, <1>1, <2>3
  <2> QED BY <2>2, <2>4
<1>6. RecordedInv'
  <2>1. SUFFICES ASSUME NEW w \in Workers, WorkerSite[w] # Home, job'[w].at = "recorded",
                        row'[WorkerSite[w]][job'[w].t].state = "source-capturing"
                 PROVE  FALSE
    BY DEF RecordedInv
  <2>2. PICK s \in Sites, u \in Nat : s = WorkerSite[w] /\ u = job[w].t
    BY JobFacts DEF Job
  <2>3. job'[w] = job[w] /\ s \in Suitcases /\ u \in DOMAIN transfers
    <3>1. job'[w] # NoJob
      BY <2>1 DEF NoJob
    <3>2. job'[w] = job[w]
      BY <3>1 DEF Committing, JobsGo
    <3> QED BY <2>1, <2>2, <3>2, JobsPlaced DEF Sites
  <2>4. row[s][u].state = "source-capturing"
    BY <1>0, <1>1, <2>1, <2>2, <2>3
  <2>5. job[w].snap = Top
    BY <2>1, <2>2, <2>3, <2>4 DEF CalmInv, RecordedInv
  <2>6. s = Source(t)
    BY <2>1, <2>2, <2>3, <2>5, JobsPlaced DEF Committing
  <2>7. row[s][t].state \in Over \cup {"committed"}
    BY <1>0, <2>3, <2>6 DEF Committing, HandoffAt
  <2>8. u < t
    <3>1. u # t
      BY <2>4, <2>7 DEF Over
    <3> QED BY <1>0, <2>3, <3>1
  <2>9. ~ Closed(row[s][u])
    BY <2>4 DEF Closed, Broken
  <2>10. row[s][t].state = "none"
    BY <2>3, <2>8, <2>9 DEF CalmInv, OrderInv
  <2> QED BY <2>7, <2>10 DEF Over
<1> QED BY <1>2, <1>3, <1>4, <1>5, <1>6

LEMMA CommitKeepsStreams ==
  ASSUME AuthorityInv, AuthorityInv', CalmInv, NEW t \in DOMAIN transfers, NEW p, NEW e,
         Committing(t, p, e)
  PROVE  OutgoingInv' /\ IncomingInv' /\ HandoverInv'
<1>0. /\ Home \in Sites /\ TypesInv /\ transfers' = transfers
      /\ \A s \in Suitcases : s \in Sites /\ s # Home
      /\ Top \in Nat /\ p = Top + 1 /\ p \in Nat /\ Top' = p
      /\ Latest(Home)' = p /\ Top = Latest(Home)
      /\ HasSnap(e) /\ e.op = "committed" /\ e.snap = p
      /\ \A u \in DOMAIN transfers : u \in Transfers
  BY HomeIsSite, HandoffsAreTransfers DEF Committing, HasSnap, AuthorityInv
<1>1. ASSUME NEW s \in Suitcases
      PROVE  NoSnaps(outgoing[s])
  <2>1. CASE s = writer[Home]
    <3>1. Source(t) = s /\ Source(t) # Home /\ row[Home][t].state \in Active
          /\ row[Home][t].snap # 0
      BY <1>0, <2>1 DEF Committing, Active
    <3> QED BY <3>1 DEF CalmInv, HandoverInv
  <2>2. CASE s # writer[Home]
    BY <2>2 DEF CalmInv, OutgoingInv
  <2> QED BY <2>1, <2>2
<1>2. OutgoingInv'
  <2>1. SUFFICES ASSUME NEW s \in Suitcases
                 PROVE  Ordered(outgoing[s], p, p) /\ NoSnaps(outgoing[s])
    <3>1. SUFFICES ASSUME NEW s \in Suitcases
                   PROVE  /\ Ordered(outgoing'[s], Latest(Home)', Top') /\ NoSnaps(outgoing'[s])
      BY DEF OutgoingInv, NoSnaps
    <3>2. outgoing'[s] = outgoing[s]
      BY DEF Committing
    <3> QED BY <1>0, <2>1, <3>2
  <2> QED BY <1>0, <1>1, OrderedNone
<1>3. IncomingInv'
  <2>1. SUFFICES ASSUME NEW s \in Suitcases
                 PROVE  /\ Ordered(incoming'[s], Latest(s)', Latest(Home)')
                        /\ \A i \in DOMAIN incoming'[s] :
                             incoming'[s][i].op \in {"created", "snapshot-ready"} =>
                               AuthorityOf(incoming[s][i].snap)' # s
    BY DEF IncomingInv
  <2>2. /\ Ordered(incoming[s], Latest(s), Top)
        /\ \A i \in DOMAIN incoming[s] :
             incoming[s][i].op \in {"created", "snapshot-ready"} =>
               AuthorityOf(incoming[s][i].snap) # s
    BY <1>0 DEF CalmInv, IncomingInv
  <2>3. Longer(incoming'[s], incoming[s], e) /\ Latest(s)' = Latest(s) /\ Latest(s) \in 0..Top
    BY <1>0 DEF Committing
  <2>4. Ordered(incoming'[s], Latest(s), p)
    <3>1. Latest(s) \in Nat /\ Latest(s) < p
      BY <1>0, <2>3
    <3> QED BY <1>0, <2>2, <2>3, <3>1, OrderedMore
  <2>5. ASSUME NEW i \in DOMAIN incoming'[s],
               incoming'[s][i].op \in {"created", "snapshot-ready"}
        PROVE  AuthorityOf(incoming[s][i].snap)' # s
    <3>1. i \in DOMAIN incoming[s] /\ incoming'[s][i] = incoming[s][i]
      BY <1>0, <2>3, <2>5 DEF Longer
    <3>2. incoming[s][i].snap \in Nat /\ HasSnap(incoming[s][i])
      BY <1>0, <2>5, <3>1, StreamTypes DEF HasSnap
    <3>3. incoming[s][i].snap <= Top
      BY <2>2, <3>1, <3>2 DEF Ordered
    <3>4. PICK n \in 0..Top : n = incoming[s][i].snap
      BY <1>0, <3>2, <3>3
    <3>5. AuthorityOf(n)' # s
      BY <2>2, <2>5, <3>1, <3>4 DEF Committing
    <3>6. AuthorityOf(incoming[s][i].snap)' = AuthorityOf(n)'
      BY <3>1, <3>4 DEF AuthorityOf
    <3> QED BY <3>5, <3>6
  <2> QED BY <1>0, <2>3, <2>4, <2>5
<1>4. HandoverInv'
  <2>1. ASSUME NEW u \in DOMAIN transfers
        PROVE  row'[Home][u].state \notin Active
    <3>1. CASE u = t
      BY <3>1 DEF Committing, Active
    <3>2. CASE u # t
      <4>1. row'[Home][u] = row[Home][u]
        BY <1>0, <3>2 DEF Committing, OthersStay
      <4> QED BY <3>2, <4>1 DEF Committing, AuthorityInv, TransfersInv
    <3> QED BY <3>1, <3>2
  <2> QED BY <1>0, <2>1 DEF HandoverInv
<1> QED BY <1>2, <1>3, <1>4

LEMMA CommitKeepsCalm ==
  ASSUME AuthorityInv, AuthorityInv', CalmInv, ~ torn', OnePass, NEW w \in Workers,
         NEW t \in DOMAIN transfers, NEW how, CommitTransfer(w, t, how)
  PROVE  CalmInv'
<1>1. /\ TypesInv /\ TypesInv' /\ LineInv /\ Home \in Sites /\ t \in Transfers /\ t \in Nat
      /\ Top \in Nat /\ WorkerSite[w] = Home /\ row[Home][t].state = "target-ready"
      /\ row[Home][t].snap # 0
  BY HomeIsSite, HandoffsAreTransfers, TypeFacts
  DEF AuthorityInv, CommitTransfer, AtCommit, Committable, Top
<1>2. JobsEnd(Home) /\ JobsGo /\ transfers' = transfers
  BY <1>1, JobAfterEnds, JobsEndGo DEF CommitTransfer
<1>3. CASE ~ MayCommit(t)
  <2>1. FailTransfer(Home, t, FALSE, how) /\ SameLine
    BY <1>2, <1>3 DEF CommitTransfer, SameLine, SameSnapshots
  <2> QED BY <1>1, <1>2, <2>1, FailKeepsCalm
<1>4. CASE MayCommit(t)
  <2>0. /\ Top = row[Home][t].snap /\ Top = Expected(t) + 1 /\ Top # 0
        /\ t = Len(transfers) /\ AuthorityOf(Top) = Source(t) /\ HandoffAt(t)
    BY <1>1, <1>4, CommitsTheNewest
  <2>1. PICK k, p, q : k = row[Home][t].snap /\ p = Len(snapshots) + 1 /\ q = row[Home][t]
    OBVIOUS
  <2>2. k = Top /\ k \in 1..Top /\ k # 0 /\ p = Top + 1 /\ p \in Nat
    <3>1. k = Top /\ k # 0
      BY <2>0, <2>1
    <3>2. p = Top + 1
      BY <2>1 DEF Top
    <3> QED BY <1>1, <3>1, <3>2
  <2>3. snapshots[k].seq = k /\ snapshots[k].epoch \in Nat /\ snapshots[k].data \in SUBSET Writes
        /\ EpochOf(Top) = snapshots[k].epoch /\ Target(t) \in Sites
    BY <1>1, <2>2, KnownData, TypeFacts DEF LineInv, EpochOf, Top
  <2>4. PICK m : m = [authority |-> Target(t), epoch |-> snapshots[k].epoch + 1,
                      seq |-> snapshots[k].seq + 1, parent |-> k, data |-> snapshots[k].data]
    OBVIOUS
  <2>5. Extends(m)
    BY <1>1, <2>2, <2>3, <2>4 DEF Extends, Snapshot
  <2> DEFINE e == Event("committed", t, p)
  <2>6. e \in Events /\ e.op = "committed" /\ e.t = t /\ e.snap = p
    BY <1>1, <2>2, EventIn DEF Ops
  <2>7. Tells(Home, <<e>>, how)
    BY <1>4, <2>1 DEF CommitTransfer
  <2> HIDE DEF e
  <2>8. how = "done" /\ Emit(Home, <<e>>)
    BY <2>7, CalmTells
  <2>9. PICK r : r = [state |-> "committed", snap |-> p, resumed |-> FALSE,
                      sent |-> q.sent \cup {"committed"}]
    OBVIOUS
  <2>10. /\ snapshots' = Append(snapshots, m)
         /\ known' = [known EXCEPT ![Home] = known[Home] \cup {p}]
         /\ row' = [row EXCEPT ![Home][t] = r]
         /\ writer' = [writer EXCEPT ![Home] = Target(t)]
    BY <1>4, <2>1, <2>4, <2>8, <2>9 DEF CommitTransfer, Target, Noted
  <2>11. Made(Home, m, p)
    BY <2>2, <2>10 DEF Made
  <2>12. OthersStay(Home, t) /\ row'[Home][t] = r
    <3>1. TypesInv /\ Home \in Sites /\ t \in Transfers
      BY <1>1
    <3> QED BY <2>10, <3>1, RowSet
  <2>13. /\ LineInv' /\ Top' = p /\ snapshots' \in Seq(Snapshot)
         /\ \A n \in 1..Top : snapshots'[n] = snapshots[n]
         /\ known'[Home] = known[Home] \cup {p}
         /\ \A y \in Sites : y # Home => known'[y] = known[y]
         /\ \A y \in Sites : known[y] \subseteq known'[y]
    BY <1>1, <2>5, <2>11, LineExtended
  <2>14. Grown
    BY <1>1, <1>2, <2>2, <2>13 DEF Grown, Top
  <2>15. Latest(Home)' = p /\ Latest(Home) = Top
    <3>1. Latest(Home) = Top
      BY <1>4, <2>0 DEF MayCommit
    <3>2. Latest(Home)' = IF Latest(Home) < p THEN p ELSE Latest(Home)
      BY <1>1, <2>2, <2>13, <2>14, LatestAdded
    <3> QED BY <1>1, <2>2, <3>1, <3>2
  <2>16. \A y \in Sites : Latest(y) \in 0..Top /\ (y # Home => Latest(y)' = Latest(y))
    <3>1. \A y \in Sites : Latest(y) \in 0..Top
      BY <1>1, LatestFacts DEF Top
    <3> QED BY <1>1, <2>13, <2>14, <3>1, LatestGrows
  <2>17. \A n \in 0..Top : AuthorityOf(n)' = AuthorityOf(n)
    BY <1>1, <2>14, GrownFacts
  <2>18. \A s \in Suitcases : outgoing'[s] = outgoing[s] /\ Longer(incoming'[s], incoming[s], e)
    <3>1. Spreads(e)
      BY <1>1, <2>6, <2>8, EmitSays
    <3> QED BY <2>8, <3>1 DEF Spreads, Emit
  <2>19. writer'[Home] = Target(t)
    <3>1. writer \in [Sites -> Sites]
      BY <1>1 DEF TypesInv
    <3> QED BY <1>1, <2>10, <3>1
  <2>20. Source(t) = writer[Home] /\ Source(t) # Target(t)
    BY <1>1 DEF AuthorityInv, TransfersInv, Active
  <2>21. r.state = "committed" /\ r.snap = p /\ "committed" \in r.sent
    BY <2>9
  <2>22. Committing(t, p, e)
    BY <1>1, <1>2, <2>0, <2>2, <2>6, <2>12, <2>13, <2>15, <2>16, <2>17, <2>18, <2>19, <2>20,
       <2>21 DEF Committing
  <2>23. SentInv'
    <3>1. Owed(Home, t)' = {}
      BY <2>12, <2>21, NothingOwed
    <3> QED BY <1>1, <1>2, <2>12, <3>1, SentOfRow DEF CalmInv
  <2>24. BehindInv'
    <3>1. Home \in Sites /\ \A s \in Suitcases : s \in Sites /\ s # Home
      BY HomeIsSite
    <3>2. \A s \in Suitcases : Latest(s)' <= Latest(Home)'
      BY <2>22, <3>1 DEF Committing
    <3> QED BY <3>2 DEF BehindInv
  <2> QED BY <2>22, <2>23, <2>24, CommitKeepsRows, CommitKeepsStreams DEF CalmInv
<1> QED BY <1>3, <1>4

-----------------------------------------------------------------------------
(* The projection of an event.                                             *)
Marks(q, r, e) ==
  /\ Closed(r) <=> Closed(q) \/ e.op \in Broken \cup {"committed"}
  /\ r.state \in Broken => q.state \in Broken \/ e.op \in Broken
  /\ r.state = "source-capturing" => q.state = "source-capturing"
  /\ e.op = "snapshot-ready" /\ q.state \in Active \cup {"none"} => r.snap = e.snap
  /\ \/ r.snap = q.snap
     \/ e.op = "snapshot-ready" /\ q.state \in Active \cup {"none"}
     \/ e.op = "committed" /\ r.state = "committed" /\ r.snap = e.snap
  /\ r.sent = q.sent \/ q.state = "none"

LEMMA ProjectedSent ==
  ASSUME NEW q \in TransferRow, NEW e, NEW r, r = Projected(q, e)
  PROVE  r.sent = q.sent
<1>1. CASE e.op = "snapshot-ready" /\ q.state \in Active
  <2>1. r = [q EXCEPT !.snap = e.snap,
                      !.state = IF q.state \in {"requested", "source-capturing"}
                                THEN e.op ELSE q.state]
    BY <1>1 DEF Projected, Resumes, Broken
  <2> QED BY <2>1 DEF TransferRow
<1>2. CASE e.op = "target-ready" /\ q.state \in {"snapshot-ready", "target-restoring"}
  <2>1. r = [q EXCEPT !.state = e.op]
    BY <1>2 DEF Projected, Resumes, Broken
  <2> QED BY <2>1 DEF TransferRow
<1>3. CASE e.op = "committed" /\ q.state \notin Broken
  <2>1. r = [q EXCEPT !.state = e.op, !.snap = e.snap, !.resumed = FALSE]
    BY <1>3 DEF Projected, Resumes, Broken
  <2> QED BY <2>1 DEF TransferRow
<1>4. CASE e.op \in Broken /\ q.state # "committed"
  <2>1. r = [q EXCEPT !.state = e.op, !.resumed = e.resumed]
    BY <1>4 DEF Projected, Resumes, Broken
  <2> QED BY <2>1 DEF TransferRow
<1>5. CASE Resumes(q, e)
  <2>1. r = [q EXCEPT !.resumed = TRUE]
    BY <1>5 DEF Projected, Resumes, Broken
  <2> QED BY <2>1 DEF TransferRow
<1>6. CASE /\ ~ (e.op = "snapshot-ready" /\ q.state \in Active)
           /\ ~ (e.op = "target-ready" /\ q.state \in {"snapshot-ready", "target-restoring"})
           /\ ~ (e.op = "committed" /\ q.state \notin Broken)
           /\ ~ (e.op \in Broken /\ q.state # "committed")
           /\ ~ Resumes(q, e)
  <2>1. r = q
    BY <1>6 DEF Projected
  <2> QED BY <2>1
<1> QED BY <1>1, <1>2, <1>3, <1>4, <1>5, <1>6

LEMMA ProjectedMarks ==
  ASSUME NEW q \in TransferRow, NEW e \in Events, NEW r, r = Projected(q, e), q.state # "none"
  PROVE  Marks(q, r, e)
<1>1. r.sent = q.sent
  BY ProjectedSent
<1>2. e.op \in Broken \cup {"committed"} => e.op \notin {"snapshot-ready", "target-ready"}
  BY DEF Broken
<1>3. \/ /\ e.op = "snapshot-ready" /\ q.state \in Active
         /\ r.snap = e.snap
         /\ r.state = IF q.state \in {"requested", "source-capturing"} THEN "snapshot-ready"
                      ELSE q.state
      \/ /\ e.op = "target-ready" /\ q.state \in {"snapshot-ready", "target-restoring"}
         /\ r.state = "target-ready" /\ r.snap = q.snap
      \/ e.op = "committed" /\ q.state \notin Broken /\ r.state = "committed" /\ r.snap = e.snap
      \/ e.op \in Broken /\ q.state # "committed" /\ r.state = e.op /\ r.snap = q.snap
      \/ /\ e.op \notin Broken \/ q.state = "committed"
         /\ r.state = q.state /\ r.snap = q.snap
  BY ProjectedCases
<1>4. CASE e.op = "snapshot-ready"
  <2>1. e.op = "snapshot-ready" /\ q.state \in Active => r.snap = e.snap
    <3>1. SUFFICES ASSUME q.state \in Active PROVE r.snap = e.snap
      OBVIOUS
    <3>2. r = [q EXCEPT !.snap = e.snap,
                        !.state = IF q.state \in {"requested", "source-capturing"}
                                  THEN e.op ELSE q.state]
      BY <1>4, <3>1 DEF Projected, Resumes, Broken
    <3> QED BY <3>2 DEF TransferRow
  <2> QED BY <1>1, <1>3, <1>4, <2>1 DEF Marks, Closed, Active, Broken
<1>5. CASE e.op = "committed"
  <2>1. q.state \notin Broken => r.state = "committed" /\ r.snap = e.snap
    <3>1. SUFFICES ASSUME q.state \notin Broken PROVE r.state = "committed" /\ r.snap = e.snap
      OBVIOUS
    <3>2. r = [q EXCEPT !.state = e.op, !.snap = e.snap, !.resumed = FALSE]
      BY <1>5, <3>1 DEF Projected, Resumes, Broken
    <3> QED BY <1>5, <3>2 DEF TransferRow
  <2> QED BY <1>1, <1>3, <1>5, <2>1 DEF Marks, Closed, Broken
<1>6. CASE e.op \notin {"snapshot-ready", "committed"}
  BY <1>1, <1>3, <1>6 DEF Marks, Closed, Broken
<1> QED BY <1>4, <1>5, <1>6

(* Row q of handoff t at site y, which knows nothing of it or something.   *)
LEMMA RowMarks ==
  ASSUME AuthorityInv, NEW y \in Sites, NEW t \in Transfers, NEW e \in Events,
         NEW q, q = row[y][t], NEW r, r = Projected(RowAt(y, t), e)
  PROVE  Marks(q, r, e)
<1>1. q \in TransferRow /\ RowSound(y, t, q)
  BY RowFacts DEF AuthorityInv, RowsInv
<1>2. PICK a : a = RowAt(y, t)
  OBVIOUS
<1>3. CASE q = NoRow
  <2>1. a \in TransferRow /\ a.state = "requested" /\ a.snap = 0 /\ q.state = "none" /\ q.snap = 0
    <3>0. NoRow \in TransferRow /\ NoRow.state = "none" /\ NoRow.snap = 0
      BY DEF NoRow, TransferRow, States
    <3>1. PICK n \in TransferRow : n = NoRow /\ n.state = "none" /\ n.snap = 0
      BY <3>0
    <3>2. a = [n EXCEPT !.state = "requested", !.sent = {"requested"}]
      BY <1>2, <1>3, <3>1 DEF RowAt
    <3> QED BY <1>3, <3>1, <3>2 DEF TransferRow, States, Active, Ops
  <2>2. Marks(a, r, e)
    BY <1>2, <2>1, ProjectedMarks
  <2> QED BY <2>1, <2>2 DEF Marks, Closed, Active, Broken
<1>4. CASE q # NoRow
  <2>1. a = q /\ q.state # "none"
    BY <1>1, <1>2, <1>4 DEF RowAt, RowSound
  <2> QED BY <1>1, <1>2, <2>1, ProjectedMarks
<1> QED BY <1>3, <1>4

(* What a projection at site y leaves alone, and what it changes.          *)
Hearing(y, e) ==
  /\ e \in Events /\ Inward(y, e) /\ Accepts(y, e)
  /\ transfers' = transfers /\ job' = job /\ writer'[Home] = writer[Home]
  /\ Top' = Top /\ Top \in Nat /\ \A n \in 0..Top : AuthorityOf(n)' = AuthorityOf(n)
  /\ \A x \in Sites : Latest(x) \in 0..Top /\ (x # y => Latest(x)' = Latest(x))
  /\ Latest(y)' = IF Latest(y) < e.snap THEN e.snap ELSE Latest(y)
  /\ e.snap \in 0..Top /\ (e.t # 0 => e.t \in DOMAIN transfers /\ e.t \in Transfers)
  /\ \A x \in Sites, u \in DOMAIN transfers : x # y \/ u # e.t => row'[x][u] = row[x][u]
  /\ e.t # 0 => /\ Follows(y, e.t, row[y][e.t], row'[y][e.t], e)
                /\ Marks(row[y][e.t], row'[y][e.t], e)

LEMMA ProjectsHears ==
  ASSUME AuthorityInv, AuthorityInv', NEW y \in Sites, NEW e \in Events, Inward(y, e),
         Projects(y, e)
  PROVE  Hearing(y, e)
<1>1. /\ TypesInv /\ EventSound(e) /\ (y = Home => e.op # "committed") /\ Home \in Sites
      /\ outgoing' \in [Suitcases -> Seq(Events)] /\ incoming' \in [Suitcases -> Seq(Events)]
  BY HomeIsSite DEF AuthorityInv, TypesInv, Inward
<1>2. /\ transfers' = transfers /\ job' = job
      /\ Top' = Top /\ \A n \in 0..Top : AuthorityOf(n)' = AuthorityOf(n)
      /\ \A x \in Sites : Latest(x) \in 0..Top /\ (x # y => Latest(x)' = Latest(x))
      /\ Latest(y)' = IF Latest(y) < e.snap THEN e.snap ELSE Latest(y)
      /\ \A x \in Sites, u \in DOMAIN transfers : x # y \/ u # e.t => row'[x][u] = row[x][u]
      /\ e.t # 0 => Follows(y, e.t, row[y][e.t], row'[y][e.t], e)
  BY <1>1, ProjectFrame
<1>3. /\ writer' = IF e.op = "committed" THEN [writer EXCEPT ![y] = Target(e.t)] ELSE writer
      /\ Accepts(y, e)
      /\ e.t # 0 => row' = [row EXCEPT ![y][e.t] = Projected(RowAt(y, e.t), e)]
  BY DEF Projects, Target
<1>4. writer'[Home] = writer[Home]
  BY <1>1, <1>3 DEF TypesInv
<1>5. /\ Top \in Nat /\ e.snap \in 0..Top
      /\ e.t # 0 => e.t \in DOMAIN transfers /\ e.t \in Transfers
  BY <1>1, EventFacts, TypeFacts DEF Top
<1>6. ASSUME e.t # 0
      PROVE  Marks(row[y][e.t], row'[y][e.t], e)
  <2>1. PICK q, r : q = row[y][e.t] /\ r = Projected(RowAt(y, e.t), e)
    OBVIOUS
  <2>2. Marks(q, r, e)
    BY <1>5, <1>6, <2>1, RowMarks
  <2>3. row'[y][e.t] = r
    BY <1>1, <1>3, <1>5, <1>6, <2>1 DEF TypesInv
  <2> QED BY <2>1, <2>2, <2>3
<1> QED BY <1>2, <1>3, <1>4, <1>5, <1>6 DEF Hearing

LEMMA HearingOwesNothing ==
  ASSUME AuthorityInv, SentInv, NEW y \in Sites, NEW e, Hearing(y, e)
  PROVE  SentInv'
<1>1. SUFFICES ASSUME NEW x \in Sites, NEW t \in DOMAIN transfers PROVE Owed(x, t)' = {}
  BY DEF SentInv, Hearing
<1>2. Owed(x, t) = {} /\ transfers' = transfers /\ t # 0 /\ t \in Transfers
  BY HandoffsAreTransfers DEF SentInv, Hearing
<1>3. CASE x # y \/ t # e.t
  <2>1. row'[x][t] = row[x][t]
    BY <1>3 DEF Hearing
  <2> QED BY <1>2, <2>1 DEF Owed
<1>4. CASE x = y /\ t = e.t
  <2>1. PICK q, r : q = row[x][t] /\ r = row'[x][t]
    OBVIOUS
  <2>2. Follows(y, t, q, r, e) /\ Marks(q, r, e) /\ Inward(y, e)
    BY <1>2, <1>4, <2>1 DEF Hearing
  <2>3. SUFFICES ASSUME NEW op \in Owed(x, t)' PROVE FALSE
    OBVIOUS
  <2>4. /\ op \notin r.sent /\ op = r.state
        /\ \/ op = "snapshot-ready" /\ x = Source(t)
           \/ op = "target-ready" /\ x = Target(t)
           \/ op = "committed" /\ x = Home
    BY <1>2, <2>1, <2>3 DEF Owed, Source, Target
  <2>5. q.state = op
    <3>1. CASE op = "snapshot-ready"
      <4>1. e.op # "snapshot-ready"
        BY <1>4, <2>2, <2>4, <3>1 DEF Inward
      <4> QED BY <2>2, <2>4, <3>1, <4>1 DEF Follows, Over, Early
    <3>2. CASE op = "target-ready"
      <4>1. e.op # "target-ready"
        BY <1>4, <2>2, <2>4, <3>2 DEF Inward
      <4> QED BY <2>2, <2>4, <3>2, <4>1 DEF Follows
    <3>3. CASE op = "committed"
      <4>1. e.op # "committed"
        BY <1>4, <2>2, <2>4, <3>3 DEF Inward
      <4> QED BY <2>2, <2>4, <3>3, <4>1 DEF Follows
    <3> QED BY <2>4, <3>1, <3>2, <3>3
  <2>6. op \notin q.sent
    <3>1. r.sent = q.sent
      BY <2>2, <2>4, <2>5 DEF Marks
    <3> QED BY <2>4, <3>1
  <2>7. op \in Owed(x, t)
    <3>1. \/ op = "snapshot-ready" /\ x = transfers[t].source
          \/ op = "target-ready" /\ x = transfers[t].target
          \/ op = "committed" /\ x = Home
      BY <2>4 DEF Source, Target
    <3> QED BY <2>1, <2>5, <2>6, <3>1 DEF Owed
  <2> QED BY <1>2, <2>7
<1> QED BY <1>3, <1>4

-----------------------------------------------------------------------------
(* Home takes an event of a suitcase, and passes it to the others.         *)
Ingesting(s, e) ==
  /\ Hearing(Home, e) /\ OutSound(s, e) /\ e \in Outs(s) /\ 1 \in DOMAIN outgoing[s]
  /\ e = outgoing[s][1] /\ Shorter(outgoing'[s], outgoing[s]) /\ incoming'[s] = incoming[s]
  /\ \A o \in Suitcases : o # s =>
       outgoing'[o] = outgoing[o] /\ Longer(incoming'[o], incoming[o], e)

LEMMA IngestIsIngesting ==
  ASSUME AuthorityInv, AuthorityInv', NEW s \in Suitcases, IngestAtHome(s)
  PROVE  Ingesting(s, Head(outgoing[s]))
<1>1. /\ TypesInv /\ outgoing[s] \in Seq(Events) /\ outgoing[s] # << >>
      /\ outgoing \in [Suitcases -> Seq(Events)] /\ incoming \in [Suitcases -> Seq(Events)]
  BY DEF AuthorityInv, TypesInv, IngestAtHome
<1>2. PICK e : e = Head(outgoing[s])
  OBVIOUS
<1>3. /\ Shorter(Tail(outgoing[s]), outgoing[s]) /\ e = outgoing[s][1] /\ 1 \in DOMAIN outgoing[s]
  BY <1>1, <1>2, TailIsShorter
<1>4. e \in Events /\ e \in Outs(s)
  BY <1>1, <1>3, EventTypes DEF Outs
<1>5. OutSound(s, e) /\ Home \in Sites /\ s # Home /\ 0 \notin DOMAIN transfers
  BY <1>4, HomeIsSite, HandoffsAreTransfers DEF AuthorityInv, EventsInv
<1>6. Inward(Home, e) /\ Projects(Home, e)
  BY <1>2, <1>5 DEF IngestAtHome, Inward, OutSound
<1>7. Hearing(Home, e)
  BY <1>4, <1>5, <1>6, ProjectsHears
<1>8. /\ outgoing'[s] = Tail(outgoing[s])
      /\ \A o \in Suitcases : o # s => outgoing'[o] = outgoing[o]
  <2>1. PICK p : p = Tail(outgoing[s])
    OBVIOUS
  <2>2. outgoing' = [outgoing EXCEPT ![s] = p]
    BY <2>1 DEF IngestAtHome
  <2> QED BY <1>1, <2>1, <2>2
<1>9. incoming' = [o \in Suitcases |-> IF o = s THEN incoming[s] ELSE Append(incoming[o], e)]
  BY <1>2 DEF IngestAtHome
<1>10. incoming'[s] = incoming[s]
  BY <1>9
<1>11. ASSUME NEW o \in Suitcases, o # s
       PROVE  Longer(incoming'[o], incoming[o], e)
  <2>1. incoming'[o] = Append(incoming[o], e) /\ incoming[o] \in Seq(Events)
    BY <1>1, <1>9, <1>11
  <2> QED BY <1>4, <2>1, JoinedIsLonger
<1>12. Ingesting(s, e)
  BY <1>3, <1>4, <1>5, <1>7, <1>8, <1>10, <1>11 DEF Ingesting
<1> QED BY <1>2, <1>12

LEMMA HomeRowAfter ==
  ASSUME AuthorityInv, NEW e, Hearing(Home, e), NEW u \in DOMAIN transfers,
         NEW H, H = row[Home][u], NEW G, G = row'[Home][u]
  PROVE  /\ H.state \in Broken => G.state \in Broken
         /\ G.state \in Broken => H.state \in Broken \/ (u = e.t /\ e.op \in Broken)
         /\ H.state = "committed" <=> G.state = "committed"
         /\ H.snap # 0 => G.snap # 0
         /\ G.state \in Active => H.state \in Active
         /\ G.state \in Restored => H.state \in Restored \/ (u = e.t /\ e.op = "target-ready")
         /\ \/ G.snap = H.snap
            \/ u = e.t /\ e.op = "snapshot-ready" /\ H.state \in Active /\ G.snap # 0
         /\ u = e.t /\ e.op = "snapshot-ready" /\ H.state \in Active => G.snap # 0
         /\ Closed(G) => Closed(H) \/ (u = e.t /\ e.op \in Broken)
<1>1. Inward(Home, e) /\ e.op # "committed" /\ Home \in Sites /\ u # 0 /\ H.state # "none"
  BY HomeIsSite, HandoffsAreTransfers DEF Hearing, Inward, AuthorityInv, TransfersInv
<1>2. CASE u # e.t
  <2>1. G = H
    BY <1>1, <1>2 DEF Hearing
  <2> QED BY <1>2, <2>1
<1>3. CASE u = e.t
  <2>1. Follows(Home, u, H, G, e) /\ Marks(H, G, e)
    BY <1>1, <1>3 DEF Hearing
  <2>2. e.op = "snapshot-ready" => e.snap # 0 /\ e.snap \in Nat
    BY <1>1 DEF Inward, EventSound, Handed
  <2>3. H.state = "committed" <=> G.state = "committed"
    BY <1>1, <2>1 DEF Follows
  <2>4. H.snap # 0 => G.snap # 0
    BY <1>1, <2>1, <2>2 DEF Follows
  <2>5. \/ G.snap = H.snap
        \/ e.op = "snapshot-ready" /\ H.state \in Active /\ G.snap # 0
    BY <1>1, <2>1, <2>2 DEF Marks
  <2>6. e.op = "snapshot-ready" /\ H.state \in Active => G.snap # 0
    BY <2>1, <2>2 DEF Marks
  <2>7. /\ H.state \in Broken => G.state \in Broken
        /\ G.state \in Active => H.state \in Active
        /\ G.state \in Restored => H.state \in Restored \/ e.op = "target-ready"
    BY <1>1, <2>1 DEF Follows
  <2>8. /\ G.state \in Broken => H.state \in Broken \/ e.op \in Broken
        /\ Closed(G) => Closed(H) \/ e.op \in Broken
    BY <1>1, <2>1 DEF Marks
  <2> QED BY <1>3, <2>3, <2>4, <2>5, <2>6, <2>7, <2>8
<1> QED BY <1>2, <1>3

LEMMA IngestKeepsRows ==
  ASSUME AuthorityInv, CalmInv, NEW s \in Suitcases, NEW e, Ingesting(s, e)
  PROVE  EndsInv' /\ OrderInv' /\ RecordedInv'
<1>0. /\ Hearing(Home, e) /\ OutSound(s, e) /\ transfers' = transfers /\ Home \in Sites
      /\ \A o \in Suitcases : o \in Sites /\ o # Home
      /\ \A u \in DOMAIN transfers : u \in Nat /\ u # 0
  BY HomeIsSite, HandoffsAreTransfers DEF Ingesting, Hearing
<1>1. \A x \in Sites, u \in DOMAIN transfers : x # Home => row'[x][u] = row[x][u]
  BY <1>0 DEF Hearing
<1>2. \A u \in DOMAIN transfers :
        /\ row[Home][u].state \in Broken => row'[Home][u].state \in Broken
        /\ row[Home][u].state = "committed" => row'[Home][u].state = "committed"
        /\ Closed(row'[Home][u]) => Closed(row[Home][u]) \/ (u = e.t /\ e.op \in Broken)
  BY <1>0, HomeRowAfter
<1>3. EndsInv'
  <2>1. SUFFICES ASSUME NEW o \in Suitcases, NEW u \in DOMAIN transfers
                 PROVE  /\ row'[o][u].state = "committed" => row'[Home][u].state = "committed"
                        /\ row'[o][u].state \in Broken /\ row'[o][u].snap = 0 =>
                             row'[Home][u].state \in Broken \/ o = Source(u)
    BY <1>0 DEF EndsInv, Source
  <2>2. row'[o][u] = row[o][u]
    BY <1>0, <1>1
  <2>3. /\ row[o][u].state = "committed" => row[Home][u].state = "committed"
        /\ row[o][u].state \in Broken /\ row[o][u].snap = 0 =>
             row[Home][u].state \in Broken \/ o = Source(u)
    BY DEF CalmInv, EndsInv
  <2> QED BY <1>2, <2>2, <2>3
<1>4. OrderInv'
  <2>1. SUFFICES ASSUME NEW o \in Suitcases, NEW u \in DOMAIN transfers, ~ Closed(row[o][u])
                 PROVE  /\ Closed(row'[Home][u])
                             => \E i \in DOMAIN incoming'[o] : Ends(incoming'[o][i], u)
                        /\ \A v \in DOMAIN transfers : u < v => row[o][v].state = "none"
                        /\ \A i \in DOMAIN incoming'[o] : u < incoming'[o][i].t =>
                             \E j \in DOMAIN incoming'[o] : j < i /\ Ends(incoming'[o][j], u)
    <3>1. \A o \in Suitcases, u \in DOMAIN transfers : row'[o][u] = row[o][u]
      BY <1>0, <1>1
    <3> QED BY <1>0, <2>1, <3>1 DEF OrderInv
  <2>2. /\ Closed(row[Home][u]) => \E i \in DOMAIN incoming[o] : Ends(incoming[o][i], u)
        /\ \A v \in DOMAIN transfers : u < v => row[o][v].state = "none"
        /\ \A i \in DOMAIN incoming[o] : u < incoming[o][i].t =>
             \E j \in DOMAIN incoming[o] : j < i /\ Ends(incoming[o][j], u)
    BY <2>1 DEF CalmInv, OrderInv
  <2>3. CASE o = s
    <3>1. Closed(row'[Home][u]) => Closed(row[Home][u])
      <4>1. u = e.t /\ e.op \in Broken => row[s][u].state \in Broken
        BY <1>0 DEF OutSound
      <4> QED BY <1>2, <2>1, <2>3, <4>1 DEF Closed
    <3>2. incoming'[o] = incoming[o]
      BY <2>3 DEF Ingesting
    <3> QED BY <2>2, <3>1, <3>2
  <2>4. CASE o # s
    <3>1. Longer(incoming'[o], incoming[o], e) /\ u \in Nat
      BY <1>0, <2>4 DEF Ingesting
    <3>2. u < e.t => \E j \in DOMAIN incoming[o] : Ends(incoming[o][j], u)
      <4>1. SUFFICES ASSUME u < e.t PROVE Closed(row[Home][u])
        BY <2>2
      <4>2. e.t # 0
        BY <1>0, <4>1
      <4>3. e.t \in DOMAIN transfers
        BY <1>0, <4>2 DEF Hearing
      <4> QED BY <4>1, <4>3, OldOnesClosed
    <3>3. /\ \A i \in DOMAIN incoming'[o] : u < incoming'[o][i].t =>
               \E j \in DOMAIN incoming'[o] : j < i /\ Ends(incoming'[o][j], u)
          /\ (\E i \in DOMAIN incoming[o] : Ends(incoming[o][i], u)) \/ Ends(e, u)
               => \E i \in DOMAIN incoming'[o] : Ends(incoming'[o][i], u)
      BY <2>2, <3>1, <3>2, OrderLonger
    <3>4. Closed(row'[Home][u]) => Closed(row[Home][u]) \/ Ends(e, u)
      BY <1>2 DEF Ends
    <3> QED BY <2>2, <3>3, <3>4
  <2> QED BY <2>3, <2>4
<1>5. RecordedInv'
  <2>1. SUFFICES ASSUME NEW w \in Workers, WorkerSite[w] # Home, job[w].at = "recorded",
                        row'[WorkerSite[w]][job[w].t].state = "source-capturing"
                 PROVE  job[w].snap = Top
    BY <1>0 DEF RecordedInv, Hearing
  <2>2. JobSound(WorkerSite[w], job[w]) /\ WorkerSite[w] \in Sites
    BY JobFacts
  <2>3. job[w].t \in DOMAIN transfers
    BY <2>1, <2>2 DEF JobSound
  <2>4. row'[WorkerSite[w]][job[w].t] = row[WorkerSite[w]][job[w].t]
    BY <1>1, <2>1, <2>2, <2>3
  <2> QED BY <2>1, <2>4 DEF CalmInv, RecordedInv
<1> QED BY <1>3, <1>4, <1>5

(* What Home learns is the writer's next snapshot, or the one it has.      *)
LEMMA HomeLearns ==
  ASSUME AuthorityInv, CalmInv, NEW s \in Suitcases, NEW e, Ingesting(s, e)
  PROVE  /\ Latest(Home) \in Nat /\ Latest(s) \in Nat /\ Top \in Nat /\ e.snap \in Nat
         /\ ~ HasSnap(e) => Latest(Home)' = Latest(Home)
         /\ HasSnap(e) =>
              /\ s = writer[Home] /\ e.op # "committed" /\ AuthorityOf(e.snap) = s
              /\ Latest(Home) <= e.snap /\ e.snap <= Latest(Home) + 1
              /\ e.snap <= Top /\ e.snap <= Latest(s) /\ Latest(Home)' = e.snap
              /\ Ordered(outgoing'[s], e.snap, Top)
         /\ ~ HasSnap(e) /\ s = writer[Home] => Ordered(outgoing'[s], Latest(Home), Top)
<1>1. /\ Hearing(Home, e) /\ OutSound(s, e) /\ EventSound(e) /\ e.op # "committed"
      /\ 1 \in DOMAIN outgoing[s] /\ e = outgoing[s][1] /\ Shorter(outgoing'[s], outgoing[s])
      /\ Home \in Sites /\ s \in Sites /\ TypesInv /\ LineInv
  BY HomeIsSite DEF Ingesting, OutSound, AuthorityInv
<1>2. /\ Latest(Home) \in Nat /\ Latest(s) \in Nat /\ Top \in Nat /\ e.snap \in Nat
      /\ Latest(Home)' = IF Latest(Home) < e.snap THEN e.snap ELSE Latest(Home)
      /\ e.op \in Ops
  BY <1>1 DEF Hearing, Events
<1>3. /\ s = writer[Home] => Ordered(outgoing[s], Latest(Home), Top)
      /\ s # writer[Home] => NoSnaps(outgoing[s])
      /\ HasSnap(e) => AuthorityOf(e.snap) = s /\ e.snap <= Latest(s)
  BY <1>1 DEF CalmInv, OutgoingInv
<1>4. ASSUME HasSnap(e)
      PROVE  /\ s = writer[Home] /\ Latest(Home) <= e.snap /\ e.snap <= Latest(Home) + 1
             /\ e.snap <= Top /\ Ordered(outgoing'[s], e.snap, Top)
  <2>1. s = writer[Home]
    BY <1>1, <1>3, <1>4 DEF NoSnaps
  <2> QED BY <1>1, <1>2, <1>3, <1>4, <2>1, OrderedTail
<1>5. ASSUME ~ HasSnap(e)
      PROVE  /\ Latest(Home)' = Latest(Home)
             /\ s = writer[Home] => Ordered(outgoing'[s], Latest(Home), Top)
  <2>1. e.snap <= Latest(Home)
    <3>1. CASE e.op = "target-ready"
      <4>1. row[Home][e.t].snap # 0 /\ row[Home][e.t].state \notin Restored
        BY <1>1, <3>1 DEF CalmInv, ReadyInv
      <4>2. Handed(e.t, e.snap) /\ e.t # 0
        BY <1>1, <3>1 DEF EventSound
      <4>3. e.t \in Transfers
        BY <1>1, <4>2 DEF Hearing
      <4>4. RowSound(Home, e.t, row[Home][e.t])
        BY <1>1, <4>3 DEF AuthorityInv, RowsInv
      <4>5. Handed(e.t, row[Home][e.t].snap) /\ row[Home][e.t].snap \in known[Home]
        BY <4>1, <4>4 DEF RowSound, Restored
      <4>6. e.snap \in known[Home]
        BY <4>2, <4>5 DEF Handed
      <4> QED BY <1>1, <4>6, LatestFacts DEF IsLatest
    <3>2. CASE e.op # "target-ready"
      <4>1. e.snap = 0
        BY <1>1, <1>2, <1>5, <3>2 DEF EventSound, HasSnap, Ops, Broken
      <4> QED BY <1>2, <4>1
    <3> QED BY <3>1, <3>2
  <2>2. s = writer[Home] => Ordered(outgoing'[s], Latest(Home), Top)
    BY <1>1, <1>2, <1>3, <1>5, OrderedTail
  <2> QED BY <1>2, <2>1, <2>2
<1>6. HasSnap(e) => Latest(Home)' = e.snap
  BY <1>2, <1>4
<1> QED BY <1>1, <1>2, <1>3, <1>4, <1>5, <1>6

(* The site may know more of the snapshots it is told of only once.        *)
LEMMA OrderedWider ==
  ASSUME NEW L \in Nat, NEW M \in Nat, NEW N \in Nat, NEW q \in Seq(Events), Ordered(q, L, M),
         M <= N, N <= L
  PROVE  Ordered(q, L, N)
<1>1. (L + 1)..N = {}
  OBVIOUS
<1>2. \A i \in DOMAIN q : q[i].snap \in Nat
  BY EventTypes
<1>3. \A i \in DOMAIN q : HasSnap(q[i]) =>
        L <= q[i].snap /\ q[i].snap <= N /\ (q[i].op = "committed" => L < q[i].snap)
  BY <1>2 DEF Ordered
<1> QED BY <1>1, <1>3 DEF Ordered

(* The snapshot of an event keeps its authority.                           *)
LEMMA StreamAuthority ==
  ASSUME AuthorityInv, \A n \in 0..Top : AuthorityOf(n)' = AuthorityOf(n),
         NEW f \in Events, EventSound(f)
  PROVE  AuthorityOf(f.snap)' = AuthorityOf(f.snap)
<1>1. f.snap \in 0..Top
  BY EventFacts
<1> QED BY <1>1

LEMMA IngestKeepsOutgoing ==
  ASSUME AuthorityInv, CalmInv, NEW s \in Suitcases, NEW e, Ingesting(s, e)
  PROVE  OutgoingInv' /\ HandoverInv' /\ BehindInv'
<1>0. /\ Hearing(Home, e) /\ OutSound(s, e) /\ transfers' = transfers /\ Home \in Sites
      /\ \A o \in Suitcases : o \in Sites /\ o # Home
      /\ \A u \in DOMAIN transfers : u \in Nat /\ u # 0
      /\ writer'[Home] = writer[Home] /\ Top' = Top /\ Top \in Nat /\ TypesInv
      /\ \A n \in 0..Top : AuthorityOf(n)' = AuthorityOf(n)
  BY HomeIsSite, HandoffsAreTransfers DEF Ingesting, Hearing, AuthorityInv
<1>1. \A o \in Suitcases : Latest(o)' = Latest(o) /\ Latest(o) \in 0..Top
  BY <1>0 DEF Hearing
<1>2. ASSUME NEW o \in Suitcases
      PROVE  \A i \in DOMAIN outgoing'[o] :
               /\ i \in Nat
               /\ \E j \in DOMAIN outgoing[o] :
                    /\ outgoing'[o][i] = outgoing[o][j]
                    /\ j = IF o = s THEN i + 1 ELSE i
  <2>1. CASE o = s
    <3>1. \A i \in DOMAIN outgoing'[s] :
            i \in Nat /\ i + 1 \in DOMAIN outgoing[s] /\ outgoing'[s][i] = outgoing[s][i + 1]
      <4>1. Shorter(outgoing'[s], outgoing[s])
        BY DEF Ingesting
      <4> QED BY <4>1, ShorterFacts
    <3> QED BY <2>1, <3>1
  <2>2. CASE o # s
    <3>1. outgoing'[o] = outgoing[o]
      BY <2>2 DEF Ingesting
    <3> QED BY <1>0, <2>2, <3>1, StreamTypes
  <2> QED BY <2>1, <2>2
<1>3. OutgoingInv'
  <2>1. SUFFICES ASSUME NEW o \in Suitcases
                 PROVE  /\ o = writer[Home] => Ordered(outgoing'[o], Latest(Home)', Top)
                        /\ o # writer[Home] => NoSnaps(outgoing'[o])
                        /\ \A i \in DOMAIN outgoing'[o] : HasSnap(outgoing'[o][i]) =>
                             AuthorityOf(outgoing[o][i].snap)' = o
                             /\ outgoing'[o][i].snap <= Latest(o)'
    BY <1>0 DEF OutgoingInv
  <2>2. /\ o = writer[Home] => Ordered(outgoing[o], Latest(Home), Top)
        /\ o # writer[Home] => NoSnaps(outgoing[o])
        /\ \A i \in DOMAIN outgoing[o] : HasSnap(outgoing[o][i]) =>
             AuthorityOf(outgoing[o][i].snap) = o /\ outgoing[o][i].snap <= Latest(o)
    BY DEF CalmInv, OutgoingInv
  <2>3. ASSUME o = writer[Home]
        PROVE  Ordered(outgoing'[o], Latest(Home)', Top)
    <3>1. CASE o = s
      BY <2>3, <3>1, HomeLearns
    <3>2. CASE o # s
      <4>1. Latest(Home)' = Latest(Home) /\ outgoing'[o] = outgoing[o]
        BY <2>3, <3>2, HomeLearns DEF Ingesting
      <4> QED BY <2>2, <2>3, <4>1
    <3> QED BY <3>1, <3>2
  <2>4. o # writer[Home] => NoSnaps(outgoing'[o])
    BY <1>2, <2>2 DEF NoSnaps
  <2>5. ASSUME NEW i \in DOMAIN outgoing'[o], HasSnap(outgoing'[o][i])
        PROVE  AuthorityOf(outgoing[o][i].snap)' = o /\ outgoing'[o][i].snap <= Latest(o)'
    <3>1. PICK j \in DOMAIN outgoing[o] : outgoing'[o][i] = outgoing[o][j]
      BY <1>2
    <3>2. AuthorityOf(outgoing[o][j].snap) = o /\ outgoing[o][j].snap <= Latest(o)
          /\ outgoing[o][j].snap \in Nat
      BY <1>0, <2>2, <2>5, <3>1, StreamTypes
    <3>3. PICK n \in 0..Top : n = outgoing[o][j].snap
      BY <1>0, <1>1, <3>2
    <3>4. AuthorityOf(n)' = o
      BY <1>0, <3>2, <3>3
    <3>5. AuthorityOf(outgoing[o][i].snap)' = AuthorityOf(n)'
      BY <3>1, <3>3 DEF AuthorityOf
    <3> QED BY <1>1, <3>1, <3>2, <3>4, <3>5
  <2> QED BY <2>3, <2>4, <2>5
<1>4. HandoverInv'
  <2>1. SUFFICES ASSUME NEW u \in DOMAIN transfers, row'[Home][u].state \in Active,
                        NEW o \in Suitcases, o = Source(u)
                 PROVE  /\ row'[Home][u].snap # 0 => NoSnaps(outgoing'[o])
                        /\ \A i, j \in DOMAIN outgoing'[o] :
                             i < j /\ Offers(outgoing'[o][i], u) => ~ HasSnap(outgoing'[o][j])
    <3>1. SUFFICES ASSUME NEW u \in DOMAIN transfers, row'[Home][u].state \in Active,
                          Source(u) # Home
                   PROVE  /\ row'[Home][u].snap # 0 => NoSnaps(outgoing'[Source(u)])
                          /\ \A i, j \in DOMAIN outgoing'[Source(u)] :
                               i < j /\ Offers(outgoing'[Source(u)][i], u)
                                 => ~ HasSnap(outgoing'[Source(u)][j])
      BY <1>0 DEF HandoverInv, Source
    <3>2. Source(u) \in Suitcases
      BY <1>0, <3>1, TypeFacts DEF Sites
    <3> QED BY <2>1, <3>1, <3>2
  <2>2. /\ row[Home][u].state \in Active
        /\ \/ row'[Home][u].snap = row[Home][u].snap
           \/ u = e.t /\ e.op = "snapshot-ready"
    BY <1>0, <2>1, HomeRowAfter
  <2>3. /\ row[Home][u].snap # 0 => NoSnaps(outgoing[o])
        /\ \A i, j \in DOMAIN outgoing[o] :
             i < j /\ Offers(outgoing[o][i], u) => ~ HasSnap(outgoing[o][j])
    BY <1>0, <2>1, <2>2 DEF CalmInv, HandoverInv
  <2>4. ASSUME row'[Home][u].snap # 0
        PROVE  NoSnaps(outgoing'[o])
    <3>1. CASE row[Home][u].snap # 0
      BY <1>2, <2>3, <3>1 DEF NoSnaps
    <3>2. CASE u = e.t /\ e.op = "snapshot-ready"
      <4>1. o = s /\ 1 \in DOMAIN outgoing[o] /\ Offers(outgoing[o][1], u)
        BY <1>0, <2>1, <3>2 DEF OutSound, Ingesting, Offers
      <4>2. \A j \in DOMAIN outgoing[o] : 1 < j => ~ HasSnap(outgoing[o][j])
        BY <2>3, <4>1
      <4>3. \A i \in DOMAIN outgoing'[o] : i + 1 \in DOMAIN outgoing[o] /\ 1 < i + 1
              /\ outgoing'[o][i] = outgoing[o][i + 1]
        BY <4>1, ShorterFacts DEF Ingesting
      <4> QED BY <4>2, <4>3 DEF NoSnaps
    <3> QED BY <2>2, <2>4, <3>1, <3>2
  <2>5. ASSUME NEW i \in DOMAIN outgoing'[o], NEW j \in DOMAIN outgoing'[o], i < j,
               Offers(outgoing'[o][i], u)
        PROVE  ~ HasSnap(outgoing'[o][j])
    <3>1. i \in Nat /\ j \in Nat
      BY <1>2
    <3>2. PICK k \in DOMAIN outgoing[o] :
            outgoing'[o][i] = outgoing[o][k] /\ k = IF o = s THEN i + 1 ELSE i
      BY <1>2
    <3>3. PICK m \in DOMAIN outgoing[o] :
            outgoing'[o][j] = outgoing[o][m] /\ m = IF o = s THEN j + 1 ELSE j
      BY <1>2
    <3>4. k < m
      BY <2>5, <3>1, <3>2, <3>3
    <3> QED BY <2>3, <2>5, <3>2, <3>3, <3>4
  <2> QED BY <2>4, <2>5
<1>5. BehindInv'
  <2>1. Latest(Home) <= Latest(Home)' /\ Latest(Home) \in Nat /\ Latest(Home)' \in Nat
    BY HomeLearns
  <2>2. ASSUME NEW o \in Suitcases
        PROVE  o = writer'[Home] \/ Latest(o)' <= Latest(Home)'
    <3>1. o = writer[Home] \/ Latest(o) <= Latest(Home)
      BY DEF CalmInv, BehindInv
    <3>2. Latest(o)' = Latest(o) /\ Latest(o) \in Nat
      BY <1>0, <1>1
    <3> QED BY <1>0, <2>1, <3>1, <3>2
  <2> QED BY <2>2 DEF BehindInv
<1> QED BY <1>3, <1>4, <1>5

LEMMA IngestKeepsIncoming ==
  ASSUME AuthorityInv, CalmInv, NEW s \in Suitcases, NEW e, Ingesting(s, e)
  PROVE  IncomingInv'
<1>0. /\ Hearing(Home, e) /\ OutSound(s, e) /\ e \in Events /\ Home \in Sites
      /\ \A o \in Suitcases : o \in Sites /\ o # Home
      /\ Top \in Nat /\ TypesInv /\ \A n \in 0..Top : AuthorityOf(n)' = AuthorityOf(n)
      /\ EventSound(e)
  BY HomeIsSite DEF Ingesting, Hearing, AuthorityInv, OutSound
<1>1. SUFFICES ASSUME NEW o \in Suitcases
               PROVE  /\ Ordered(incoming'[o], Latest(o)', Latest(Home)')
                      /\ \A i \in DOMAIN incoming'[o] :
                           incoming'[o][i].op \in {"created", "snapshot-ready"} =>
                             AuthorityOf(incoming[o][i].snap)' # o
  BY DEF IncomingInv
<1>2. /\ Ordered(incoming[o], Latest(o), Latest(Home))
      /\ \A i \in DOMAIN incoming[o] :
           incoming[o][i].op \in {"created", "snapshot-ready"} =>
             AuthorityOf(incoming[o][i].snap) # o
  BY DEF CalmInv, IncomingInv
<1>3. /\ Latest(o)' = Latest(o) /\ Latest(o) \in Nat /\ Latest(Home) \in Nat
      /\ incoming[o] \in Seq(Events)
  BY <1>0, StreamTypes DEF Hearing
<1>4. ASSUME NEW i \in DOMAIN incoming[o], incoming'[o][i] = incoming[o][i],
             incoming[o][i].op \in {"created", "snapshot-ready"}
      PROVE  AuthorityOf(incoming[o][i].snap)' # o
  <2>1. PICK f \in Events : f = incoming[o][i] /\ EventSound(f)
    <3>1. incoming[o][i] \in Events /\ InSound(o, incoming[o][i])
      BY <1>0, StreamTypes DEF AuthorityInv, EventsInv
    <3> QED BY <3>1 DEF InSound
  <2>2. AuthorityOf(f.snap)' = AuthorityOf(f.snap)
    BY <1>0, <2>1, StreamAuthority
  <2>3. AuthorityOf(incoming[o][i].snap)' = AuthorityOf(f.snap)'
    BY <1>4, <2>1 DEF AuthorityOf
  <2> QED BY <1>2, <1>4, <2>1, <2>2, <2>3
<1>5. CASE o = s
  <2>1. incoming'[o] = incoming[o]
    BY <1>5 DEF Ingesting
  <2>2. Ordered(incoming[o], Latest(o), Latest(Home)')
    <3>1. CASE HasSnap(e)
      <4>1. /\ Latest(Home)' = e.snap /\ Latest(Home) <= e.snap /\ e.snap <= Latest(o)
            /\ e.snap \in Nat
        BY <1>5, <3>1, HomeLearns
      <4> QED BY <1>2, <1>3, <4>1, OrderedWider
    <3>2. CASE ~ HasSnap(e)
      BY <1>2, <3>2, HomeLearns
    <3> QED BY <3>1, <3>2
  <2> QED BY <1>3, <1>4, <2>1, <2>2
<1>6. CASE o # s
  <2>1. Longer(incoming'[o], incoming[o], e)
    BY <1>6 DEF Ingesting
  <2>2. Ordered(incoming'[o], Latest(o), Latest(Home)')
    <3>1. CASE HasSnap(e)
      <4>1. /\ s = writer[Home] /\ e.op # "committed" /\ Latest(Home)' = e.snap
            /\ Latest(Home) <= e.snap /\ e.snap <= Latest(Home) + 1 /\ e.snap \in Nat
        BY <3>1, HomeLearns
      <4>2. Latest(o) <= Latest(Home)
        BY <1>6, <4>1 DEF CalmInv, BehindInv
      <4>3. Latest(o) <= e.snap
        BY <1>3, <4>1, <4>2
      <4>4. PICK n \in Nat : n = e.snap
        BY <4>1
      <4>5. Ordered(incoming'[o], Latest(o), n)
        BY <1>2, <1>3, <2>1, <3>1, <4>1, <4>3, <4>4, OrderedMore
      <4> QED BY <4>1, <4>4, <4>5
    <3>2. CASE ~ HasSnap(e)
      BY <1>2, <1>3, <2>1, <3>2, HomeLearns, OrderedPlain
    <3> QED BY <3>1, <3>2
  <2>3. ASSUME NEW i \in DOMAIN incoming'[o],
               incoming'[o][i].op \in {"created", "snapshot-ready"}
        PROVE  AuthorityOf(incoming[o][i].snap)' # o
    <3>1. CASE i \in DOMAIN incoming[o] /\ incoming'[o][i] = incoming[o][i]
      BY <1>4, <2>3, <3>1
    <3>2. CASE incoming'[o][i] = e
      <4>1. AuthorityOf(e.snap) = s
        BY <2>3, <3>2, HomeLearns DEF HasSnap
      <4>2. AuthorityOf(e.snap)' = AuthorityOf(e.snap)
        BY <1>0, StreamAuthority
      <4>3. AuthorityOf(incoming[o][i].snap)' = AuthorityOf(e.snap)'
        BY <1>0, <3>2 DEF AuthorityOf, Hearing
      <4> QED BY <1>6, <4>1, <4>2, <4>3
    <3> QED BY <2>1, <3>1, <3>2 DEF Longer
  <2> QED BY <1>3, <2>2, <2>3
<1> QED BY <1>5, <1>6

LEMMA IngestKeepsReady ==
  ASSUME AuthorityInv, CalmInv, NEW s \in Suitcases, NEW e, Ingesting(s, e)
  PROVE  ReadyInv'
<1>0. /\ Hearing(Home, e) /\ OutSound(s, e) /\ TypesInv /\ 1 \in DOMAIN outgoing[s]
      /\ e = outgoing[s][1] /\ \A o \in Suitcases : o \in Sites /\ o # Home
  BY HomeIsSite DEF Ingesting, AuthorityInv
<1>1. SUFFICES ASSUME NEW o \in Suitcases, NEW i \in DOMAIN outgoing'[o], NEW f,
                      f = outgoing'[o][i], f.op = "target-ready"
               PROVE  /\ row'[Home][f.t].snap # 0 /\ row'[Home][f.t].state \notin Restored
                      /\ row'[o][f.t].state \in Restored \cup Broken
                      /\ \A j \in DOMAIN outgoing'[o] :
                           outgoing'[o][j].op = "target-ready" /\ outgoing'[o][j].t = f.t => i = j
  BY DEF ReadyInv
<1>2. \A k \in DOMAIN outgoing'[o] :
        /\ k \in Nat
        /\ o = s => k + 1 \in DOMAIN outgoing[o] /\ outgoing'[o][k] = outgoing[o][k + 1]
        /\ o # s => k \in DOMAIN outgoing[o] /\ outgoing'[o][k] = outgoing[o][k]
  <2>1. CASE o = s
    BY <2>1, ShorterFacts DEF Ingesting
  <2>2. CASE o # s
    <3>1. outgoing'[o] = outgoing[o]
      BY <2>2 DEF Ingesting
    <3> QED BY <1>0, <2>2, <3>1, StreamTypes
  <2> QED BY <2>1, <2>2
<1>3. PICK m \in DOMAIN outgoing[o] : outgoing[o][m] = f /\ (o = s => m = i + 1) /\ (o # s => m = i)
  BY <1>1, <1>2
<1>4. /\ row[Home][f.t].snap # 0 /\ row[Home][f.t].state \notin Restored
      /\ row[o][f.t].state \in Restored \cup Broken
      /\ \A j \in DOMAIN outgoing[o] :
           outgoing[o][j].op = "target-ready" /\ outgoing[o][j].t = f.t => m = j
  BY <1>1, <1>3 DEF CalmInv, ReadyInv
<1>5. f.t \in DOMAIN transfers /\ o = Target(f.t)
  <2>1. OutSound(o, f)
    BY <1>0, <1>3, StreamTypes DEF AuthorityInv, EventsInv
  <2> QED BY <1>1, <2>1 DEF OutSound, EventSound
<1>6. /\ row'[Home][f.t].snap # 0
      /\ row'[Home][f.t].state \in Restored => f.t = e.t /\ e.op = "target-ready"
  BY <1>0, <1>4, <1>5, HomeRowAfter
<1>7. row'[Home][f.t].state \notin Restored
  <2>1. SUFFICES ASSUME f.t = e.t, e.op = "target-ready" PROVE FALSE
    BY <1>6
  <2>2. o = s
    BY <1>0, <1>5, <2>1 DEF OutSound
  <2>3. m = 1
    BY <1>0, <1>4, <2>1, <2>2
  <2>4. Shorter(outgoing'[o], outgoing[o])
    BY <2>2 DEF Ingesting
  <2>5. i \in Nat /\ 1 < i + 1
    BY <1>1, <2>4, ShorterFacts
  <2> QED BY <1>3, <2>2, <2>3, <2>5
<1>8. row'[o][f.t] = row[o][f.t]
  BY <1>0, <1>5 DEF Hearing
<1>9. ASSUME NEW j \in DOMAIN outgoing'[o], outgoing'[o][j].op = "target-ready",
             outgoing'[o][j].t = f.t
      PROVE  i = j
  <2>1. CASE o = s
    <3>1. j + 1 = m
      BY <1>2, <1>4, <1>9, <2>1
    <3> QED BY <1>2, <1>3, <2>1, <3>1
  <2>2. CASE o # s
    BY <1>2, <1>3, <1>4, <1>9, <2>2
  <2> QED BY <2>1, <2>2
<1> QED BY <1>4, <1>6, <1>7, <1>8, <1>9

LEMMA IngestKeepsOffers ==
  ASSUME AuthorityInv, CalmInv, NEW s \in Suitcases, NEW e, Ingesting(s, e)
  PROVE  OfferInv'
<1>0. /\ Hearing(Home, e) /\ OutSound(s, e) /\ TypesInv /\ 1 \in DOMAIN outgoing[s]
      /\ e = outgoing[s][1] /\ e \in Outs(s) /\ transfers' = transfers /\ Home \in Sites
      /\ \A o \in Suitcases : o \in Sites /\ o # Home
  BY HomeIsSite DEF Ingesting, Hearing, AuthorityInv
<1>1. SUFFICES ASSUME NEW o \in Suitcases, NEW u \in DOMAIN transfers
               PROVE  OfferOf(o, u, incoming'[o], row'[o][u], row'[Home][u]) /\ GivesOwn(o, u)'
  BY <1>0, OfferPartsAfter
<1>2. PICK S, H, G : S = row[o][u] /\ H = row[Home][u] /\ G = row'[Home][u]
  OBVIOUS
<1>3. row'[o][u] = S /\ Source(u)' = Source(u) /\ u \in Transfers
  BY <1>0, <1>2, HandoffsAreTransfers DEF Hearing, Source
<1>4. OfferOf(o, u, incoming[o], S, H) /\ GivesOwn(o, u)
  BY <1>2, OfferParts DEF CalmInv
<1>5. /\ H.snap # 0 => G.snap # 0
      /\ \/ G.snap = H.snap
         \/ u = e.t /\ e.op = "snapshot-ready" /\ H.state \in Active /\ G.snap # 0
      /\ u = e.t /\ e.op = "snapshot-ready" /\ H.state \in Active => G.snap # 0
  BY <1>0, <1>2, HomeRowAfter
<1>6. u = e.t /\ e.op = "snapshot-ready" => s = Source(u) /\ Told(s, "snapshot-ready", u)
  BY <1>0 DEF OutSound, Told
<1>7. /\ S.state = "committed" => H.state = "committed"
      /\ S.state \in Broken /\ S.snap = 0 => H.state \in Broken \/ o = Source(u)
  BY <1>2 DEF CalmInv, EndsInv
<1>8. \A j \in DOMAIN incoming[o] : incoming[o][j].t = u =>
        /\ incoming[o][j].op = "committed" => H.state = "committed"
        /\ incoming[o][j].op \in Broken => H.state \in Broken
  <2>1. SUFFICES ASSUME NEW j \in DOMAIN incoming[o], incoming[o][j].t = u
                 PROVE  /\ incoming[o][j].op = "committed" => H.state = "committed"
                        /\ incoming[o][j].op \in Broken => H.state \in Broken
    OBVIOUS
  <2>2. InSound(o, incoming[o][j])
    BY <1>0, StreamTypes DEF AuthorityInv, EventsInv
  <2> QED BY <1>2, <2>1, <2>2 DEF InSound, EventSound
<1>9. GivesOwn(o, u)'
  <2>1. SUFFICES ASSUME o = Source(u), G.snap # 0 \/ Told(o, "snapshot-ready", u)'
                 PROVE  S.snap # 0
    BY <1>2, <1>3 DEF GivesOwn
  <2>2. CASE G.snap # 0
    <3>1. H.snap # 0 \/ Told(o, "snapshot-ready", u)
      BY <1>5, <1>6, <2>1, <2>2
    <3> QED BY <1>2, <1>4, <2>1, <3>1 DEF GivesOwn
  <2>3. CASE Told(o, "snapshot-ready", u)'
    <3>1. PICK i \in DOMAIN outgoing'[o] :
            outgoing'[o][i].op = "snapshot-ready" /\ outgoing'[o][i].t = u
      BY <2>3 DEF Told, Outs
    <3>2. \E m \in DOMAIN outgoing[o] : outgoing[o][m] = outgoing'[o][i]
      <4>1. CASE o = s
        <5>1. Shorter(outgoing'[o], outgoing[o])
          BY <4>1 DEF Ingesting
        <5>2. i + 1 \in DOMAIN outgoing[o] /\ outgoing[o][i + 1] = outgoing'[o][i]
          BY <5>1, ShorterFacts
        <5> QED BY <5>2
      <4>2. CASE o # s
        BY <4>2 DEF Ingesting
      <4> QED BY <4>1, <4>2
    <3>3. Told(o, "snapshot-ready", u)
      BY <3>1, <3>2 DEF Told, Outs
    <3> QED BY <1>2, <1>4, <2>1, <3>3 DEF GivesOwn
  <2> QED BY <2>1, <2>2, <2>3
<1>10. ASSUME G.snap = H.snap \/ H.snap # 0
       PROVE  OfferOf(o, u, incoming'[o], S, G)
  <2>1. OfferOf(o, u, incoming[o], S, G)
    <3>1. G.snap = H.snap
            \/ (G.snap # 0 /\ (S.snap # 0 \/ (S.state \notin Broken /\ Coming(incoming[o], u))))
      BY <1>4, <1>5, <1>10 DEF OfferOf
    <3> QED BY <1>4, <1>5, <3>1, OfferKept
  <2>2. CASE o = s
    BY <2>1, <2>2 DEF Ingesting
  <2>3. CASE o # s
    <3>1. Longer(incoming'[o], incoming[o], e)
      BY <2>3 DEF Ingesting
    <3>2. ASSUME e.t = u, e.op = "snapshot-ready", G.snap = 0
          PROVE  S.state \in Broken \/ \E j \in DOMAIN incoming[o] : Breaks(incoming[o][j], u)
      <4>1. H.state \in Broken
        <5>1. H.snap = 0 /\ H.state \notin Active
          BY <1>5, <3>2
        <5>2. H \in TransferRow /\ RowSound(Home, u, H) /\ H.state # "none"
          BY <1>0, <1>2, <1>3, RowFacts DEF AuthorityInv, RowsInv, TransfersInv
        <5>3. H.state \in States /\ H.state # "committed"
          BY <5>1, <5>2 DEF RowSound, TransferRow
        <5> QED BY <5>1, <5>2, <5>3 DEF States, Active
      <4>2. CASE Closed(S)
        BY <1>7, <4>1, <4>2 DEF Closed, Broken
      <4>3. CASE ~ Closed(S)
        <5>1. PICK j \in DOMAIN incoming[o] : Ends(incoming[o][j], u)
          BY <1>2, <4>1, <4>3 DEF CalmInv, OrderInv, Closed
        <5>2. incoming[o][j].op # "committed"
          BY <1>8, <4>1, <5>1 DEF Ends, Broken
        <5> QED BY <5>1, <5>2 DEF Ends, Breaks
      <4> QED BY <4>2, <4>3
    <3>3. ASSUME e.t = u, e.op \in Restored
          PROVE  /\ G.snap # 0 /\ S.state # "committed"
                 /\ \A j \in DOMAIN incoming[o] :
                      incoming[o][j].t = u => incoming[o][j].op # "committed"
      <4>1. e.op = "target-ready"
        BY <1>0, <3>3 DEF OutSound, Restored
      <4>2. H.snap # 0 /\ H.state \notin Restored
        BY <1>0, <1>2, <3>3, <4>1 DEF CalmInv, ReadyInv
      <4> QED BY <1>5, <1>7, <1>8, <4>2 DEF Restored
    <3> QED BY <2>1, <3>1, <3>2, <3>3, OfferLonger
  <2> QED BY <2>2, <2>3
<1>11. ASSUME G.snap # H.snap, H.snap = 0
       PROVE  OfferOf(o, u, incoming'[o], S, G)
  <2>1. u = e.t /\ e.op = "snapshot-ready" /\ H.state \in Active /\ G.snap # 0 /\ s = Source(u)
        /\ H.state \notin Broken
    BY <1>5, <1>6, <1>11 DEF Active, Broken
  <2>2. CASE o = s
    <3>1. S.snap # 0
      BY <1>2, <1>4, <1>6, <2>1, <2>2 DEF GivesOwn
    <3>2. OfferOf(o, u, incoming[o], S, G)
      BY <1>4, <1>11, <2>1, <3>1, OfferKept
    <3> QED BY <2>2, <3>2 DEF Ingesting
  <2>3. CASE o # s
    <3>1. Longer(incoming'[o], incoming[o], e)
      BY <2>3 DEF Ingesting
    <3>2. \A k \in DOMAIN incoming[o] :
            incoming[o][k].t = u => incoming[o][k].op \notin Broken \cup Restored
      BY <1>4, <1>8, <1>11, <2>1 DEF OfferOf
    <3>3. Coming(incoming'[o], u)
      BY <2>1, <3>1, <3>2, ComingLonger DEF Offers
    <3>4. S.snap = 0 /\ S.state \notin Broken
      <4>1. S.snap = 0
        BY <1>4, <1>11, <2>1, <2>3 DEF OfferOf
      <4> QED BY <1>7, <2>1, <2>3, <4>1
    <3>5. \A i \in DOMAIN incoming'[o] :
            ~ (incoming'[o][i].t = u /\ incoming'[o][i].op \in Restored)
      BY <2>1, <3>1, <3>2 DEF Longer, Restored
    <3> QED BY <2>1, <3>3, <3>4, <3>5 DEF OfferOf
  <2> QED BY <2>2, <2>3
<1> QED BY <1>2, <1>3, <1>9, <1>10, <1>11

LEMMA IngestKeepsCalm ==
  ASSUME AuthorityInv, AuthorityInv', CalmInv, NEW s \in Suitcases, IngestAtHome(s)
  PROVE  CalmInv'
<1>1. PICK e : Ingesting(s, e)
  BY IngestIsIngesting
<1>2. Hearing(Home, e) /\ Home \in Sites
  BY <1>1, HomeIsSite DEF Ingesting
<1>3. SentInv'
  BY <1>2, HearingOwesNothing DEF CalmInv
<1> QED BY <1>1, <1>3, IngestKeepsRows, IngestKeepsOutgoing, IngestKeepsIncoming,
        IngestKeepsReady, IngestKeepsOffers DEF CalmInv

-----------------------------------------------------------------------------
(* A suitcase takes an event of Home.                                      *)
Receiving(s, e) ==
  /\ Hearing(s, e) /\ InSound(s, e) /\ 1 \in DOMAIN incoming[s] /\ e = incoming[s][1]
  /\ Shorter(incoming'[s], incoming[s]) /\ outgoing' = outgoing
  /\ \A o \in Suitcases : o # s => incoming'[o] = incoming[o]

LEMMA ReceiveIsReceiving ==
  ASSUME AuthorityInv, AuthorityInv', NEW s \in Suitcases, ProjectAtSuitcase(s)
  PROVE  Receiving(s, Head(incoming[s]))
<1>1. /\ TypesInv /\ incoming[s] \in Seq(Events) /\ incoming[s] # << >>
      /\ incoming \in [Suitcases -> Seq(Events)]
  BY DEF AuthorityInv, TypesInv, ProjectAtSuitcase
<1>2. PICK e : e = Head(incoming[s])
  OBVIOUS
<1>3. /\ Shorter(Tail(incoming[s]), incoming[s]) /\ e = incoming[s][1] /\ 1 \in DOMAIN incoming[s]
  BY <1>1, <1>2, TailIsShorter
<1>4. e \in Events /\ e \in Ins(s)
  BY <1>1, <1>3, EventTypes DEF Ins
<1>5. InSound(s, e) /\ s \in Sites /\ s # Home
  BY <1>4, HomeIsSite DEF AuthorityInv, EventsInv
<1>6. Inward(s, e) /\ Projects(s, e) /\ outgoing' = outgoing
  BY <1>2, <1>5 DEF ProjectAtSuitcase, Inward, InSound
<1>7. Hearing(s, e)
  BY <1>4, <1>5, <1>6, ProjectsHears
<1>8. /\ incoming'[s] = Tail(incoming[s])
      /\ \A o \in Suitcases : o # s => incoming'[o] = incoming[o]
  <2>1. PICK p : p = Tail(incoming[s])
    OBVIOUS
  <2>2. incoming' = [incoming EXCEPT ![s] = p]
    BY <2>1 DEF ProjectAtSuitcase
  <2> QED BY <1>1, <2>1, <2>2
<1>9. Receiving(s, e)
  BY <1>3, <1>5, <1>6, <1>7, <1>8 DEF Receiving
<1> QED BY <1>2, <1>9

LEMMA SuitcaseRowAfter ==
  ASSUME AuthorityInv, NEW s \in Suitcases, NEW e, Receiving(s, e), NEW u \in DOMAIN transfers,
         NEW S, S = row[s][u], NEW R, R = row'[s][u], NEW H, H = row[Home][u]
  PROVE  /\ u # e.t => R = S
         /\ S.state \in Broken => R.state \in Broken
         /\ R.state \in Broken => S.state \in Broken \/ Breaks(e, u)
         /\ Closed(R) <=> Closed(S) \/ Ends(e, u)
         /\ R.state = "committed" => S.state = "committed" \/ (u = e.t /\ e.op = "committed")
         /\ \/ R.snap = S.snap
            \/ Offers(e, u) /\ S.state \in Active \cup {"none"} /\ R.snap # 0
            \/ u = e.t /\ e.op = "committed" /\ R.snap # 0
         /\ Offers(e, u) /\ S.state \in Active \cup {"none"} => R.snap # 0
         /\ R.state = "source-capturing" => S.state = "source-capturing"
         /\ S.state \in Restored \cup Broken => R.state \in Restored \cup Broken
         /\ Breaks(e, u) => H.state \in Broken /\ (S.state # "committed" => R.state \in Broken)
         /\ u = e.t /\ e.op = "committed" => H.state = "committed"
<1>1. /\ Hearing(s, e) /\ InSound(s, e) /\ EventSound(e) /\ s \in Sites /\ s # Home /\ u # 0
      /\ e \in Events
  BY HomeIsSite, HandoffsAreTransfers DEF Receiving, Hearing, InSound
<1>2. CASE u # e.t
  <2>1. R = S
    BY <1>1, <1>2 DEF Hearing
  <2> QED BY <1>2, <2>1 DEF Breaks, Ends, Offers
<1>3. CASE u = e.t
  <2>1. Follows(s, u, S, R, e) /\ Marks(S, R, e)
    BY <1>1, <1>3 DEF Hearing
  <2>2. e.op = "snapshot-ready" \/ e.op = "committed" => e.snap # 0
    <3>1. e.op = "snapshot-ready" => e.snap \in 1..Top
      BY <1>1 DEF EventSound, Handed
    <3>2. e.op = "committed" => e.snap \in 1..Top
      BY <1>1, EventFacts
    <3> QED BY <3>1, <3>2
  <2>3. \/ R.snap = S.snap
        \/ e.op = "snapshot-ready" /\ S.state \in Active \cup {"none"} /\ R.snap # 0
        \/ e.op = "committed" /\ R.snap # 0
    BY <2>1, <2>2 DEF Marks
  <2>4. e.op = "snapshot-ready" /\ S.state \in Active \cup {"none"} => R.snap # 0
    BY <2>1, <2>2 DEF Marks
  <2>5. /\ R.state \in Broken => S.state \in Broken \/ e.op \in Broken
        /\ Closed(R) <=> Closed(S) \/ e.op \in Broken \cup {"committed"}
        /\ R.state = "source-capturing" => S.state = "source-capturing"
    BY <2>1 DEF Marks
  <2>6. /\ S.state \in Broken => R.state \in Broken
        /\ R.state = "committed" => S.state = "committed" \/ e.op = "committed"
        /\ e.op \in Broken /\ S.state # "committed" => R.state \in Broken
        /\ S.state \in Restored => R.state \in Restored \/ e.op \in Broken
        /\ S.state = "committed" => R.state = "committed"
    BY <2>1 DEF Follows
  <2>7. S.state \in Restored \cup Broken => R.state \in Restored \cup Broken
    BY <2>6 DEF Restored
  <2>8. /\ e.op \in Broken => H.state \in Broken
        /\ e.op = "committed" => H.state = "committed"
    BY <1>1, <1>3 DEF InSound, EventSound
  <2> QED BY <1>3, <2>3, <2>4, <2>5, <2>6, <2>7, <2>8 DEF Breaks, Ends, Offers
<1> QED BY <1>2, <1>3

(* What a suitcase learns is the next snapshot, or one it has.             *)
LEMMA SuitcaseLearns ==
  ASSUME AuthorityInv, CalmInv, NEW s \in Suitcases, NEW e, Receiving(s, e)
  PROVE  /\ Latest(Home) \in Nat /\ Latest(s) \in Nat /\ Top \in Nat /\ e.snap \in Nat
         /\ Latest(Home)' = Latest(Home) /\ Latest(s) <= Latest(s)'
         /\ ~ HasSnap(e) => Latest(s)' = Latest(s)
         /\ HasSnap(e) => Latest(s)' = e.snap /\ e.snap <= Latest(Home)
         /\ Ordered(incoming'[s], Latest(s)', Latest(Home))
<1>1. /\ Hearing(s, e) /\ InSound(s, e) /\ EventSound(e) /\ Accepts(s, e) /\ e \in Events
      /\ 1 \in DOMAIN incoming[s] /\ e = incoming[s][1] /\ Shorter(incoming'[s], incoming[s])
      /\ Home \in Sites /\ s \in Sites /\ s # Home /\ TypesInv /\ LineInv
      /\ DOMAIN transfers \subseteq Transfers
  BY HomeIsSite, HandoffsAreTransfers DEF Receiving, Hearing, InSound, AuthorityInv
<1>2. /\ Latest(Home) \in Nat /\ Latest(s) \in Nat /\ Top \in Nat /\ e.snap \in Nat
      /\ Latest(Home)' = Latest(Home)
      /\ Latest(s)' = IF Latest(s) < e.snap THEN e.snap ELSE Latest(s)
  BY <1>1 DEF Hearing
<1>3. Ordered(incoming[s], Latest(s), Latest(Home))
  BY DEF CalmInv, IncomingInv
<1>4. CASE HasSnap(e)
  <2>1. /\ Latest(s) <= e.snap /\ e.snap <= Latest(Home)
        /\ Ordered(incoming'[s], e.snap, Latest(Home))
    BY <1>1, <1>2, <1>3, <1>4, OrderedTail
  <2>2. Latest(s)' = e.snap
    BY <1>2, <2>1
  <2> QED BY <1>2, <1>4, <2>1, <2>2
<1>5. CASE ~ HasSnap(e)
  <2>1. e.snap = 0 \/ e.snap \in known[s]
    <3>1. CASE e.op = "target-ready"
      <4>1. e.t \in DOMAIN transfers /\ RowAt(s, e.t).snap = e.snap
        BY <1>1, <3>1 DEF EventSound, Accepts
      <4>2. RowAt(s, e.t).snap = row[s][e.t].snap
        <5>1. /\ NoRow.snap = 0
              /\ [NoRow EXCEPT !.state = "requested", !.sent = {"requested"}].snap = 0
          BY DEF NoRow
        <5> QED BY <5>1 DEF RowAt
      <4>3. RowSound(s, e.t, row[s][e.t])
        BY <1>1, <4>1 DEF AuthorityInv, RowsInv
      <4> QED BY <4>1, <4>2, <4>3 DEF RowSound
    <3>2. CASE e.op # "target-ready"
      BY <1>1, <1>5, <3>2 DEF EventSound, HasSnap, Events, Ops, Broken
    <3> QED BY <3>1, <3>2
  <2>2. e.snap <= Latest(s)
    <3>1. IsLatest(Latest(s), known[s])
      BY <1>1, LatestFacts
    <3> QED BY <1>2, <2>1, <3>1 DEF IsLatest
  <2>3. Latest(s)' = Latest(s)
    BY <1>2, <2>2
  <2>4. Ordered(incoming'[s], Latest(s), Latest(Home))
    BY <1>1, <1>2, <1>3, <1>5, OrderedTail
  <2> QED BY <1>2, <1>5, <2>3, <2>4
<1> QED BY <1>4, <1>5

LEMMA ReceiveKeepsRows ==
  ASSUME AuthorityInv, CalmInv, NEW s \in Suitcases, NEW e, Receiving(s, e)
  PROVE  EndsInv' /\ OrderInv' /\ RecordedInv'
<1>0. /\ Hearing(s, e) /\ transfers' = transfers /\ job' = job /\ Top' = Top /\ Home \in Sites
      /\ 1 \in DOMAIN incoming[s] /\ e = incoming[s][1] /\ Shorter(incoming'[s], incoming[s])
      /\ \A o \in Suitcases : o \in Sites /\ o # Home
      /\ \A u \in DOMAIN transfers : u \in Nat /\ u # 0
  BY HomeIsSite, HandoffsAreTransfers DEF Receiving, Hearing
<1>1. \A x \in Sites, u \in DOMAIN transfers : x # s => row'[x][u] = row[x][u]
  BY <1>0 DEF Hearing
<1>2. \A u \in DOMAIN transfers :
        /\ u # e.t => row'[s][u] = row[s][u]
        /\ row'[s][u].state \in Broken => row[s][u].state \in Broken \/ Breaks(e, u)
        /\ Closed(row'[s][u]) <=> Closed(row[s][u]) \/ Ends(e, u)
        /\ row'[s][u].state = "committed"
             => row[s][u].state = "committed" \/ (u = e.t /\ e.op = "committed")
        /\ row[s][u].snap # 0 => row'[s][u].snap # 0
        /\ row'[s][u].state = "source-capturing" => row[s][u].state = "source-capturing"
        /\ Breaks(e, u) => row[Home][u].state \in Broken
        /\ u = e.t /\ e.op = "committed" => row[Home][u].state = "committed"
  BY SuitcaseRowAfter
<1>3. EndsInv'
  <2>1. SUFFICES ASSUME NEW o \in Suitcases, NEW u \in DOMAIN transfers
                 PROVE  /\ row'[o][u].state = "committed" => row'[Home][u].state = "committed"
                        /\ row'[o][u].state \in Broken /\ row'[o][u].snap = 0 =>
                             row'[Home][u].state \in Broken \/ o = Source(u)
    BY <1>0 DEF EndsInv, Source
  <2>2. row'[Home][u] = row[Home][u]
    BY <1>0, <1>1
  <2>3. /\ row[o][u].state = "committed" => row[Home][u].state = "committed"
        /\ row[o][u].state \in Broken /\ row[o][u].snap = 0 =>
             row[Home][u].state \in Broken \/ o = Source(u)
    BY DEF CalmInv, EndsInv
  <2>4. CASE o # s
    <3>1. row'[o][u] = row[o][u]
      BY <1>0, <1>1, <2>4
    <3> QED BY <2>2, <2>3, <3>1
  <2>5. CASE o = s
    BY <1>2, <2>2, <2>3, <2>5
  <2> QED BY <2>4, <2>5
<1>4. OrderInv'
  <2>1. SUFFICES ASSUME NEW o \in Suitcases, NEW u \in DOMAIN transfers, ~ Closed(row'[o][u])
                 PROVE  /\ Closed(row[Home][u])
                             => \E i \in DOMAIN incoming'[o] : Ends(incoming'[o][i], u)
                        /\ \A v \in DOMAIN transfers : u < v => row'[o][v].state = "none"
                        /\ \A i \in DOMAIN incoming'[o] : u < incoming'[o][i].t =>
                             \E j \in DOMAIN incoming'[o] : j < i /\ Ends(incoming'[o][j], u)
    <3>1. \A u \in DOMAIN transfers : row'[Home][u] = row[Home][u]
      BY <1>0, <1>1
    <3> QED BY <1>0, <2>1, <3>1 DEF OrderInv
  <2>2. CASE o # s
    <3>1. /\ incoming'[o] = incoming[o]
          /\ \A v \in DOMAIN transfers : row'[o][v] = row[o][v]
      BY <1>0, <1>1, <2>2 DEF Receiving
    <3> QED BY <2>1, <3>1 DEF CalmInv, OrderInv
  <2>3. CASE o = s
    <3>1. ~ Closed(row[s][u]) /\ ~ Ends(e, u)
      BY <1>2, <2>1, <2>3
    <3>2. /\ Closed(row[Home][u]) => \E i \in DOMAIN incoming[s] : Ends(incoming[s][i], u)
          /\ \A v \in DOMAIN transfers : u < v => row[s][v].state = "none"
          /\ \A i \in DOMAIN incoming[s] : u < incoming[s][i].t =>
               \E j \in DOMAIN incoming[s] : j < i /\ Ends(incoming[s][j], u)
      BY <3>1 DEF CalmInv, OrderInv
    <3>3. \A j \in DOMAIN incoming[s] : Ends(incoming[s][j], u) =>
            /\ j \in Nat /\ 1 < j /\ j - 1 \in DOMAIN incoming'[s]
            /\ incoming'[s][j - 1] = incoming[s][j]
      BY <1>0, <3>1, ShorterFacts
    <3>4. Closed(row[Home][u]) => \E i \in DOMAIN incoming'[s] : Ends(incoming'[s][i], u)
      <4>1. SUFFICES ASSUME NEW j \in DOMAIN incoming[s], Ends(incoming[s][j], u)
                     PROVE  \E i \in DOMAIN incoming'[s] : Ends(incoming'[s][i], u)
        BY <3>2
      <4> QED BY <3>3, <4>1
    <3>5. \A v \in DOMAIN transfers : u < v => row'[s][v].state = "none"
      <4>1. SUFFICES ASSUME u < e.t PROVE FALSE
        BY <1>2, <3>2
      <4>2. PICK j \in DOMAIN incoming[s] : j < 1 /\ Ends(incoming[s][j], u)
        BY <1>0, <3>2, <4>1
      <4> QED BY <3>3, <4>2
    <3>6. ASSUME NEW i \in DOMAIN incoming'[s], u < incoming'[s][i].t
          PROVE  \E j \in DOMAIN incoming'[s] : j < i /\ Ends(incoming'[s][j], u)
      <4>1. /\ i \in Nat /\ i + 1 \in DOMAIN incoming[s]
            /\ incoming'[s][i] = incoming[s][i + 1]
        BY <1>0, ShorterFacts
      <4>2. PICK j \in DOMAIN incoming[s] : j < i + 1 /\ Ends(incoming[s][j], u)
        BY <3>2, <3>6, <4>1
      <4>3. /\ j - 1 \in DOMAIN incoming'[s] /\ j - 1 < i
            /\ Ends(incoming'[s][j - 1], u)
        BY <3>3, <4>1, <4>2
      <4> QED BY <4>3
    <3> QED BY <2>3, <3>4, <3>5, <3>6
  <2> QED BY <2>2, <2>3
<1>5. RecordedInv'
  <2>1. SUFFICES ASSUME NEW w \in Workers, WorkerSite[w] # Home, job[w].at = "recorded",
                        row'[WorkerSite[w]][job[w].t].state = "source-capturing"
                 PROVE  job[w].snap = Top
    BY <1>0 DEF RecordedInv
  <2>2. JobSound(WorkerSite[w], job[w]) /\ WorkerSite[w] \in Sites
    BY JobFacts
  <2>3. job[w].t \in DOMAIN transfers
    BY <2>1, <2>2 DEF JobSound
  <2>4. row[WorkerSite[w]][job[w].t].state = "source-capturing"
    <3>1. CASE WorkerSite[w] = s
      BY <1>2, <2>1, <2>3, <3>1
    <3>2. CASE WorkerSite[w] # s
      <4>1. row'[WorkerSite[w]][job[w].t] = row[WorkerSite[w]][job[w].t]
        BY <1>1, <2>2, <2>3, <3>2
      <4> QED BY <2>1, <4>1
    <3> QED BY <3>1, <3>2
  <2> QED BY <2>1, <2>4 DEF CalmInv, RecordedInv
<1> QED BY <1>3, <1>4, <1>5

LEMMA ReceiveKeepsStreams ==
  ASSUME AuthorityInv, CalmInv, NEW s \in Suitcases, NEW e, Receiving(s, e)
  PROVE  OutgoingInv' /\ IncomingInv' /\ HandoverInv' /\ ReadyInv' /\ BehindInv'
<1>0. /\ Hearing(s, e) /\ transfers' = transfers /\ Top' = Top /\ Home \in Sites /\ TypesInv
      /\ outgoing' = outgoing /\ writer'[Home] = writer[Home]
      /\ 1 \in DOMAIN incoming[s] /\ e = incoming[s][1] /\ Shorter(incoming'[s], incoming[s])
      /\ \A n \in 0..Top : AuthorityOf(n)' = AuthorityOf(n)
      /\ \A o \in Suitcases : o \in Sites /\ o # Home
      /\ \A u \in DOMAIN transfers : u \in Nat /\ u # 0
  BY HomeIsSite, HandoffsAreTransfers DEF Receiving, Hearing, AuthorityInv
<1>1. \A x \in Sites, u \in DOMAIN transfers : x # s => row'[x][u] = row[x][u]
  BY <1>0 DEF Hearing
<1>2. /\ Latest(Home) \in Nat /\ Latest(s) \in Nat /\ Top \in Nat /\ e.snap \in Nat
      /\ Latest(Home)' = Latest(Home) /\ Latest(s) <= Latest(s)'
      /\ ~ HasSnap(e) => Latest(s)' = Latest(s)
      /\ HasSnap(e) => Latest(s)' = e.snap /\ e.snap <= Latest(Home)
      /\ Ordered(incoming'[s], Latest(s)', Latest(Home))
  BY SuitcaseLearns
<1>3. \A o \in Suitcases :
        /\ Latest(o) \in Nat /\ Latest(o)' \in Nat /\ Latest(o) <= Latest(o)'
        /\ o # s => Latest(o)' = Latest(o)
  <2>1. SUFFICES ASSUME NEW o \in Suitcases
                 PROVE  /\ Latest(o) \in Nat /\ Latest(o)' \in Nat /\ Latest(o) <= Latest(o)'
                        /\ o # s => Latest(o)' = Latest(o)
    OBVIOUS
  <2>2. CASE o = s
    BY <1>2, <2>2
  <2>3. CASE o # s
    <3>1. Latest(o)' = Latest(o) /\ Latest(o) \in Nat
      BY <1>0, <2>3 DEF Hearing
    <3> QED BY <2>3, <3>1
  <2> QED BY <2>2, <2>3
<1>4. OutgoingInv'
  <2>1. SUFFICES ASSUME NEW o \in Suitcases
                 PROVE  /\ o = writer[Home] => Ordered(outgoing[o], Latest(Home), Top)
                        /\ o # writer[Home] => NoSnaps(outgoing[o])
                        /\ \A i \in DOMAIN outgoing[o] : HasSnap(outgoing[o][i]) =>
                             /\ AuthorityOf(outgoing[o][i].snap)' = o
                             /\ outgoing[o][i].snap <= Latest(o)'
    BY <1>0, <1>2 DEF OutgoingInv
  <2>2. ASSUME NEW i \in DOMAIN outgoing[o], HasSnap(outgoing[o][i])
        PROVE  AuthorityOf(outgoing[o][i].snap)' = o /\ outgoing[o][i].snap <= Latest(o)'
    <3>1. PICK f \in Events : f = outgoing[o][i] /\ EventSound(f) /\ f.snap \in Nat
      <4>1. OutSound(o, outgoing[o][i]) /\ outgoing[o][i] \in Events /\ outgoing[o][i].snap \in Nat
        BY <1>0, StreamTypes DEF AuthorityInv, EventsInv
      <4> QED BY <4>1 DEF OutSound
    <3>2. AuthorityOf(f.snap) = o /\ f.snap <= Latest(o)
      BY <2>2, <3>1 DEF CalmInv, OutgoingInv
    <3>3. AuthorityOf(f.snap)' = AuthorityOf(f.snap)
      BY <1>0, <3>1, StreamAuthority
    <3>4. AuthorityOf(outgoing[o][i].snap)' = AuthorityOf(f.snap)'
      BY <1>0, <3>1 DEF AuthorityOf
    <3>5. f.snap <= Latest(o)'
      BY <1>3, <3>1, <3>2
    <3> QED BY <3>1, <3>2, <3>3, <3>4, <3>5
  <2> QED BY <2>2 DEF CalmInv, OutgoingInv
<1>5. IncomingInv'
  <2>1. SUFFICES ASSUME NEW o \in Suitcases
                 PROVE  /\ Ordered(incoming'[o], Latest(o)', Latest(Home))
                        /\ \A i \in DOMAIN incoming'[o] :
                             incoming'[o][i].op \in {"created", "snapshot-ready"} =>
                               AuthorityOf(incoming[o][i].snap)' # o
    BY <1>2 DEF IncomingInv
  <2>2. \A i \in DOMAIN incoming'[o] : \E m \in DOMAIN incoming[o] :
          incoming'[o][i] = incoming[o][m]
    <3>1. CASE o = s
      <4>1. \A i \in DOMAIN incoming'[s] :
              i + 1 \in DOMAIN incoming[s] /\ incoming'[s][i] = incoming[s][i + 1]
        BY <1>0, ShorterFacts
      <4> QED BY <3>1, <4>1
    <3>2. CASE o # s
      BY <3>2 DEF Receiving
    <3> QED BY <3>1, <3>2
  <2>3. ASSUME NEW i \in DOMAIN incoming'[o],
               incoming'[o][i].op \in {"created", "snapshot-ready"}
        PROVE  AuthorityOf(incoming[o][i].snap)' # o
    <3>1. PICK m \in DOMAIN incoming[o] : incoming'[o][i] = incoming[o][m]
      BY <2>2
    <3>2. PICK f \in Events : f = incoming[o][m] /\ EventSound(f)
      <4>1. InSound(o, incoming[o][m]) /\ incoming[o][m] \in Events
        BY <1>0, StreamTypes DEF AuthorityInv, EventsInv
      <4> QED BY <4>1 DEF InSound
    <3>3. AuthorityOf(f.snap) # o
      BY <2>3, <3>1, <3>2 DEF CalmInv, IncomingInv
    <3>4. AuthorityOf(f.snap)' = AuthorityOf(f.snap)
      BY <1>0, <3>2, StreamAuthority
    <3>5. AuthorityOf(incoming[o][i].snap)' = AuthorityOf(f.snap)'
      BY <3>1, <3>2 DEF AuthorityOf
    <3> QED BY <3>3, <3>4, <3>5
  <2>4. Ordered(incoming'[o], Latest(o)', Latest(Home))
    <3>1. CASE o = s
      BY <1>2, <3>1
    <3>2. CASE o # s
      <4>1. incoming'[o] = incoming[o] /\ Latest(o)' = Latest(o)
        BY <1>3, <3>2 DEF Receiving
      <4>2. Ordered(incoming[o], Latest(o), Latest(Home))
        BY DEF CalmInv, IncomingInv
      <4> QED BY <4>1, <4>2
    <3> QED BY <3>1, <3>2
  <2> QED BY <2>3, <2>4
<1>6. HandoverInv'
  <2>1. \A u \in DOMAIN transfers : row'[Home][u] = row[Home][u] /\ Source(u)' = Source(u)
    BY <1>0, <1>1 DEF Source
  <2> QED BY <1>0, <2>1 DEF CalmInv, HandoverInv
<1>7. ReadyInv'
  <2>1. SUFFICES ASSUME NEW o \in Suitcases, NEW i \in DOMAIN outgoing[o], NEW f,
                        f = outgoing[o][i], f.op = "target-ready"
                 PROVE  /\ row'[Home][f.t].snap # 0 /\ row'[Home][f.t].state \notin Restored
                        /\ row'[o][f.t].state \in Restored \cup Broken
                        /\ \A j \in DOMAIN outgoing[o] :
                             outgoing[o][j].op = "target-ready" /\ outgoing[o][j].t = f.t => i = j
    BY <1>0 DEF ReadyInv
  <2>2. f.t \in DOMAIN transfers
    <3>1. OutSound(o, f)
      BY <1>0, <2>1, StreamTypes DEF AuthorityInv, EventsInv
    <3> QED BY <2>1, <3>1 DEF OutSound, EventSound
  <2>3. /\ row[Home][f.t].snap # 0 /\ row[Home][f.t].state \notin Restored
        /\ row[o][f.t].state \in Restored \cup Broken
        /\ \A j \in DOMAIN outgoing[o] :
             outgoing[o][j].op = "target-ready" /\ outgoing[o][j].t = f.t => i = j
    BY <2>1 DEF CalmInv, ReadyInv
  <2>4. row'[Home][f.t] = row[Home][f.t]
    BY <1>0, <1>1, <2>2
  <2>5. row'[o][f.t].state \in Restored \cup Broken
    <3>1. CASE o = s
      BY <2>2, <2>3, <3>1, SuitcaseRowAfter
    <3>2. CASE o # s
      <4>1. row'[o][f.t] = row[o][f.t]
        BY <1>0, <1>1, <2>2, <3>2
      <4> QED BY <2>3, <4>1
    <3> QED BY <3>1, <3>2
  <2> QED BY <2>3, <2>4, <2>5
<1>8. BehindInv'
  <2>1. SUFFICES ASSUME NEW o \in Suitcases, o # writer[Home]
                 PROVE  Latest(o)' <= Latest(Home)
    BY <1>0, <1>2 DEF BehindInv
  <2>2. Latest(o) <= Latest(Home)
    BY <2>1 DEF CalmInv, BehindInv
  <2>3. CASE o = s
    BY <1>2, <2>2, <2>3
  <2>4. CASE o # s
    BY <1>3, <2>2, <2>4
  <2> QED BY <2>3, <2>4
<1> QED BY <1>4, <1>5, <1>6, <1>7, <1>8

LEMMA ReceiveKeepsOffers ==
  ASSUME AuthorityInv, CalmInv, NEW s \in Suitcases, NEW e, Receiving(s, e)
  PROVE  OfferInv'
<1>0. /\ Hearing(s, e) /\ transfers' = transfers /\ Home \in Sites /\ TypesInv
      /\ outgoing' = outgoing
      /\ 1 \in DOMAIN incoming[s] /\ e = incoming[s][1] /\ Shorter(incoming'[s], incoming[s])
      /\ \A o \in Suitcases : o \in Sites /\ o # Home
  BY HomeIsSite DEF Receiving, Hearing, AuthorityInv
<1>1. SUFFICES ASSUME NEW o \in Suitcases, NEW u \in DOMAIN transfers
               PROVE  OfferOf(o, u, incoming'[o], row'[o][u], row'[Home][u]) /\ GivesOwn(o, u)'
  BY <1>0, OfferPartsAfter
<1>2. row'[Home][u] = row[Home][u] /\ Source(u)' = Source(u) /\ u \in Transfers
  BY <1>0, HandoffsAreTransfers DEF Hearing, Source
<1>3. OfferOf(o, u, incoming[o], row[o][u], row[Home][u]) /\ GivesOwn(o, u)
  BY OfferParts DEF CalmInv
<1>4. CASE o # s
  <2>1. row'[o][u] = row[o][u] /\ incoming'[o] = incoming[o]
    BY <1>0, <1>4 DEF Hearing, Receiving
  <2>2. GivesOwn(o, u)'
    BY <1>0, <1>2, <1>3, <2>1 DEF GivesOwn, Told, Outs
  <2> QED BY <1>2, <1>3, <2>1, <2>2
<1>5. CASE o = s
  <2>1. PICK S, R, H, p, q : /\ S = row[s][u] /\ R = row'[s][u] /\ H = row[Home][u]
                             /\ p = incoming'[s] /\ q = incoming[s]
    OBVIOUS
  <2>2. /\ S.state \in Broken => R.state \in Broken
        /\ R.state \in Broken => S.state \in Broken \/ Breaks(e, u)
        /\ R.state = "committed" => S.state = "committed" \/ (u = e.t /\ e.op = "committed")
        /\ \/ R.snap = S.snap
           \/ Offers(e, u) /\ S.state \in Active \cup {"none"} /\ R.snap # 0
           \/ u = e.t /\ e.op = "committed" /\ R.snap # 0
        /\ Offers(e, u) /\ S.state \in Active \cup {"none"} => R.snap # 0
        /\ Breaks(e, u) => H.state \in Broken /\ (S.state # "committed" => R.state \in Broken)
        /\ u = e.t /\ e.op = "committed" => H.state = "committed"
    BY <2>1, SuitcaseRowAfter
  <2>3. /\ OfferOf(s, u, q, S, H) /\ GivesOwn(s, u)
        /\ S.state = "committed" => H.state = "committed"
        /\ 1 \in DOMAIN q /\ e = q[1] /\ Shorter(p, q)
    BY <1>0, <1>3, <1>5, <2>1 DEF CalmInv, EndsInv
  <2>4. /\ S.state \in States /\ (S.state = "committed" => S.snap # 0)
        /\ H.state = "committed" => H.snap # 0
    <3>1. /\ S \in TransferRow /\ RowSound(s, u, S) /\ RowSound(Home, u, H)
      BY <1>0, <1>2, <1>5, <2>1, RowFacts DEF AuthorityInv, RowsInv
    <3> QED BY <3>1 DEF RowSound, TransferRow
  <2>5. S.snap # 0 => R.snap # 0
    BY <2>2
  <2>6. /\ \A i \in DOMAIN p : i \in Nat /\ 1 < i + 1 /\ i + 1 \in DOMAIN q /\ p[i] = q[i + 1]
        /\ \A j \in DOMAIN q :
             j \in Nat /\ (j # 1 => 1 < j /\ j - 1 \in DOMAIN p /\ p[j - 1] = q[j])
    BY <2>3, ShorterFacts
  <2>7. ASSUME H.snap # 0
        PROVE  R.snap # 0 \/ (R.state \notin Broken /\ Coming(p, u))
    <3>1. SUFFICES ASSUME S.snap = 0, R.snap = 0
                   PROVE  R.state \notin Broken /\ Coming(p, u)
      BY <2>5
    <3>2. S.state \notin Broken /\ Coming(q, u)
      BY <2>3, <2>7, <3>1 DEF OfferOf
    <3>3. PICK j \in DOMAIN q :
            /\ Offers(q[j], u)
            /\ \A k \in DOMAIN q : k < j /\ q[k].t = u => q[k].op \notin Broken \cup Restored
      BY <3>2 DEF Coming
    <3>4. j # 1
      <4>1. S.state \in Active \cup {"none"}
        BY <2>4, <3>1, <3>2 DEF States, Active
      <4> QED BY <2>2, <2>3, <3>1, <3>3, <4>1
    <3>5. R.state \notin Broken
      BY <2>2, <2>3, <2>6, <3>2, <3>3, <3>4 DEF Breaks
    <3>6. ASSUME NEW k \in DOMAIN p, k < j - 1, p[k].t = u
          PROVE  p[k].op \notin Broken \cup Restored
      <4>1. k + 1 < j /\ k + 1 \in DOMAIN q /\ q[k + 1] = p[k]
        BY <2>6, <3>6
      <4> QED BY <3>3, <3>6, <4>1
    <3>7. j - 1 \in DOMAIN p /\ Offers(p[j - 1], u)
      BY <2>6, <3>3, <3>4
    <3> QED BY <3>5, <3>6, <3>7 DEF Coming
  <2>8. R.snap # 0 /\ s # Source(u) => H.snap # 0
    <3>1. SUFFICES ASSUME R.snap # 0, s # Source(u), H.snap = 0 PROVE FALSE
      OBVIOUS
    <3>2. S.snap = 0
      BY <2>3, <3>1 DEF OfferOf
    <3>3. Offers(e, u) /\ S.state \in Active \cup {"none"}
      BY <2>2, <2>4, <3>1, <3>2
    <3>4. S.state \notin Broken
      BY <3>3 DEF Active, Broken
    <3>5. PICK j \in DOMAIN q : j < 1
      BY <2>3, <3>1, <3>3, <3>4 DEF OfferOf
    <3> QED BY <2>6, <3>5
  <2>9. ASSUME NEW i \in DOMAIN p, p[i].t = u, p[i].op \in Restored
        PROVE  /\ H.snap # 0 /\ R.state # "committed"
               /\ \A j \in DOMAIN p : j < i /\ p[j].t = u => p[j].op # "committed"
    <3>1. /\ i \in Nat /\ 1 < i + 1 /\ i + 1 \in DOMAIN q
          /\ q[i + 1].t = u /\ q[i + 1].op \in Restored
      BY <2>6, <2>9
    <3>2. /\ H.snap # 0 /\ S.state # "committed"
          /\ \A j \in DOMAIN q : j < i + 1 /\ q[j].t = u => q[j].op # "committed"
      BY <2>3, <3>1 DEF OfferOf
    <3>3. R.state # "committed"
      BY <2>2, <2>3, <3>1, <3>2
    <3>4. \A j \in DOMAIN p : j < i /\ p[j].t = u => p[j].op # "committed"
      <4>1. SUFFICES ASSUME NEW j \in DOMAIN p, j < i, p[j].t = u
                     PROVE  p[j].op # "committed"
        OBVIOUS
      <4>2. j + 1 < i + 1 /\ j + 1 \in DOMAIN q /\ q[j + 1] = p[j]
        BY <2>6, <3>1, <4>1
      <4> QED BY <3>2, <4>1, <4>2
    <3> QED BY <3>2, <3>3, <3>4
  <2>10. ASSUME NEW i \in DOMAIN p, H.snap = 0, Offers(p[i], u)
         PROVE  R.state \in Broken \/ \E j \in DOMAIN p : j < i /\ Breaks(p[j], u)
    <3>1. i \in Nat /\ i + 1 \in DOMAIN q /\ Offers(q[i + 1], u)
      BY <2>6, <2>10
    <3>2. S.state \in Broken \/ \E j \in DOMAIN q : j < i + 1 /\ Breaks(q[j], u)
      BY <2>3, <2>10, <3>1 DEF OfferOf
    <3>3. CASE S.state \in Broken
      BY <2>2, <3>3
    <3>4. ASSUME NEW j \in DOMAIN q, j < i + 1, Breaks(q[j], u)
          PROVE  R.state \in Broken \/ \E k \in DOMAIN p : k < i /\ Breaks(p[k], u)
      <4>1. CASE j = 1
        <5>1. S.state # "committed"
          BY <2>3, <2>4, <2>10
        <5> QED BY <2>2, <2>3, <3>4, <4>1, <5>1
      <4>2. CASE j # 1
        <5>1. j - 1 \in DOMAIN p /\ j - 1 < i /\ Breaks(p[j - 1], u)
          BY <2>6, <3>1, <3>4, <4>2
        <5> QED BY <5>1
      <4> QED BY <4>1, <4>2
    <3> QED BY <3>2, <3>3, <3>4
  <2>11. OfferOf(s, u, p, R, H)
    BY <2>7, <2>8, <2>9, <2>10 DEF OfferOf
  <2>12. GivesOwn(s, u)'
    BY <1>0, <1>2, <2>1, <2>3, <2>5 DEF GivesOwn, Told, Outs
  <2> QED BY <1>2, <1>5, <2>1, <2>11, <2>12
<1> QED BY <1>4, <1>5

LEMMA ReceiveKeepsCalm ==
  ASSUME AuthorityInv, AuthorityInv', CalmInv, NEW s \in Suitcases, ProjectAtSuitcase(s)
  PROVE  CalmInv'
<1>1. PICK e : Receiving(s, e)
  BY ReceiveIsReceiving
<1>2. Hearing(s, e) /\ s \in Sites
  BY <1>1, HomeIsSite DEF Receiving
<1>3. SentInv'
  BY <1>2, HearingOwesNothing DEF CalmInv
<1> QED BY <1>1, <1>3, ReceiveKeepsRows, ReceiveKeepsStreams, ReceiveKeepsOffers DEF CalmInv

-----------------------------------------------------------------------------
(* An event at the head of a stream is accepted.                           *)
LEMMA RecordsNext ==
  ASSUME AuthorityInv, NEW x \in Sites, NEW n \in 1..Top, Latest(x) <= n, n <= Latest(x) + 1,
         NEW detached \in BOOLEAN
  PROVE  Recordable(x, snapshots[n], n, detached)
<1>1. Latest(x) \in 0..Top /\ Top \in Nat
  BY LatestFacts, TypeFacts DEF AuthorityInv, Top
<1>2. /\ snapshots[n].seq = n /\ snapshots[n].parent = n - 1
      /\ \A m, k \in 1..Top : m <= k => snapshots[m].epoch <= snapshots[k].epoch
      /\ \A k \in 1..Top : snapshots[k].seq = k
  BY DEF AuthorityInv, LineInv
<1>3. PICK L \in Nat : L = Latest(x)
  BY <1>1
<1>4. CASE L = 0
  <2>1. snapshots[n].parent = 0
    BY <1>1, <1>2, <1>3, <1>4
  <2> QED BY <1>3, <1>4, <2>1 DEF Recordable
<1>5. CASE L # 0 /\ n = L
  BY <1>3, <1>5 DEF Recordable
<1>6. CASE L # 0 /\ n = L + 1
  <2>1. L \in 1..Top /\ L <= n
    BY <1>1, <1>3, <1>6
  <2>2. snapshots[n].epoch \in Nat /\ snapshots[L].epoch \in Nat
    BY <2>1, TypeFacts DEF AuthorityInv, Top
  <2>3. snapshots[L].epoch <= snapshots[n].epoch /\ snapshots[L].seq = L
    BY <1>2, <2>1
  <2>4. Above(snapshots[n], snapshots[L])
    BY <1>2, <1>6, <2>2, <2>3 DEF Above
  <2>5. snapshots[n].parent = L
    BY <1>2, <1>6
  <2> QED BY <1>3, <1>6, <2>4, <2>5 DEF Recordable
<1> QED BY <1>1, <1>3, <1>4, <1>5, <1>6

LEMMA RowWithSnapshot ==
  ASSUME NEW x, NEW t, row[x][t].snap # 0
  PROVE  RowAt(x, t) = row[x][t]
<1>1. NoRow.snap = 0
  BY DEF NoRow
<1> QED BY <1>1 DEF RowAt

LEMMA HomeAccepts ==
  ASSUME AuthorityInv, CalmInv, NEW s \in Suitcases, NEW e, 1 \in DOMAIN outgoing[s],
         e = outgoing[s][1], Shorter(Tail(outgoing[s]), outgoing[s])
  PROVE  Accepts(Home, e)
<1>1. /\ e \in Events /\ e.op \in Ops /\ OutSound(s, e) /\ EventSound(e) /\ e.op # "committed"
      /\ Home \in Sites /\ TypesInv /\ DOMAIN transfers \subseteq Transfers
      /\ Latest(Home) \in Nat /\ Top \in Nat
  <2>1. TypesInv /\ LineInv /\ Home \in Sites /\ Top \in Nat /\ Latest(Home) \in 0..Top
    BY HomeIsSite, LatestFacts, TypeFacts DEF AuthorityInv, Top
  <2>2. e \in Events /\ OutSound(s, e)
    BY <2>1, StreamTypes DEF AuthorityInv, EventsInv
  <2> QED BY <2>1, <2>2, HandoffsAreTransfers DEF Events, OutSound
<1>2. CASE HasSnap(e)
  <2>1. s = writer[Home] /\ Ordered(outgoing[s], Latest(Home), Top)
    BY <1>2 DEF CalmInv, OutgoingInv, NoSnaps
  <2>2. Latest(Home) <= e.snap /\ e.snap <= Latest(Home) + 1
    BY <1>1, <1>2, <2>1, OrderedTail
  <2>3. e.snap \in 1..Top
    BY <1>1, <1>2 DEF HasSnap, EventSound, Handed
  <2>4. \A d \in BOOLEAN : Recordable(Home, snapshots[e.snap], e.snap, d)
    BY <1>1, <2>2, <2>3, RecordsNext
  <2> QED BY <1>1, <1>2, <2>4 DEF Accepts, HasSnap
<1>3. CASE e.op = "target-ready"
  <2>1. row[Home][e.t].snap # 0 /\ row[Home][e.t].state \notin Restored
    BY <1>3 DEF CalmInv, ReadyInv
  <2>2. e.t \in DOMAIN transfers /\ Handed(e.t, e.snap)
    BY <1>1, <1>3 DEF EventSound
  <2>3. RowSound(Home, e.t, row[Home][e.t])
    BY <1>1, <2>2 DEF AuthorityInv, RowsInv
  <2>4. row[Home][e.t].snap = e.snap
    BY <2>1, <2>2, <2>3 DEF RowSound, Handed, Restored
  <2> QED BY <1>3, <2>1, <2>4, RowWithSnapshot DEF Accepts
<1>4. CASE ~ HasSnap(e) /\ e.op # "target-ready"
  BY <1>4 DEF Accepts, HasSnap
<1> QED BY <1>2, <1>3, <1>4

(* Before a suitcase hears that a handoff went on it has its snapshot.     *)
LEMMA OfferedFirst ==
  ASSUME AuthorityInv, CalmInv, NEW s \in Suitcases, NEW e, 1 \in DOMAIN incoming[s],
         e = incoming[s][1], e.op \in Restored, e.t \in DOMAIN transfers
  PROVE  row[s][e.t].snap # 0 /\ Handed(e.t, row[s][e.t].snap)
<1>1. \A j \in DOMAIN incoming[s] : j \in Nat /\ (j # 1 => 1 < j)
  <2>1. incoming[s] \in Seq(Events)
    BY DEF AuthorityInv, TypesInv
  <2> QED BY <2>1
<1>2. row[Home][e.t].snap # 0 /\ row[s][e.t].state # "committed"
  BY DEF CalmInv, OfferInv
<1>3. row[s][e.t].snap # 0
  <2>1. SUFFICES ASSUME Coming(incoming[s], e.t) PROVE FALSE
    BY <1>2 DEF CalmInv, OfferInv, Offered
  <2>2. PICK j \in DOMAIN incoming[s] :
          /\ Offers(incoming[s][j], e.t)
          /\ \A k \in DOMAIN incoming[s] :
               k < j /\ incoming[s][k].t = e.t => incoming[s][k].op \notin Broken \cup Restored
    BY <2>1 DEF Coming
  <2>3. j # 1
    BY <2>2 DEF Offers, Restored
  <2> QED BY <1>1, <2>2, <2>3
<1>4. RowSound(s, e.t, row[s][e.t])
  BY HomeIsSite, HandoffsAreTransfers DEF AuthorityInv, RowsInv
<1> QED BY <1>2, <1>3, <1>4 DEF RowSound

LEMMA SuitcaseAccepts ==
  ASSUME AuthorityInv, CalmInv, NEW s \in Suitcases, NEW e, 1 \in DOMAIN incoming[s],
         e = incoming[s][1], Shorter(Tail(incoming[s]), incoming[s])
  PROVE  Accepts(s, e)
<1>1. /\ e \in Events /\ e.op \in Ops /\ InSound(s, e) /\ EventSound(e)
      /\ s \in Sites /\ TypesInv /\ Latest(s) \in Nat /\ Latest(Home) \in Nat /\ Top \in Nat
  <2>1. /\ TypesInv /\ LineInv /\ s \in Sites /\ Home \in Sites /\ Top \in Nat
        /\ Latest(s) \in 0..Top /\ Latest(Home) \in 0..Top
    BY HomeIsSite, LatestFacts, TypeFacts DEF AuthorityInv, Top
  <2>2. e \in Events /\ InSound(s, e)
    BY <2>1, StreamTypes DEF AuthorityInv, EventsInv
  <2> QED BY <2>1, <2>2 DEF Events, InSound
<1>2. ASSUME HasSnap(e)
      PROVE  e.snap \in 1..Top /\ \A d \in BOOLEAN : Recordable(s, snapshots[e.snap], e.snap, d)
  <2>1. Ordered(incoming[s], Latest(s), Latest(Home))
    BY DEF CalmInv, IncomingInv
  <2>2. Latest(s) <= e.snap /\ e.snap <= Latest(s) + 1
    BY <1>1, <1>2, <2>1, OrderedTail
  <2>3. e.snap \in 1..Top
    <3>1. e.op \in {"created", "snapshot-ready"} => e.snap \in 1..Top
      BY <1>1 DEF EventSound, Handed
    <3>2. e.op = "committed" => e.snap \in 1..Top
      BY <1>1, EventFacts
    <3> QED BY <1>2, <3>1, <3>2 DEF HasSnap
  <2> QED BY <1>1, <2>2, <2>3, RecordsNext
<1>3. CASE e.op = "target-ready"
  <2>1. e.t \in DOMAIN transfers /\ Handed(e.t, e.snap)
    BY <1>1, <1>3 DEF EventSound
  <2>2. row[s][e.t].snap # 0 /\ Handed(e.t, row[s][e.t].snap)
    BY <1>3, <2>1, OfferedFirst DEF Restored
  <2>3. row[s][e.t].snap = e.snap
    BY <2>1, <2>2 DEF Handed
  <2> QED BY <1>3, <2>2, <2>3, RowWithSnapshot DEF Accepts
<1>4. CASE e.op = "committed"
  <2>1. /\ e.t \in DOMAIN transfers /\ e.snap = Expected(e.t) + 2
        /\ e.snap \in 1..Top /\ AuthorityOf(e.snap) = Target(e.t)
    BY <1>1, <1>4, EventFacts
  <2>2. PICK k : k = row[s][e.t].snap /\ k # 0 /\ Handed(e.t, k)
    BY <1>4, <2>1, OfferedFirst DEF Restored
  <2>3. k = Expected(e.t) + 1 /\ k \in 1..Top /\ AuthorityOf(k) = Source(e.t)
        /\ Expected(e.t) \in Nat
    BY <1>1, <2>1, <2>2, TypeFacts DEF Handed
  <2>4. e.snap - 1 = k /\ e.snap = k + 1 /\ k \in Nat
    BY <2>1, <2>3
  <2>5. Source(e.t) # Target(e.t)
    BY <2>1 DEF AuthorityInv, TransfersInv
  <2>6. snapshots[e.snap].epoch = snapshots[k].epoch + 1
    <3>1. EpochOf(e.snap - 1) = snapshots[k].epoch /\ AuthorityOf(e.snap - 1) = Source(e.t)
      BY <2>2, <2>3, <2>4 DEF EpochOf
    <3>2. /\ Captured(e.snap) \/ snapshots[e.snap].epoch = EpochOf(e.snap - 1) + 1
          /\ Captured(e.snap) => AuthorityOf(e.snap) = AuthorityOf(e.snap - 1)
      BY <2>1 DEF AuthorityInv, LineInv
    <3> QED BY <2>1, <2>5, <3>1, <3>2
  <2>7. snapshots[e.snap].seq = snapshots[k].seq + 1
    <3>1. snapshots[e.snap].seq = e.snap /\ snapshots[k].seq = k
      BY <2>1, <2>3 DEF AuthorityInv, LineInv
    <3> QED BY <2>4, <3>1
  <2>8. RowAt(s, e.t).snap = k
    BY <2>2, RowWithSnapshot
  <2>9. Recordable(s, snapshots[e.snap], e.snap, FALSE)
    BY <1>2, <1>4 DEF HasSnap
  <2> QED BY <1>4, <2>2, <2>6, <2>7, <2>8, <2>9 DEF Accepts
<1>5. CASE e.op \in {"created", "snapshot-ready"}
  BY <1>2, <1>5 DEF Accepts, HasSnap
<1>6. CASE e.op \notin {"created", "snapshot-ready", "target-ready", "committed"}
  BY <1>6 DEF Accepts
<1> QED BY <1>3, <1>4, <1>5, <1>6

LEMMA CalmAccepts ==
  ASSUME AuthorityInv, CalmInv, NEW s \in Suitcases
  PROVE  /\ outgoing[s] # <<>> => Accepts(Home, Head(outgoing[s]))
         /\ incoming[s] # <<>> => Accepts(s, Head(incoming[s]))
<1>1. outgoing[s] \in Seq(Events) /\ incoming[s] \in Seq(Events)
  BY DEF AuthorityInv, TypesInv
<1>2. ASSUME outgoing[s] # <<>>
      PROVE  Accepts(Home, Head(outgoing[s]))
  <2>1. PICK e : e = Head(outgoing[s])
    OBVIOUS
  <2>2. /\ Shorter(Tail(outgoing[s]), outgoing[s]) /\ e = outgoing[s][1]
        /\ 1 \in DOMAIN outgoing[s]
    BY <1>1, <1>2, <2>1, TailIsShorter
  <2> QED BY <2>1, <2>2, HomeAccepts
<1>3. ASSUME incoming[s] # <<>>
      PROVE  Accepts(s, Head(incoming[s]))
  <2>1. PICK e : e = Head(incoming[s])
    OBVIOUS
  <2>2. /\ Shorter(Tail(incoming[s]), incoming[s]) /\ e = incoming[s][1]
        /\ 1 \in DOMAIN incoming[s]
    BY <1>1, <1>3, <2>1, TailIsShorter
  <2> QED BY <2>1, <2>2, SuitcaseAccepts
<1> QED BY <1>2, <1>3

-----------------------------------------------------------------------------
LEMMA InitCalm == AuthorityInit => CalmInv
<1> SUFFICES ASSUME AuthorityInit
             PROVE  CalmInv
  OBVIOUS
<1>1. /\ DOMAIN transfers = {} /\ writer[Home] = Home /\ Home \in Sites
      /\ \A s \in Suitcases : s \in Sites /\ s # Home
      /\ \A s \in Suitcases : outgoing[s] = << >> /\ incoming[s] = << >>
  BY HomeIsSite DEF AuthorityInit
<1>2. \A x \in Sites : Latest(x) = 0
  BY DEF AuthorityInit, Latest
<1>3. DOMAIN << >> = {}
  OBVIOUS
<1>4. SentInv /\ EndsInv /\ OrderInv /\ HandoverInv
  BY <1>1 DEF SentInv, EndsInv, OrderInv, HandoverInv
<1>5. OfferInv
  BY <1>1 DEF OfferInv
<1>6. ReadyInv
  BY <1>1, <1>3 DEF ReadyInv
<1>7. NoSnaps(<< >>) /\ Ordered(<< >>, 0, 0)
  <2>1. NoSnaps(<< >>)
    BY <1>3 DEF NoSnaps
  <2> QED BY <2>1, OrderedNone
<1>8. OutgoingInv /\ IncomingInv
  BY <1>1, <1>2, <1>3, <1>7 DEF OutgoingInv, IncomingInv
<1>9. RecordedInv
  <2>1. \A w \in Workers : job[w].at = "idle"
    BY DEF AuthorityInit, NoJob
  <2> QED BY <2>1 DEF RecordedInv
<1>10. BehindInv
  BY <1>1, <1>2 DEF BehindInv
<1> QED BY <1>4, <1>5, <1>6, <1>8, <1>9, <1>10 DEF CalmInv

(* No step makes up for the event that a crash lost.                       *)
LEMMA TellsTorn ==
  ASSUME torn, NEW x, NEW E, NEW how, Tells(x, E, how)
  PROVE  torn'
BY DEF Tells

LEMMA TornLasts ==
  ASSUME torn, [AuthorityNext]_authorityVars
  PROVE  torn'
<1>1. ASSUME NEW how \in Outcomes, Administers(how)
      PROVE  torn'
  <2>1. ASSUME NEW target \in Sites, StartTransfer(target, how)
        PROVE  torn'
    BY <2>1, TellsTorn DEF StartTransfer
  <2>2. ASSUME NEW t \in DOMAIN transfers, AbortTransfer(t, how)
        PROVE  torn'
    BY <2>2, TellsTorn DEF AbortTransfer
  <2> QED BY <1>1, <2>1, <2>2 DEF Administers
<1>2. ASSUME NEW how \in Outcomes, NEW w \in Workers, AdvancesJob(w, how)
      PROVE  torn'
  <2>1. CASE RecordSnapshot(w, how)
    BY <2>1, TellsTorn DEF RecordSnapshot
  <2>2. CASE SnapshotReady(w, how)
    BY <2>2, TellsTorn DEF SnapshotReady
  <2>3. CASE RestoreVolume(w)
    BY <2>3 DEF RestoreVolume
  <2>4. CASE TargetReady(w, how)
    BY <2>4, TellsTorn DEF TargetReady
  <2>5. CASE RestoreFails(w, how)
    BY <2>5, TellsTorn DEF RestoreFails, FailTransfer
  <2> QED BY <1>2, <2>1, <2>2, <2>3, <2>4, <2>5 DEF AdvancesJob
<1>3. ASSUME NEW how \in Outcomes, NEW w \in Workers, NEW t \in DOMAIN transfers,
             AdvancesTransfer(w, t, how)
      PROVE  torn'
  <2>1. CASE TakeUp(w, t, how)
    <3>1. \/ \E E : Tells(WorkerSite[w], E, how)
          \/ torn' = torn
      BY <2>1 DEF TakeUp
    <3> QED BY <3>1, TellsTorn
  <2>2. CASE CommitTransfer(w, t, how)
    <3>1. \E E : Tells(Home, E, how)
      BY <2>2 DEF CommitTransfer, FailTransfer
    <3> QED BY <3>1, TellsTorn
  <2>3. CASE BeginCapture(w, t) \/ AcceptSnapshot(w, t) \/ BeginRestore(w, t) \/ ResumeSource(w, t)
    BY <2>3 DEF BeginCapture, AcceptSnapshot, BeginRestore, ResumeSource
  <2>4. ASSUME NEW resumed \in BOOLEAN, CaptureFails(w, t, resumed, how)
        PROVE  torn'
    BY <2>4, TellsTorn DEF CaptureFails, FailTransfer
  <2>5. ASSUME NEW op \in Owed(WorkerSite[w], t), EnsureEvent(w, t, op)
        PROVE  torn'
    BY <2>5 DEF EnsureEvent
  <2> QED BY <1>3, <2>1, <2>2, <2>3, <2>4, <2>5 DEF AdvancesTransfer
<1>4. ASSUME NEW w \in Workers, Repeats(w)
      PROVE  torn'
  BY <1>4 DEF Repeats, StopTarget, ActivateTarget, StopSource
<1>5. ASSUME NEW s \in Suitcases, IngestAtHome(s) \/ ProjectAtSuitcase(s)
      PROVE  torn'
  BY <1>5 DEF IngestAtHome, ProjectAtSuitcase, Projects
<1>6. ASSUME NEW s \in Suitcases, Materialise(s) \/ SupervisorStarts(s)
      PROVE  torn'
  BY <1>6 DEF Materialise, SupervisorStarts
<1>7. ASSUME NEW s \in Suitcases, NEW how \in Outcomes, ScheduledCapture(s, how)
      PROVE  torn'
  BY <1>7 DEF ScheduledCapture
<1>8. ASSUME NEW x \in Sites, Write(x) \/ Crash(x)
      PROVE  torn'
  BY <1>8 DEF Write, Crash
<1>9. CASE UNCHANGED authorityVars
  BY <1>9 DEF authorityVars
<1> QED BY <1>1, <1>2, <1>3, <1>4, <1>5, <1>6, <1>7, <1>8, <1>9 DEF AuthorityNext, Advances

LEMMA AdvancesKeepsCalm ==
  ASSUME AuthorityInv, AuthorityInv', CalmInv, ~ torn', OnePass, NEW w \in Workers, NEW how,
         Advances(w, how)
  PROVE  CalmInv'
<1>1. CASE AdvancesJob(w, how)
  <2>1. CASE RecordSnapshot(w, how)
    BY <2>1, RecordKeepsCalm
  <2>2. CASE SnapshotReady(w, how)
    BY <2>2, SnapshotReadyKeepsCalm
  <2>3. CASE RestoreVolume(w)
    BY <2>3, RestoreVolumeKeepsCalm
  <2>4. CASE TargetReady(w, how)
    BY <2>4, TargetReadyKeepsCalm
  <2>5. CASE RestoreFails(w, how)
    BY <2>5, RestoreFailsKeepsCalm
  <2> QED BY <1>1, <2>1, <2>2, <2>3, <2>4, <2>5 DEF AdvancesJob
<1>2. ASSUME NEW t \in DOMAIN transfers, AdvancesTransfer(w, t, how)
      PROVE  CalmInv'
  <2>1. CASE TakeUp(w, t, how)
    BY <2>1, TakeUpKeepsCalm
  <2>2. CASE CommitTransfer(w, t, how)
    BY <2>2, CommitKeepsCalm
  <2>3. CASE BeginCapture(w, t)
    BY <2>3, BeginCaptureKeepsCalm
  <2>4. CASE AcceptSnapshot(w, t)
    BY <2>4, AcceptKeepsCalm
  <2>5. CASE BeginRestore(w, t)
    BY <2>5, BeginRestoreKeepsCalm
  <2>6. CASE ResumeSource(w, t)
    BY <2>6, ResumeKeepsCalm
  <2>7. ASSUME NEW resumed \in BOOLEAN, CaptureFails(w, t, resumed, how)
        PROVE  CalmInv'
    BY <2>7, CaptureFailsKeepsCalm
  <2>8. Owed(WorkerSite[w], t) = {}
    <3>1. WorkerSite[w] \in Sites
      BY WorkersHaveSites
    <3> QED BY <3>1 DEF CalmInv, SentInv
  <2> QED BY <1>2, <2>1, <2>2, <2>3, <2>4, <2>5, <2>6, <2>7, <2>8 DEF AdvancesTransfer
<1> QED BY <1>1, <1>2 DEF Advances

LEMMA NextKeepsCalm ==
  ASSUME OnePass, AuthorityInv, AuthorityInv', CalmInv, ~ torn', [AuthorityNext]_authorityVars
  PROVE  CalmInv'
<1>1. ASSUME NEW how \in Outcomes, Administers(how)
      PROVE  CalmInv'
  <2>1. ASSUME NEW target \in Sites, StartTransfer(target, how)
        PROVE  CalmInv'
    BY <2>1, StartKeepsCalm
  <2>2. ASSUME NEW t \in DOMAIN transfers, AbortTransfer(t, how)
        PROVE  CalmInv'
    BY <2>2, AbortKeepsCalm
  <2> QED BY <1>1, <2>1, <2>2 DEF Administers
<1>2. ASSUME NEW how \in Outcomes, NEW w \in Workers, Advances(w, how)
      PROVE  CalmInv'
  BY <1>2, AdvancesKeepsCalm
<1>3. ASSUME NEW w \in Workers, Repeats(w)
      PROVE  CalmInv'
  BY <1>3, RepeatsKeepsCalm
<1>4. ASSUME NEW s \in Suitcases, IngestAtHome(s)
      PROVE  CalmInv'
  BY <1>4, IngestKeepsCalm
<1>5. ASSUME NEW s \in Suitcases, ProjectAtSuitcase(s)
      PROVE  CalmInv'
  BY <1>5, ReceiveKeepsCalm
<1>6. ASSUME NEW s \in Suitcases, Materialise(s) \/ SupervisorStarts(s)
      PROVE  CalmInv'
  BY <1>6, HomeIsSite, SiteKeepsCalm
<1>7. ASSUME NEW s \in Suitcases, NEW how \in Outcomes, ScheduledCapture(s, how)
      PROVE  CalmInv'
  BY <1>7, ScheduledKeepsCalm
<1>8. ASSUME NEW x \in Sites, Write(x) \/ Crash(x)
      PROVE  CalmInv'
  BY <1>8, SiteKeepsCalm
<1>9. CASE UNCHANGED authorityVars
  BY <1>9, HomeIsSite, SiteKeepsCalm
<1> QED BY <1>1, <1>2, <1>3, <1>4, <1>5, <1>6, <1>7, <1>8, <1>9 DEF AuthorityNext

CalmUnlessTorn == ~ torn => CalmInv

(* No projection of a snapshot or of a handoff event throws, at Home or at *)
(* a suitcase: recordVerifiedSnapshot finds the manifest next in line, and *)
(* the checks of a ready target and of a commit find the snapshot the row  *)
(* was handed, so no stream stops at an event, whatever is aborted, fails  *)
(* or crashes, unless a crash fell between a row and its event.            *)
THEOREM EventsAreAccepted == ASSUME OnePass PROVE AuthoritySpec => []EventsAccepted
<1>1. AuthorityInit => AuthorityInv /\ CalmUnlessTorn
  BY InitSound, InitCalm DEF CalmUnlessTorn
<1>2. AuthorityInv /\ CalmUnlessTorn /\ [AuthorityNext]_authorityVars
        => AuthorityInv' /\ CalmUnlessTorn'
  <2>1. SUFFICES ASSUME AuthorityInv, CalmUnlessTorn, [AuthorityNext]_authorityVars
                 PROVE  AuthorityInv' /\ CalmUnlessTorn'
    OBVIOUS
  <2>2. AuthorityInv'
    BY <2>1, NextSound
  <2>3. CASE ~ torn'
    BY <2>1, <2>2, <2>3, TornLasts, NextKeepsCalm DEF CalmUnlessTorn
  <2>4. CASE torn'
    BY <2>2, <2>4 DEF CalmUnlessTorn
  <2> QED BY <2>3, <2>4
<1>3. AuthorityInv /\ CalmUnlessTorn => EventsAccepted
  BY CalmAccepts DEF EventsAccepted, CalmUnlessTorn
<1> QED BY <1>1, <1>2, <1>3, PTL DEF AuthoritySpec
=============================================================================
