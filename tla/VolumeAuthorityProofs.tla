----------------------- MODULE VolumeAuthorityProofs -----------------------
(***************************************************************************)
(* The safety of the handoff of an opaque volume, for every set of         *)
(* suitcases, any number of workers at Home and one pass at a time at a    *)
(* suitcase, and any number of handoffs, captures, writes and setbacks.    *)
(* The snapshots are numbered as they were made, so the latest one a site  *)
(* knows is the greatest number it knows.  The argument follows the        *)
(* newest snapshot of all: it is of the authority, and only a handoff that *)
(* is still open can have a snapshot the authority at Home does not know.  *)
(* On it rests that no write is lost: the handoff committed last names the *)
(* writer, and every copy that can become the writer's holds every write.  *)
(***************************************************************************)
EXTENDS VolumeAuthority, WellFoundedInduction, TLAPS

-----------------------------------------------------------------------------
(* The inductive invariant.                                                *)

(* A suitcase advances its handoffs in one pass at a time.                 *)
OnePass ==
  \A w, v \in Workers : WorkerSite[w] = WorkerSite[v] /\ WorkerSite[w] # Home => w = v

Top == Len(snapshots)
AuthorityOf(n) == IF n = 0 THEN Home ELSE snapshots[n].authority
Captured(n) == snapshots[n].epoch = EpochOf(n - 1)
Source(t) == transfers[t].source
Target(t) == transfers[t].target
Expected(t) == transfers[t].expected

Over == {"snapshot-ready", "target-restoring", "target-ready"}
Restored == {"target-ready", "committed"}
Ops == {"created", "requested", "snapshot-ready", "target-ready", "committed", "failed",
        "aborted", "source-resumed"}

Snapshot == [authority : Sites, epoch : Nat, seq : Nat, parent : Nat, data : SUBSET Writes]
Transfer == [source : Sites, target : Sites, expected : Nat]
TransferRow == [state : States, snap : Nat, resumed : BOOLEAN, sent : SUBSET Ops]
JobStates == {"idle", "exported", "recorded", "restoring", "probing"}
Job == [at : JobStates, t : Nat, snap : Nat, data : SUBSET Writes]
Events == [op : Ops, t : Nat, snap : Nat, resumed : BOOLEAN]

TypesInv ==
  /\ snapshots \in Seq(Snapshot) /\ transfers \in Seq(Transfer)
  /\ known \in [Sites -> SUBSET (1..Len(snapshots))]
  /\ row \in [Sites -> [Transfers -> TransferRow]]
  /\ writer \in [Sites -> Sites] /\ volume \in [Sites -> SUBSET Writes]
  /\ up \subseteq Suitcases /\ placed \subseteq Suitcases
  /\ outgoing \in [Suitcases -> Seq(Events)] /\ incoming \in [Suitcases -> Seq(Events)]
  /\ job \in [Workers -> Job] /\ writes \in Nat

(* One line of snapshots: each was captured by the authority of the one    *)
(* before it, or a commit gave the authority away.  Home knows its own.    *)
LineInv ==
  /\ \A n \in 1..Top :
       /\ snapshots[n].seq = n /\ snapshots[n].parent = n - 1
       /\ Captured(n) \/ snapshots[n].epoch = EpochOf(n - 1) + 1
       /\ Captured(n) => AuthorityOf(n) = AuthorityOf(n - 1)
       /\ AuthorityOf(n) = Home => n \in known[Home]
  /\ \A m, n \in 1..Top : m <= n => snapshots[m].epoch <= snapshots[n].epoch

(* Home has one handoff open at a time, the newest, from its writer.       *)
TransfersInv ==
  /\ Len(transfers) <= MaxTransfers
  /\ \A t \in DOMAIN transfers :
       /\ Source(t) # Target(t) /\ Expected(t) <= Latest(Home)
       /\ row[Home][t].state # "none"
       /\ row[Home][t].state \in Active => t = Len(transfers) /\ Source(t) = writer[Home]
  /\ \A t, u \in DOMAIN transfers :
       /\ t <= u => Expected(t) <= Expected(u)
       /\ row[Home][t].state = "committed" /\ t < u => row[Home][t].snap <= Expected(u)

(* Snapshot k is the one that the source of handoff t handed over.         *)
Handed(t, k) ==
  k = Expected(t) + 1 /\ k \in 1..Top /\ AuthorityOf(k) = Source(t) /\ Captured(k)

RowSound(site, t, r) ==
  /\ r.state = "none" => r = NoRow
  /\ r.state # "none" => t \in DOMAIN transfers
  /\ r.snap \in {0} \cup known[site]
  /\ r.state \in Over \cup {"committed"} => r.snap # 0
  /\ r.snap # 0 /\ r.state # "committed" => Handed(t, r.snap)
  /\ r.state = "committed" => r.snap = Expected(t) + 2 /\ AuthorityOf(r.snap) = Target(t)

RowsInv == \A site \in Sites, t \in Transfers : RowSound(site, t, row[site][t])

(* A capture that may still be recorded extends the newest snapshot.       *)
JobSound(site, j) ==
  /\ j.at = "idle" => j = NoJob
  /\ j.at # "idle" => j.t \in DOMAIN transfers
  /\ j.at = "exported" =>
       /\ Source(j.t) = site /\ j.snap = Expected(j.t) /\ j.snap \in {0} \cup known[site]
       /\ Latest(site) = j.snap => j.snap = Top /\ AuthorityOf(Top) = site
  /\ j.at = "recorded" => Source(j.t) = site /\ Handed(j.t, j.snap) /\ j.snap \in known[site]
  /\ j.at \in {"restoring", "probing"} =>
       Target(j.t) = site /\ Handed(j.t, j.snap) /\ j.snap \in known[site]

(* At a suitcase nothing else moves the row of the pass under way.         *)
JobHasRow(j, state) ==
  /\ j.at \in {"exported", "recorded"} => state \in {"source-capturing"} \cup Broken
  /\ j.at \in {"restoring", "probing"} => state \in {"target-restoring"} \cup Broken

JobsInv ==
  \A w \in Workers :
    /\ JobSound(WorkerSite[w], job[w])
    /\ WorkerSite[w] # Home => JobHasRow(job[w], row[WorkerSite[w]][job[w].t].state)

Outs(s) == {outgoing[s][i] : i \in DOMAIN outgoing[s]}
Ins(s) == {incoming[s][i] : i \in DOMAIN incoming[s]}

EventSound(e) ==
  /\ e.op = "created" <=> e.t = 0
  /\ e.t # 0 => e.t \in DOMAIN transfers
  /\ e.op = "created" => e.snap \in 1..Top /\ Captured(e.snap)
  /\ e.op \in {"snapshot-ready", "target-ready"} => Handed(e.t, e.snap)
  /\ e.op = "committed" => row[Home][e.t].state = "committed" /\ e.snap = row[Home][e.t].snap
  /\ e.op \in Broken \cup {"requested", "source-resumed"} => e.snap = 0

(* The source hands over, the target is ready, each of them may break off  *)
(* at its own row, and only Home commits.                                  *)
OutSound(s, e) ==
  /\ EventSound(e) /\ e.op # "committed"
  /\ e.op = "snapshot-ready" => s = Source(e.t)
  /\ e.op = "target-ready" => s = Target(e.t)
  /\ e.op \in Broken => s \in {Source(e.t), Target(e.t)} /\ row[s][e.t].state \in Broken

InSound(s, e) ==
  /\ EventSound(e)
  /\ e.op = "snapshot-ready" => s # Source(e.t)
  /\ e.op = "target-ready" => s # Target(e.t)
  /\ e.op \in Broken => row[Home][e.t].state \in Broken

EventsInv ==
  \A s \in Suitcases :
    (\A e \in Outs(s) : OutSound(s, e)) /\ (\A e \in Ins(s) : InSound(s, e))

Told(s, op, t) == \E e \in Outs(s) : e.op = op /\ e.t = t

(* What Home was told of a handoff still holds at the site that told it.   *)
HandoffAt(t) ==
  /\ Source(t) # Home /\ (row[Home][t].snap # 0 \/ Told(Source(t), "snapshot-ready", t))
     => row[Source(t)][t].state \in Over \cup {"committed"}
  /\ Target(t) # Home /\ (row[Home][t].state \in Restored \/ Told(Target(t), "target-ready", t))
     => row[Target(t)][t].state \in Restored

HandoffInv == \A t \in DOMAIN transfers : row[Home][t].state \notin Broken => HandoffAt(t)

(* A commit took the authority from the site that had made snapshot n.     *)
HandedOver(site, n) ==
  \E t \in DOMAIN transfers :
    row[Home][t].state = "committed" /\ Source(t) = site /\ row[Home][t].snap = n + 1

OwnerInv ==
  /\ \A n \in Latest(Home)..Top : AuthorityOf(n) = writer[Home]
  /\ \A s \in Suitcases :
       /\ Latest(s) # 0 /\ AuthorityOf(Latest(s)) = s
          => Latest(s) = Top \/ HandedOver(s, Latest(s))
       /\ writer[s] = s => Latest(s) # 0 /\ AuthorityOf(Latest(s)) = s
       /\ \A n \in 1..Top : AuthorityOf(n) = s /\ n > Latest(s) => n = Top

(* The snapshot of the open handoff is the newest there is.                *)
Recorded(w, t) == WorkerSite[w] = Source(t) /\ job[w].at = "recorded" /\ job[w].t = t
Underway(t) ==
  \/ row[Source(t)][t].state \in Over
  \/ row[Source(t)][t].state \notin Broken /\ \E w \in Workers : Recorded(w, t)

UnderwayInv ==
  \A t \in DOMAIN transfers :
    row[Home][t].state \in Active /\ Underway(t) => Top = Expected(t) + 1

AuthorityInv ==
  /\ TypesInv /\ LineInv /\ TransfersInv /\ RowsInv /\ JobsInv
  /\ EventsInv /\ HandoffInv /\ OwnerInv /\ UnderwayInv

-----------------------------------------------------------------------------
(* Numbers: a set of them has a least one, a bounded one a greatest one.   *)
LEMMA LeastOne ==
  ASSUME NEW T \in SUBSET Nat, T # {}
  PROVE  \E x \in T : \A y \in T : x <= y
<1> DEFINE R == OpToRel(<, Nat)
<1>1. \E x \in T : \A y \in T : ~ (<<y, x>> \in R)
  BY NatLessThanWellFounded, WFMin
<1>2. \A x, y \in Nat : <<y, x>> \in R <=> y < x
  BY DEF OpToRel
<1> HIDE DEF R
<1>3. PICK x \in T : \A y \in T : ~ (<<y, x>> \in R)
  BY <1>1
<1>4. \A y \in T : ~ (y < x)
  BY <1>2, <1>3, Zenon
<1>5. \A y \in T : x <= y
  BY <1>4, SMT
<1> QED BY <1>5

LEMMA GreatestOne ==
  ASSUME NEW m \in Nat, NEW T \in SUBSET (1..m), T # {}
  PROVE  \E x \in T : \A y \in T : y <= x
<1> DEFINE D == {d \in Nat : \E x \in T : x + d = m}
<1>1. D # {}
  <2>1. PICK x \in T : TRUE
    OBVIOUS
  <2>2. m - x \in D
    BY <2>1
  <2> QED BY <2>2
<1>2. PICK d \in D : \A e \in D : d <= e
  <2> HIDE DEF D
  <2>1. D \in SUBSET Nat
    BY DEF D
  <2> QED BY <1>1, <2>1, LeastOne
<1>3. PICK x \in T : x + d = m
  BY <1>2
<1>4. ASSUME NEW y \in T
      PROVE  y <= x
  <2>1. m - y \in D
    OBVIOUS
  <2>2. d <= m - y
    BY <1>2, <2>1
  <2> QED BY <1>2, <1>3, <2>2
<1> QED BY <1>4

(* The latest snapshot is the greatest number known.                       *)
Newest(K, S) == CHOOSE n \in K : \A k \in K : ~ Above(S[k], S[n])

Rising(S, m) ==
  /\ \A n \in 1..m : S[n].seq = n /\ S[n].epoch \in Nat
  /\ \A n, k \in 1..m : n <= k => S[n].epoch <= S[k].epoch

LEMMA NewestIsGreatest ==
  ASSUME NEW m \in Nat, NEW S, Rising(S, m), NEW K \in SUBSET (1..m), K # {}
  PROVE  Newest(K, S) \in K /\ \A k \in K : k <= Newest(K, S)
<1>1. PICK g \in K : \A k \in K : k <= g
  BY GreatestOne
<1>2. ASSUME NEW k \in K
      PROVE  ~ Above(S[k], S[g])
  <2>1. k <= g /\ k \in 1..m /\ g \in 1..m
    BY <1>1
  <2>2. S[k].seq = k /\ S[g].seq = g /\ S[k].epoch \in Nat /\ S[g].epoch \in Nat
    BY <2>1 DEF Rising
  <2>3. S[k].epoch <= S[g].epoch
    BY <2>1 DEF Rising
  <2> QED BY <2>1, <2>2, <2>3 DEF Above
<1>3. \E n \in K : \A k \in K : ~ Above(S[k], S[n])
  BY <1>2
<1> DEFINE c == Newest(K, S)
<1>4. c \in K /\ \A k \in K : ~ Above(S[k], S[c])
  BY <1>3, Zenon DEF Newest
<1> HIDE DEF c
<1>5. ASSUME NEW k \in K
      PROVE  k <= c
  <2>1. k \in 1..m /\ c \in 1..m /\ ~ Above(S[k], S[c])
    BY <1>4
  <2>2. S[k].seq = k /\ S[c].seq = c /\ S[k].epoch \in Nat /\ S[c].epoch \in Nat
    BY <2>1 DEF Rising
  <2>3. c <= k => S[c].epoch <= S[k].epoch
    BY <2>1 DEF Rising
  <2> QED BY <2>1, <2>2, <2>3 DEF Above
<1> QED BY <1>4, <1>5 DEF c

(* K is what a site knows, and n the latest of it.                         *)
IsLatest(n, K) == IF K = {} THEN n = 0 ELSE n \in K /\ \A k \in K : k <= n

LEMMA LineRises ==
  ASSUME TypesInv, LineInv
  PROVE  Rising(snapshots, Len(snapshots)) /\ Len(snapshots) \in Nat
<1>1. Len(snapshots) \in Nat /\ \A n \in 1..Len(snapshots) : snapshots[n] \in Snapshot
  BY DEF TypesInv
<1>2. \A n \in 1..Len(snapshots) : snapshots[n].epoch \in Nat
  BY <1>1 DEF Snapshot
<1> QED BY <1>1, <1>2 DEF Rising, LineInv, Top

LEMMA LatestFacts ==
  ASSUME TypesInv, LineInv, NEW x \in Sites
  PROVE  IsLatest(Latest(x), known[x]) /\ Latest(x) \in 0..Len(snapshots)
<1>1. Rising(snapshots, Len(snapshots)) /\ Len(snapshots) \in Nat
  BY LineRises
<1>2. known[x] \in SUBSET (1..Len(snapshots))
  BY DEF TypesInv
<1>3. Latest(x) = IF known[x] = {} THEN 0 ELSE Newest(known[x], snapshots)
  BY DEF Latest, Newest
<1>4. CASE known[x] = {}
  BY <1>1, <1>3, <1>4 DEF IsLatest
<1>5. CASE known[x] # {}
  <2>1. /\ Newest(known[x], snapshots) \in known[x]
        /\ \A k \in known[x] : k <= Newest(known[x], snapshots)
    BY <1>1, <1>2, <1>5, NewestIsGreatest
  <2>2. Latest(x) = Newest(known[x], snapshots)
    BY <1>3, <1>5
  <2>3. Latest(x) \in 1..Len(snapshots)
    BY <1>2, <2>1, <2>2
  <2> QED BY <1>5, <2>1, <2>2, <2>3 DEF IsLatest
<1> QED BY <1>4, <1>5

LEMMA LatestFactsAfter ==
  ASSUME TypesInv', LineInv', NEW x \in Sites
  PROVE  IsLatest(Latest(x)', known'[x]) /\ Latest(x)' \in 0..Len(snapshots')
<1>1. Len(snapshots') \in Nat /\ \A n \in 1..Len(snapshots') : snapshots'[n] \in Snapshot
  BY DEF TypesInv
<1>2. \A n \in 1..Len(snapshots') : snapshots'[n].epoch \in Nat
  BY <1>1 DEF Snapshot
<1>3. Rising(snapshots', Len(snapshots'))
  BY <1>1, <1>2 DEF Rising, LineInv, Top
<1>4. known'[x] \in SUBSET (1..Len(snapshots'))
  BY DEF TypesInv
<1>5. Latest(x)' = IF known'[x] = {} THEN 0 ELSE Newest(known'[x], snapshots')
  BY DEF Latest, Newest
<1>6. CASE known'[x] = {}
  BY <1>1, <1>5, <1>6 DEF IsLatest
<1>7. CASE known'[x] # {}
  <2>1. /\ Newest(known'[x], snapshots') \in known'[x]
        /\ \A k \in known'[x] : k <= Newest(known'[x], snapshots')
    BY <1>1, <1>3, <1>4, <1>7, NewestIsGreatest
  <2>2. Latest(x)' = Newest(known'[x], snapshots')
    BY <1>5, <1>7
  <2>3. Latest(x)' \in 1..Len(snapshots')
    BY <1>4, <2>1, <2>2
  <2> QED BY <1>7, <2>1, <2>2, <2>3 DEF IsLatest
<1> QED BY <1>6, <1>7

-----------------------------------------------------------------------------
(* What only grows: the snapshots, what a site knows, the handoffs.        *)
Grown ==
  /\ Len(snapshots) <= Len(snapshots')
  /\ \A n \in 1..Len(snapshots) : snapshots'[n] = snapshots[n]
  /\ Len(transfers) <= Len(transfers')
  /\ \A t \in DOMAIN transfers : transfers'[t] = transfers[t]
  /\ \A x \in Sites : known[x] \subseteq known'[x]

(* What a row never takes back.                                            *)
RowsLast ==
  \A t \in DOMAIN transfers :
    /\ \A x \in Sites : row[x][t].state \in Broken => row'[x][t].state \in Broken
    /\ row[Home][t].state = "committed" =>
         row'[Home][t].state = "committed" /\ row'[Home][t].snap = row[Home][t].snap

LEMMA HomeIsSite == Home \in Sites /\ Home \notin Suitcases /\ Suitcases \subseteq Sites
BY AuthoritySites DEF Sites

LEMMA WorkersHaveSites ==
  ASSUME NEW w \in Workers
  PROVE  WorkerSite[w] \in Sites
BY AuthoritySites DEF Sites, Workers

LEMMA TypeFacts ==
  ASSUME TypesInv
  PROVE  /\ Len(snapshots) \in Nat /\ Len(transfers) \in Nat
         /\ DOMAIN snapshots = 1..Len(snapshots) /\ DOMAIN transfers = 1..Len(transfers)
         /\ \A n \in 1..Len(snapshots) :
              snapshots[n] \in Snapshot /\ snapshots[n].epoch \in Nat
              /\ snapshots[n].authority \in Sites
         /\ \A t \in DOMAIN transfers :
              Source(t) \in Sites /\ Target(t) \in Sites /\ Expected(t) \in Nat
         /\ \A x \in Sites : known[x] \subseteq 1..Len(snapshots)
<1>1. snapshots \in Seq(Snapshot) /\ transfers \in Seq(Transfer)
  BY DEF TypesInv
<1>2. /\ Len(snapshots) \in Nat /\ Len(transfers) \in Nat
      /\ DOMAIN snapshots = 1..Len(snapshots) /\ DOMAIN transfers = 1..Len(transfers)
      /\ \A n \in 1..Len(snapshots) : snapshots[n] \in Snapshot
      /\ \A t \in DOMAIN transfers : transfers[t] \in Transfer
  BY <1>1
<1>3. \A n \in 1..Len(snapshots) :
        snapshots[n].epoch \in Nat /\ snapshots[n].authority \in Sites
  BY <1>2 DEF Snapshot
<1>4. \A t \in DOMAIN transfers :
        Source(t) \in Sites /\ Target(t) \in Sites /\ Expected(t) \in Nat
  BY <1>2 DEF Transfer, Source, Target, Expected
<1>5. \A x \in Sites : known[x] \subseteq 1..Len(snapshots)
  BY DEF TypesInv
<1> QED BY <1>2, <1>3, <1>4, <1>5

LEMMA GrownFacts ==
  ASSUME TypesInv, TypesInv', Grown
  PROVE  /\ Top \in Nat /\ Top' \in Nat /\ Top <= Top'
         /\ \A n \in 0..Top : AuthorityOf(n)' = AuthorityOf(n)
         /\ \A n \in 1..Top : n \in 1..Top' /\ (Captured(n)' <=> Captured(n))
         /\ \A t \in DOMAIN transfers :
              /\ t \in DOMAIN transfers' /\ Source(t)' = Source(t)
              /\ Target(t)' = Target(t) /\ Expected(t)' = Expected(t)
<1>1. Top \in Nat /\ Top' \in Nat /\ Top <= Top'
  BY DEF TypesInv, Top, Grown
<1>2. \A n \in 1..Top : n \in 1..Top' /\ snapshots'[n] = snapshots[n]
  BY <1>1 DEF Grown, Top
<1>3. ASSUME NEW n \in 0..Top
      PROVE  AuthorityOf(n)' = AuthorityOf(n) /\ EpochOf(n)' = EpochOf(n)
  <2>1. CASE n = 0
    BY <2>1 DEF AuthorityOf, EpochOf
  <2>2. CASE n # 0
    <3>1. snapshots'[n] = snapshots[n]
      BY <1>1, <1>2, <2>2
    <3> QED BY <2>2, <3>1 DEF AuthorityOf, EpochOf
  <2> QED BY <2>1, <2>2
<1>4. ASSUME NEW n \in 1..Top
      PROVE  Captured(n)' <=> Captured(n)
  <2>1. n - 1 \in 0..Top
    BY <1>1
  <2>2. EpochOf(n - 1)' = EpochOf(n - 1) /\ snapshots'[n] = snapshots[n]
    BY <1>2, <1>3, <2>1
  <2> QED BY <2>2 DEF Captured
<1>5. \A t \in DOMAIN transfers : t \in DOMAIN transfers'
  <2>1. /\ Len(transfers) \in Nat /\ Len(transfers') \in Nat
        /\ DOMAIN transfers = 1..Len(transfers) /\ DOMAIN transfers' = 1..Len(transfers')
    BY DEF TypesInv
  <2> QED BY <2>1 DEF Grown
<1>6. \A t \in DOMAIN transfers :
        Source(t)' = Source(t) /\ Target(t)' = Target(t) /\ Expected(t)' = Expected(t)
  BY DEF Grown, Source, Target, Expected
<1> QED BY <1>1, <1>2, <1>3, <1>4, <1>5, <1>6

LEMMA HandedKept ==
  ASSUME TypesInv, TypesInv', Grown, NEW t \in DOMAIN transfers, NEW k, Handed(t, k)
  PROVE  Handed(t, k)'
<1>1. k \in 1..Top /\ k \in 0..Top
  BY DEF Handed, TypesInv, Top
<1>2. /\ AuthorityOf(k)' = AuthorityOf(k) /\ (Captured(k)' <=> Captured(k)) /\ k \in 1..Top'
      /\ Source(t)' = Source(t) /\ Expected(t)' = Expected(t)
  BY <1>1, GrownFacts
<1> QED BY <1>2 DEF Handed

LEMMA LatestGrows ==
  ASSUME TypesInv, TypesInv', LineInv, LineInv', Grown, NEW x \in Sites
  PROVE  /\ Latest(x) <= Latest(x)' /\ Latest(x) \in 0..Top /\ Latest(x)' \in 0..Top'
         /\ known'[x] = known[x] => Latest(x)' = Latest(x)
<1> DEFINE m == Latest(x)
           n == Latest(x)'
<1>1. IsLatest(m, known[x]) /\ m \in 0..Top
  BY LatestFacts DEF Top
<1>2. IsLatest(n, known'[x]) /\ n \in 0..Top'
  BY LatestFactsAfter DEF Top
<1>3. known[x] \subseteq known'[x]
  BY DEF Grown
<1> HIDE DEF m, n
<1>4. m <= n
  BY <1>1, <1>2, <1>3 DEF IsLatest
<1>5. known'[x] = known[x] => n = m
  BY <1>1, <1>2 DEF IsLatest
<1> QED BY <1>1, <1>2, <1>4, <1>5 DEF m, n

LEMMA LatestAdded ==
  ASSUME TypesInv, TypesInv', LineInv, LineInv', Grown, NEW x \in Sites,
         NEW k \in Nat, known'[x] = known[x] \cup {k}
  PROVE  Latest(x)' = IF Latest(x) < k THEN k ELSE Latest(x)
<1> DEFINE m == Latest(x)
           n == Latest(x)'
<1>1. IsLatest(m, known[x]) /\ m \in 0..Top
  BY LatestFacts DEF Top
<1>2. IsLatest(n, known'[x]) /\ n \in 0..Top'
  BY LatestFactsAfter DEF Top
<1> HIDE DEF m, n
<1>3. n \in known'[x] /\ \A i \in known'[x] : i <= n
  BY <1>2 DEF IsLatest
<1>4. n \in known[x] \cup {k} /\ k <= n
  BY <1>3
<1>5. known[x] = {} => n = IF m < k THEN k ELSE m
  BY <1>1, <1>2, <1>4 DEF IsLatest
<1>6. ASSUME known[x] # {}
      PROVE  n = IF m < k THEN k ELSE m
  <2>1. m \in known[x] /\ m <= n /\ \A i \in known[x] : i <= m
    BY <1>1, <1>3, <1>6 DEF IsLatest
  <2>2. n \in known[x] => n <= m
    BY <2>1
  <2> QED BY <1>1, <1>2, <1>4, <2>1, <2>2
<1> QED BY <1>5, <1>6 DEF m, n

-----------------------------------------------------------------------------
(* What every step keeps of the rows, the events and the jobs that it      *)
(* leaves alone.                                                           *)
LEMMA RowSoundKept ==
  ASSUME TypesInv, TypesInv', Grown, NEW x \in Sites, NEW t, NEW r, RowSound(x, t, r)
  PROVE  RowSound(x, t, r)'
<1>1. r.snap \in {0} \cup known[x] /\ r.snap \in 0..Top
  BY DEF RowSound, TypesInv, Top
<1>2. /\ AuthorityOf(r.snap)' = AuthorityOf(r.snap)
      /\ t \in DOMAIN transfers =>
           /\ t \in DOMAIN transfers' /\ Target(t)' = Target(t) /\ Expected(t)' = Expected(t)
  BY <1>1, GrownFacts
<1>3. r.snap \in {0} \cup known'[x]
  BY <1>1 DEF Grown
<1>4. r.snap # 0 /\ r.state # "committed" => Handed(t, r.snap)'
  <2> SUFFICES ASSUME r.snap # 0, r.state # "committed"
               PROVE  Handed(t, r.snap)'
    OBVIOUS
  <2>1. r.state # "none"
    BY DEF RowSound, NoRow
  <2> QED BY <2>1, HandedKept DEF RowSound
<1>5. r.state = "committed" =>
        r.snap = Expected(t)' + 2 /\ AuthorityOf(r.snap)' = Target(t)'
  BY <1>2 DEF RowSound
<1>6. r.state # "none" => t \in DOMAIN transfers'
  BY <1>2 DEF RowSound
<1> QED BY <1>3, <1>4, <1>5, <1>6 DEF RowSound

LEMMA RowsKept ==
  ASSUME TypesInv, TypesInv', Grown, RowsInv,
         \A x \in Sites, t \in Transfers :
           row'[x][t] = row[x][t] \/ \E r : row'[x][t] = r /\ RowSound(x, t, r)'
  PROVE  RowsInv'
<1> SUFFICES ASSUME NEW x \in Sites, NEW t \in Transfers
             PROVE  RowSound(x, t, row[x][t])'
  BY DEF RowsInv
<1>1. PICK r : row'[x][t] = r /\ RowSound(x, t, r)'
  <2>1. CASE row'[x][t] = row[x][t]
    <3>1. PICK r : r = row[x][t]
      OBVIOUS
    <3>2. RowSound(x, t, r)
      BY <3>1 DEF RowsInv
    <3>3. RowSound(x, t, r)'
      BY <3>2, RowSoundKept
    <3> QED BY <2>1, <3>1, <3>3
  <2> QED BY <2>1
<1> QED BY <1>1 DEF RowSound

LEMMA EventSoundKept ==
  ASSUME TypesInv, TypesInv', Grown, RowsLast, NEW e, EventSound(e)
  PROVE  EventSound(e)'
<1>1. e.t # 0 => e.t \in DOMAIN transfers /\ e.t \in DOMAIN transfers'
  BY GrownFacts DEF EventSound
<1>2. e.op = "created" => e.snap \in 1..Top' /\ Captured(e.snap)'
  BY GrownFacts DEF EventSound
<1>3. e.op \in {"snapshot-ready", "target-ready"} => Handed(e.t, e.snap)'
  <2> SUFFICES ASSUME e.op \in {"snapshot-ready", "target-ready"}
               PROVE  Handed(e.t, e.snap)'
    OBVIOUS
  <2>1. e.t \in DOMAIN transfers /\ Handed(e.t, e.snap)
    BY DEF EventSound
  <2> QED BY <2>1, HandedKept
<1>4. e.op = "committed" =>
        row'[Home][e.t].state = "committed" /\ e.snap = row'[Home][e.t].snap
  BY DEF EventSound, RowsLast
<1> QED BY <1>1, <1>2, <1>3, <1>4 DEF EventSound

LEMMA EventsKept ==
  ASSUME TypesInv, TypesInv', Grown, RowsLast, EventsInv,
         \A s \in Suitcases : \A e \in Outs(s)' : e \in Outs(s) \/ OutSound(s, e)',
         \A s \in Suitcases : \A e \in Ins(s)' : e \in Ins(s) \/ InSound(s, e)'
  PROVE  EventsInv'
<1>1. ASSUME NEW s \in Suitcases, NEW e \in Outs(s)'
      PROVE  OutSound(s, e)'
  <2> SUFFICES ASSUME OutSound(s, e)
               PROVE  OutSound(s, e)'
    BY DEF EventsInv
  <2>1. EventSound(e) /\ s \in Sites
    BY HomeIsSite DEF OutSound
  <2>2. EventSound(e)'
    BY <2>1, EventSoundKept
  <2>3. e.op \in {"snapshot-ready", "target-ready"} \cup Broken =>
          /\ e.t \in DOMAIN transfers /\ Source(e.t)' = Source(e.t)
          /\ Target(e.t)' = Target(e.t)
    BY <2>1, GrownFacts DEF EventSound, Broken
  <2>4. e.op \in Broken => row'[s][e.t].state \in Broken
    BY <2>1, <2>3 DEF OutSound, RowsLast
  <2> QED BY <2>2, <2>3, <2>4 DEF OutSound
<1>2. ASSUME NEW s \in Suitcases, NEW e \in Ins(s)'
      PROVE  InSound(s, e)'
  <2> SUFFICES ASSUME InSound(s, e)
               PROVE  InSound(s, e)'
    BY DEF EventsInv
  <2>1. EventSound(e)
    BY DEF InSound
  <2>2. EventSound(e)'
    BY <2>1, EventSoundKept
  <2>3. e.op \in {"snapshot-ready", "target-ready"} \cup Broken =>
          /\ e.t \in DOMAIN transfers /\ Source(e.t)' = Source(e.t)
          /\ Target(e.t)' = Target(e.t)
    BY <2>1, GrownFacts DEF EventSound, Broken
  <2>4. e.op \in Broken => row'[Home][e.t].state \in Broken
    BY <2>3, HomeIsSite DEF InSound, RowsLast
  <2> QED BY <2>2, <2>3, <2>4 DEF InSound
<1> QED BY <1>1, <1>2 DEF EventsInv

(* Between a capture and its record no other may have come.                *)
LEMMA JobSoundKept ==
  ASSUME TypesInv, TypesInv', LineInv, LineInv', Grown, NEW x \in Sites, NEW j \in Job,
         JobSound(x, j),
         j.at = "exported" /\ j.snap = Top /\ AuthorityOf(Top) = x /\ Latest(x)' = Top
           => Top' = Top
  PROVE  JobSound(x, j)'
<1>1. j.at # "idle" =>
        /\ j.t \in DOMAIN transfers /\ j.t \in DOMAIN transfers' /\ Source(j.t)' = Source(j.t)
        /\ Target(j.t)' = Target(j.t) /\ Expected(j.t)' = Expected(j.t)
  BY GrownFacts DEF JobSound
<1>2. j.at = "exported" =>
        /\ Source(j.t)' = x /\ j.snap = Expected(j.t)' /\ j.snap \in {0} \cup known'[x]
        /\ Latest(x)' = j.snap => j.snap = Top' /\ AuthorityOf(Top)' = x
  <2> SUFFICES ASSUME j.at = "exported"
               PROVE  /\ Source(j.t)' = x /\ j.snap = Expected(j.t)'
                      /\ j.snap \in {0} \cup known'[x]
                      /\ Latest(x)' = j.snap => j.snap = Top' /\ AuthorityOf(Top)' = x
    OBVIOUS
  <2>1. /\ Source(j.t)' = x /\ j.snap = Expected(j.t)' /\ j.snap \in {0} \cup known[x]
        /\ j.snap \in {0} \cup known'[x]
    BY <1>1 DEF JobSound, Grown
  <2>2. ASSUME Latest(x)' = j.snap
        PROVE  j.snap = Top' /\ AuthorityOf(Top)' = x
    <3>1. Latest(x) <= Latest(x)' /\ Latest(x) \in 0..Top /\ Top \in Nat
      BY LatestGrows, GrownFacts
    <3>2. j.snap <= Latest(x) /\ j.snap \in Nat
      <4>1. IsLatest(Latest(x), known[x])
        BY LatestFacts
      <4>2. j.snap \in 0..Top
        BY <2>1 DEF TypesInv, Top
      <4>3. j.snap <= Latest(x)
        BY <2>1, <3>1, <4>1 DEF IsLatest
      <4> QED BY <4>2, <4>3
    <3>3. Latest(x) = j.snap
      BY <2>2, <3>1, <3>2
    <3>4. j.snap = Top /\ AuthorityOf(Top) = x
      BY <3>3 DEF JobSound
    <3>5. Top' = Top
      BY <2>2, <3>4
    <3>6. PICK m \in 0..Top : m = Top
      BY <3>1
    <3>7. AuthorityOf(m)' = AuthorityOf(m)
      BY GrownFacts
    <3>8. AuthorityOf(Top)' = AuthorityOf(m)'
      BY <3>5, <3>6 DEF AuthorityOf
    <3>9. AuthorityOf(m) = x
      BY <3>4, <3>6
    <3> QED BY <3>4, <3>5, <3>7, <3>8, <3>9
  <2> QED BY <2>1, <2>2
<1>3. j.at \in {"recorded", "restoring", "probing"} =>
        Handed(j.t, j.snap)' /\ j.snap \in known'[x]
  <2> SUFFICES ASSUME j.at \in {"recorded", "restoring", "probing"}
               PROVE  Handed(j.t, j.snap)' /\ j.snap \in known'[x]
    OBVIOUS
  <2>1. j.t \in DOMAIN transfers /\ Handed(j.t, j.snap) /\ j.snap \in known[x]
    BY <1>1 DEF JobSound
  <2> QED BY <2>1, HandedKept DEF Grown
<1> QED BY <1>1, <1>2, <1>3 DEF JobSound

LEMMA HandedOverKept ==
  ASSUME TypesInv, TypesInv', Grown, RowsLast, NEW x \in Sites, NEW n, HandedOver(x, n)
  PROVE  HandedOver(x, n)'
<1>1. PICK t \in DOMAIN transfers :
        row[Home][t].state = "committed" /\ Source(t) = x /\ row[Home][t].snap = n + 1
  BY DEF HandedOver
<1>2. /\ t \in DOMAIN transfers' /\ Source(t)' = x
      /\ row'[Home][t].state = "committed" /\ row'[Home][t].snap = n + 1
  BY <1>1, GrownFacts DEF RowsLast
<1> QED BY <1>2 DEF HandedOver

-----------------------------------------------------------------------------
(* Who has the newest snapshot.                                            *)
LEMMA TopIsOfTheWriter ==
  ASSUME AuthorityInv
  PROVE  /\ AuthorityOf(Top) = writer[Home] /\ AuthorityOf(Latest(Home)) = writer[Home]
         /\ Latest(Home) \in 0..Top /\ Top \in Nat
<1>1. Latest(Home) \in 0..Top /\ Top \in Nat
  BY LatestFacts, HomeIsSite, TypeFacts DEF AuthorityInv, Top
<1>2. Top \in Latest(Home)..Top /\ Latest(Home) \in Latest(Home)..Top
  BY <1>1
<1>3. \A n \in Latest(Home)..Top : AuthorityOf(n) = writer[Home]
  BY DEF AuthorityInv, OwnerInv
<1> QED BY <1>1, <1>2, <1>3

LEMMA HomeHasTheNewest ==
  ASSUME AuthorityInv, writer[Home] = Home
  PROVE  Latest(Home) = Top
<1>1. AuthorityOf(Top) = Home /\ Latest(Home) \in 0..Top /\ Top \in Nat
  BY TopIsOfTheWriter
<1>2. Top # 0 => Top \in known[Home]
  BY <1>1 DEF AuthorityInv, LineInv
<1>3. IsLatest(Latest(Home), known[Home])
  BY LatestFacts, HomeIsSite DEF AuthorityInv
<1>4. Top # 0 => Top <= Latest(Home)
  BY <1>2, <1>3 DEF IsLatest
<1> QED BY <1>1, <1>4

(* A suitcase of whose own the latest snapshot is that it knows has the    *)
(* newest one, or it has handed that one over.                             *)
LEMMA OwnerHasTheNewest ==
  ASSUME AuthorityInv, NEW s \in Suitcases, Latest(s) # 0, AuthorityOf(Latest(s)) = s
  PROVE  \/ Latest(s) = Top
         \/ \E t \in DOMAIN transfers :
              /\ row[Home][t].state = "committed" /\ Source(t) = s
              /\ Expected(t) + 2 = Latest(s) + 1 /\ row[s][t].state \in Over
<1> SUFFICES ASSUME Latest(s) # Top
             PROVE  \E t \in DOMAIN transfers :
                      /\ row[Home][t].state = "committed" /\ Source(t) = s
                      /\ Expected(t) + 2 = Latest(s) + 1 /\ row[s][t].state \in Over
  OBVIOUS
<1>1. HandedOver(s, Latest(s))
  BY DEF AuthorityInv, OwnerInv
<1>2. PICK t \in DOMAIN transfers :
        row[Home][t].state = "committed" /\ Source(t) = s /\ row[Home][t].snap = Latest(s) + 1
  BY <1>1 DEF HandedOver
<1>3. s \in Sites /\ s # Home /\ t \in Transfers
  <2>1. Len(transfers) <= MaxTransfers /\ MaxTransfers \in Nat /\ t \in 1..Len(transfers)
        /\ Len(transfers) \in Nat
    BY TypeFacts, AuthorityBounds DEF AuthorityInv, TransfersInv
  <2> QED BY <2>1, HomeIsSite DEF Transfers
<1>4. RowSound(Home, t, row[Home][t]) /\ RowSound(s, t, row[s][t])
  BY <1>3, HomeIsSite DEF AuthorityInv, RowsInv
<1>5. row[Home][t].snap # 0 /\ row[Home][t].snap = Expected(t) + 2
  BY <1>2, <1>4 DEF RowSound
<1>6. HandoffAt(t)
  BY <1>2 DEF AuthorityInv, HandoffInv, Broken
<1>7. row[s][t].state \in Over \cup {"committed"}
  BY <1>2, <1>3, <1>5, <1>6 DEF HandoffAt
<1>8. row[s][t].state # "committed"
  <2> SUFFICES ASSUME row[s][t].state = "committed"
               PROVE  FALSE
    OBVIOUS
  <2>1. row[s][t].snap = Latest(s) + 1 /\ row[s][t].snap \in {0} \cup known[s]
    BY <1>2, <1>4, <1>5 DEF RowSound
  <2>2. IsLatest(Latest(s), known[s]) /\ Latest(s) \in 0..Len(snapshots)
    BY <1>3, LatestFacts DEF AuthorityInv
  <2> QED BY <2>1, <2>2 DEF IsLatest
<1> QED BY <1>2, <1>5, <1>7, <1>8

LEMMA HandoffsAreTransfers ==
  ASSUME AuthorityInv
  PROVE  /\ DOMAIN transfers \subseteq Transfers /\ DOMAIN transfers \subseteq Nat
         /\ 0 \notin DOMAIN transfers
<1>1. Len(transfers) <= MaxTransfers /\ MaxTransfers \in Nat /\ Len(transfers) \in Nat
      /\ DOMAIN transfers = 1..Len(transfers)
  BY TypeFacts, AuthorityBounds DEF AuthorityInv, TransfersInv
<1> QED BY <1>1 DEF Transfers

(* currentAuthorityBoundary is right where it names the site that asks.    *)
LEMMA AuthoritySiteFacts ==
  ASSUME AuthorityInv, NEW x \in Sites, AuthoritySite(x) = x
  PROVE  /\ x \in Suitcases => Latest(x) # 0
         /\ AuthorityOf(Latest(x)) = x
         /\ x = Home => Latest(x) = Top /\ writer[Home] = Home
<1>1. CASE x = Home
  <2>1. writer[Home] = Home
    BY <1>1, TopIsOfTheWriter DEF AuthoritySite, AuthorityOf
  <2> QED BY <1>1, <2>1, HomeHasTheNewest, TopIsOfTheWriter, HomeIsSite
<1>2. CASE x # Home
  <2>1. x \in Suitcases
    BY <1>2 DEF Sites
  <2>2. Latest(x) # 0
    BY <2>1 DEF AuthoritySite, AuthorityInv, OwnerInv
  <2> QED BY <1>2, <2>1, <2>2 DEF AuthoritySite, AuthorityOf
<1> QED BY <1>1, <1>2

LEMMA OldestIsActive ==
  ASSUME NEW x, NEW t \in ActiveRows(x)
  PROVE  OldestActive(x) \in ActiveRows(x) /\ \A u \in ActiveRows(x) : OldestActive(x) <= u
<1>1. ActiveRows(x) \in SUBSET Nat
  BY DEF ActiveRows, Transfers
<1>2. \E o \in ActiveRows(x) : \A u \in ActiveRows(x) : o <= u
  BY <1>1, LeastOne
<1> QED BY <1>2, Zenon DEF OldestActive

-----------------------------------------------------------------------------
(* A step that moves one row, tells of it and ends a job.                  *)
SameSnapshots == UNCHANGED <<snapshots, known, writer>>
SameLine == SameSnapshots /\ transfers' = transfers

SitesTyped ==
  /\ volume \in [Sites -> SUBSET Writes] /\ writes \in Nat
  /\ up \subseteq Suitcases /\ placed \subseteq Suitcases

(* No events but those of E are new, and those come from site x.           *)
Posted(x, E) ==
  /\ outgoing' \in [Suitcases -> Seq(Events)] /\ incoming' \in [Suitcases -> Seq(Events)]
  /\ \A s \in Suitcases :
       /\ Outs(s)' \subseteq Outs(s) \cup IF s = x THEN E ELSE {}
       /\ Ins(s)' \subseteq Ins(s) \cup IF x = Home THEN E ELSE {}

JobsEnd(x) ==
  /\ job' \in [Workers -> Job]
  /\ \A w \in Workers :
       /\ job'[w] \in {job[w], NoJob}
       /\ WorkerSite[w] = x /\ x # Home => job'[w] = NoJob

RowAllowed(x, t, r) ==
  /\ r \in TransferRow /\ RowSound(x, t, r) /\ r.state # "none"
  /\ r.state = "committed" <=> row[x][t].state = "committed"
  /\ r.state = "committed" => r.snap = row[x][t].snap
  /\ row[x][t].state \in Broken => r.state \in Broken
  /\ r.state \in Active => row[x][t].state \in Active
  /\ x = Home /\ r.state \notin Broken =>
       /\ r.snap # 0 /\ Source(t) # Home => row[x][t].snap # 0
       /\ r.state \in Restored /\ Target(t) # Home => row[x][t].state \in Restored
  /\ x # Home =>
       /\ x = Source(t) /\ row[x][t].state \in Over \cup {"committed"}
            => r.state \in Over \cup {"committed"}
       /\ x = Target(t) /\ row[x][t].state \in Restored => r.state \in Restored
  /\ x = Source(t) /\ r.state \in Over => Underway(t)

EventAllowed(x, t, r, e) ==
  /\ EventSound(e) /\ e.t = t
  /\ e.op = "committed" => x = Home
  /\ e.op = "snapshot-ready" => x = Source(t) /\ r.state \in Over \cup {"committed"}
  /\ e.op = "target-ready" => x = Target(t) /\ r.state \in Restored
  /\ e.op \in Broken => r.state \in Broken /\ x \in {Home, Source(t), Target(t)}

LEMMA RowUpdate ==
  ASSUME NEW f \in [Sites -> [Transfers -> TransferRow]], NEW x \in Sites, NEW t \in Transfers,
         NEW r \in TransferRow, NEW g, g = [f EXCEPT ![x][t] = r]
  PROVE  /\ g \in [Sites -> [Transfers -> TransferRow]] /\ g[x][t] = r
         /\ \A y \in Sites, u \in Transfers : y # x \/ u # t => g[y][u] = f[y][u]
OBVIOUS

LEMMA TypesFrom ==
  ASSUME TypesInv, SameLine, SitesTyped',
         row' \in [Sites -> [Transfers -> TransferRow]], job' \in [Workers -> Job],
         outgoing' \in [Suitcases -> Seq(Events)], incoming' \in [Suitcases -> Seq(Events)]
  PROVE  TypesInv' /\ Grown
BY DEF TypesInv, SameLine, SameSnapshots, SitesTyped, Grown

LEMMA SameLineKeeps ==
  ASSUME TypesInv, TypesInv', LineInv, Grown, SameSnapshots
  PROVE  /\ LineInv' /\ \A x \in Sites : Latest(x)' = Latest(x)
         /\ Top' = Top /\ \A n \in 0..Top : AuthorityOf(n)' = AuthorityOf(n)
<1>1. Top' = Top /\ (\A n \in 0..Top : AuthorityOf(n)' = AuthorityOf(n))
      /\ \A n \in 1..Top : Captured(n)' <=> Captured(n)
  BY GrownFacts DEF SameSnapshots, Top
<1>2. \A n \in 1..Top : EpochOf(n - 1)' = EpochOf(n - 1)
  BY DEF SameSnapshots, EpochOf
<1>3. LineInv'
  <2>1. \A n \in 1..Top' : AuthorityOf(n)' = AuthorityOf(n)
                           /\ AuthorityOf(n - 1)' = AuthorityOf(n - 1)
    <3>1. Top \in Nat
      BY TypeFacts DEF Top
    <3> QED BY <1>1, <3>1
  <2> QED BY <1>1, <1>2, <2>1 DEF LineInv, SameSnapshots
<1>4. \A x \in Sites : Latest(x)' = Latest(x)
  BY <1>3, LatestGrows DEF SameSnapshots
<1> QED BY <1>1, <1>3, <1>4

LEMMA OwnerKept ==
  ASSUME AuthorityInv, TypesInv', LineInv', Grown, SameSnapshots, RowsLast
  PROVE  OwnerInv'
<1>1. /\ \A x \in Sites : Latest(x)' = Latest(x) /\ Latest(x) \in 0..Top
      /\ Top' = Top /\ Top \in Nat
      /\ \A n \in 0..Top : AuthorityOf(n)' = AuthorityOf(n)
  BY SameLineKeeps, LatestFacts, TypeFacts DEF AuthorityInv, Top
<1>2. \A n \in Latest(Home)'..Top' : AuthorityOf(n)' = writer'[Home]
  BY <1>1, HomeIsSite DEF AuthorityInv, OwnerInv, SameSnapshots
<1>3. ASSUME NEW s \in Suitcases
      PROVE  /\ Latest(s)' # 0 /\ AuthorityOf(Latest(s))' = s
                => Latest(s)' = Top' \/ HandedOver(s, Latest(s))'
             /\ writer'[s] = s => Latest(s)' # 0 /\ AuthorityOf(Latest(s))' = s
             /\ \A n \in 1..Top' : AuthorityOf(n)' = s /\ n > Latest(s)' => n = Top'
  <2>1. PICK m \in 0..Top : m = Latest(s)
    BY <1>1, HomeIsSite
  <2>2. /\ Latest(s)' = m /\ AuthorityOf(m)' = AuthorityOf(m)
        /\ AuthorityOf(Latest(s)) = AuthorityOf(m)
    BY <1>1, <2>1, HomeIsSite
  <2>3. AuthorityOf(Latest(s))' = AuthorityOf(m)
    BY <2>2 DEF AuthorityOf
  <2>4. HandedOver(s, m) => HandedOver(s, m)'
    BY HandedOverKept, HomeIsSite DEF AuthorityInv
  <2>5. HandedOver(s, m)' => HandedOver(s, Latest(s))'
    BY <2>2 DEF HandedOver
  <2>6. HandedOver(s, Latest(s)) => HandedOver(s, m)
    BY <2>1
  <2>7. /\ m # 0 /\ AuthorityOf(m) = s => m = Top \/ HandedOver(s, m)
        /\ writer[s] = s => m # 0 /\ AuthorityOf(m) = s
        /\ \A n \in 1..Top : AuthorityOf(n) = s /\ n > m => n = Top
    BY <2>1, <2>2 DEF AuthorityInv, OwnerInv
  <2>8. \A n \in 1..Top' : AuthorityOf(n)' = s /\ n > m => n = Top'
    BY <1>1, <2>7
  <2> QED BY <1>1, <2>2, <2>3, <2>4, <2>5, <2>7, <2>8 DEF SameSnapshots
<1> QED BY <1>2, <1>3 DEF OwnerInv

LEMMA RowStep ==
  ASSUME AuthorityInv, NEW x \in Sites, NEW t \in DOMAIN transfers, NEW r, NEW E,
         RowAllowed(x, t, r), \A e \in E : EventAllowed(x, t, r, e),
         SameLine, SitesTyped', row' = [row EXCEPT ![x][t] = r], Posted(x, E), JobsEnd(x)
  PROVE  AuthorityInv'
<1>1. /\ row' \in [Sites -> [Transfers -> TransferRow]] /\ row'[x][t] = r
      /\ \A y \in Sites, u \in Transfers : y # x \/ u # t => row'[y][u] = row[y][u]
      /\ t \in Transfers
  <2>1. t \in Transfers /\ row \in [Sites -> [Transfers -> TransferRow]] /\ r \in TransferRow
    BY HandoffsAreTransfers DEF AuthorityInv, TypesInv, RowAllowed
  <2> QED BY <2>1, RowUpdate
<1>2. \A y \in Sites, u \in DOMAIN transfers : y # x \/ u # t => row'[y][u] = row[y][u]
  BY <1>1, HandoffsAreTransfers
<1>3. TypesInv /\ LineInv /\ TypesInv' /\ Grown
  BY <1>1, TypesFrom DEF AuthorityInv, Posted, JobsEnd
<1>4. LineInv' /\ (\A y \in Sites : Latest(y)' = Latest(y)) /\ Top' = Top
  BY <1>3, SameLineKeeps DEF SameLine
<1>5. RowsLast
  <2> SUFFICES ASSUME NEW u \in DOMAIN transfers
               PROVE  /\ \A y \in Sites :
                           row[y][u].state \in Broken => row'[y][u].state \in Broken
                      /\ row[Home][u].state = "committed" =>
                           row'[Home][u].state = "committed"
                           /\ row'[Home][u].snap = row[Home][u].snap
    BY DEF RowsLast
  <2>1. ASSUME NEW y \in Sites, row[y][u].state \in Broken
        PROVE  row'[y][u].state \in Broken
    BY <1>1, <1>2, <2>1 DEF RowAllowed
  <2>2. row[Home][u].state = "committed" =>
          row'[Home][u].state = "committed" /\ row'[Home][u].snap = row[Home][u].snap
    BY <1>1, <1>2, HomeIsSite DEF RowAllowed
  <2> QED BY <2>1, <2>2
<1>6. DOMAIN transfers' = DOMAIN transfers /\ transfers' = transfers
      /\ \A u : Source(u)' = Source(u) /\ Target(u)' = Target(u) /\ Expected(u)' = Expected(u)
  BY DEF SameLine, SameSnapshots, Source, Target, Expected
<1>7. \A u \in DOMAIN transfers :
        /\ row'[Home][u].state # "none"
        /\ row'[Home][u].state \in Active => row[Home][u].state \in Active
        /\ row'[Home][u].state = "committed" =>
             row[Home][u].state = "committed" /\ row'[Home][u].snap = row[Home][u].snap
  BY <1>1, <1>2, HomeIsSite DEF RowAllowed, AuthorityInv, TransfersInv
<1>8. TransfersInv'
  BY <1>4, <1>6, <1>7, HomeIsSite DEF AuthorityInv, TransfersInv, SameLine, SameSnapshots
<1>9. RowsInv'
  <2>1. ASSUME NEW y \in Sites, NEW u \in Transfers
        PROVE  row'[y][u] = row[y][u] \/ \E q : row'[y][u] = q /\ RowSound(y, u, q)'
    <3>1. CASE y # x \/ u # t
      BY <1>1, <3>1
    <3>2. CASE y = x /\ u = t
      <4>1. RowSound(x, t, r)'
        BY <1>3, RowSoundKept DEF RowAllowed
      <4> QED BY <1>1, <3>2, <4>1
    <3> QED BY <3>1, <3>2
  <2> QED BY <1>3, <2>1, RowsKept DEF AuthorityInv
<1>10. JobsInv'
  <2> SUFFICES ASSUME NEW w \in Workers
               PROVE  /\ JobSound(WorkerSite[w], job[w])'
                      /\ WorkerSite[w] # Home =>
                           JobHasRow(job[w], row[WorkerSite[w]][job[w].t].state)'
    BY DEF JobsInv
  <2>1. CASE job'[w] = NoJob
    BY <2>1 DEF JobSound, JobHasRow, NoJob
  <2>2. CASE job'[w] = job[w] /\ job'[w] # NoJob
    <3>1. PICK j \in Job : j = job[w]
      BY <1>3 DEF TypesInv
    <3>2. JobSound(WorkerSite[w], j) /\ WorkerSite[w] \in Sites
      BY <3>1, WorkersHaveSites DEF AuthorityInv, JobsInv
    <3>3. JobSound(WorkerSite[w], j)'
      BY <1>3, <1>4, <3>2, JobSoundKept
    <3>4. job'[w] = j
      BY <2>2, <3>1
    <3>5. JobSound(WorkerSite[w], job[w])'
      BY <3>3, <3>4 DEF JobSound
    <3>6. ASSUME WorkerSite[w] # Home
          PROVE  JobHasRow(job[w], row[WorkerSite[w]][job[w].t].state)'
      <4>1. WorkerSite[w] # x
        BY <2>2, <3>6 DEF JobsEnd
      <4>2. JobHasRow(j, row[WorkerSite[w]][j.t].state)
        BY <3>1, <3>6 DEF AuthorityInv, JobsInv
      <4>3. j.at # "idle" => j.t \in DOMAIN transfers
        BY <3>2 DEF JobSound
      <4>4. j.at # "idle" => row'[WorkerSite[w]][j.t] = row[WorkerSite[w]][j.t]
        BY <1>2, <3>2, <4>1, <4>3
      <4> QED BY <3>4, <4>2, <4>4 DEF JobHasRow
    <3> QED BY <3>5, <3>6
  <2> QED BY <2>1, <2>2 DEF JobsEnd
<1>11. EventsInv'
  <2>1. ASSUME NEW e \in E
        PROVE  EventSound(e)' /\ e.t = t /\ EventAllowed(x, t, r, e)
    BY <1>3, <1>5, EventSoundKept DEF EventAllowed
  <2>2. ASSUME NEW s \in Suitcases, NEW e \in Outs(s)'
        PROVE  e \in Outs(s) \/ OutSound(s, e)'
    <3> SUFFICES ASSUME e \in E, s = x
                 PROVE  OutSound(s, e)'
      BY DEF Posted
    <3>1. x # Home
      BY HomeIsSite
    <3> QED BY <1>1, <1>6, <2>1, <3>1 DEF OutSound, EventAllowed
  <2>3. ASSUME NEW s \in Suitcases, NEW e \in Ins(s)'
        PROVE  e \in Ins(s) \/ InSound(s, e)'
    <3> SUFFICES ASSUME e \in E, x = Home
                 PROVE  InSound(s, e)'
      BY DEF Posted
    <3>1. s # Home
      BY HomeIsSite
    <3> QED BY <1>1, <1>6, <2>1, <3>1 DEF InSound, EventAllowed
  <2> QED BY <1>3, <1>5, <2>2, <2>3, EventsKept DEF AuthorityInv
<1>12. HandoffInv'
  <2> SUFFICES ASSUME NEW u \in DOMAIN transfers, row'[Home][u].state \notin Broken
               PROVE  HandoffAt(u)'
    BY <1>6 DEF HandoffInv
  <2>1. HandoffAt(u) /\ Source(u) \in Sites /\ Target(u) \in Sites
    <3>1. row[Home][u].state \notin Broken
      BY <1>5, HomeIsSite DEF RowsLast
    <3> QED BY <1>3, <3>1, TypeFacts DEF AuthorityInv, HandoffInv
  <2>2. ASSUME Source(u) # Home, row'[Home][u].snap # 0
        PROVE  row[Home][u].snap # 0
    BY <1>1, <1>2, <2>2, HomeIsSite DEF RowAllowed
  <2>3. ASSUME Target(u) # Home, row'[Home][u].state \in Restored
        PROVE  row[Home][u].state \in Restored
    BY <1>1, <1>2, <2>3, HomeIsSite DEF RowAllowed
  <2>4. ASSUME NEW s \in Suitcases, NEW op, Told(s, op, u)'
        PROVE  \/ Told(s, op, u)
               \/ s = x /\ u = t /\ \E e \in E : e.op = op
    <3>1. PICK e \in Outs(s)' : e.op = op /\ e.t = u
      BY <2>4 DEF Told
    <3>2. CASE e \in Outs(s)
      BY <3>1, <3>2 DEF Told
    <3>3. CASE e \in E /\ s = x
      BY <3>1, <3>3 DEF EventAllowed
    <3> QED BY <3>2, <3>3 DEF Posted
  <2>5. ASSUME Source(u) # Home, row'[Home][u].snap # 0 \/ Told(Source(u), "snapshot-ready", u)'
        PROVE  row'[Source(u)][u].state \in Over \cup {"committed"}
    <3>1. PICK s \in Suitcases : s = Source(u)
      BY <2>1, <2>5 DEF Sites
    <3>2. Told(Source(u), "snapshot-ready", u)' => Told(s, "snapshot-ready", u)'
      BY <1>6, <3>1 DEF Told, Outs
    <3>3. CASE s = x /\ u = t /\ \E e \in E : e.op = "snapshot-ready"
      BY <1>1, <3>1, <3>3 DEF EventAllowed
    <3>4. CASE row[Home][u].snap # 0 \/ Told(s, "snapshot-ready", u)
      <4>1. Told(s, "snapshot-ready", u) => Told(Source(u), "snapshot-ready", u)
        BY <3>1
      <4>2. row[s][u].state \in Over \cup {"committed"}
        BY <2>1, <2>5, <3>1, <3>4, <4>1 DEF HandoffAt
      <4>3. s \in Sites /\ s # Home
        BY HomeIsSite
      <4> QED BY <1>1, <1>2, <3>1, <4>2, <4>3 DEF RowAllowed
    <3> QED BY <2>2, <2>4, <2>5, <3>2, <3>3, <3>4
  <2>6. ASSUME Target(u) # Home,
               row'[Home][u].state \in Restored \/ Told(Target(u), "target-ready", u)'
        PROVE  row'[Target(u)][u].state \in Restored
    <3>1. PICK s \in Suitcases : s = Target(u)
      BY <2>1, <2>6 DEF Sites
    <3>2. Told(Target(u), "target-ready", u)' => Told(s, "target-ready", u)'
      BY <1>6, <3>1 DEF Told, Outs
    <3>3. CASE s = x /\ u = t /\ \E e \in E : e.op = "target-ready"
      BY <1>1, <3>1, <3>3 DEF EventAllowed
    <3>4. CASE row[Home][u].state \in Restored \/ Told(s, "target-ready", u)
      <4>1. Told(s, "target-ready", u) => Told(Target(u), "target-ready", u)
        BY <3>1
      <4>2. row[s][u].state \in Restored
        BY <2>1, <2>6, <3>1, <3>4, <4>1 DEF HandoffAt
      <4>3. s \in Sites /\ s # Home
        BY HomeIsSite
      <4> QED BY <1>1, <1>2, <3>1, <4>2, <4>3 DEF RowAllowed
    <3> QED BY <2>3, <2>4, <2>6, <3>2, <3>3, <3>4
  <2> QED BY <1>6, <2>5, <2>6 DEF HandoffAt
<1>13. OwnerInv'
  BY <1>3, <1>4, <1>5, OwnerKept DEF SameLine
<1>14. UnderwayInv'
  <2> SUFFICES ASSUME NEW u \in DOMAIN transfers, row'[Home][u].state \in Active, Underway(u)'
               PROVE  Underway(u)
    BY <1>4, <1>6, <1>7 DEF AuthorityInv, UnderwayInv
  <2>1. Source(u) \in Sites
    BY <1>3, TypeFacts
  <2>2. CASE row'[Source(u)][u].state \in Over
    BY <1>1, <1>2, <2>1, <2>2 DEF RowAllowed, Underway
  <2>3. ASSUME row'[Source(u)][u].state \notin Broken,
               NEW w \in Workers, WorkerSite[w] = Source(u), job'[w].at = "recorded", job'[w].t = u
        PROVE  Underway(u)
    <3>1. row[Source(u)][u].state \notin Broken
      BY <1>5, <2>1, <2>3 DEF RowsLast
    <3>2. job'[w] = job[w]
      BY <2>3 DEF JobsEnd, NoJob
    <3> QED BY <2>3, <3>1, <3>2 DEF Underway, Recorded
  <2> QED BY <1>6, <2>2, <2>3 DEF Underway, Recorded
<1> QED BY <1>3, <1>4, <1>8, <1>9, <1>10, <1>11, <1>12, <1>13, <1>14 DEF AuthorityInv

(* A step that only goes on with a job, ends jobs, or touches the graphs   *)
(* and the volumes.                                                        *)
JobAllowed(w, j) ==
  /\ JobSound(WorkerSite[w], j)
  /\ WorkerSite[w] # Home => JobHasRow(j, row[WorkerSite[w]][j.t].state)
  /\ j.at = "recorded" /\ row[Home][j.t].state \in Active => Top = Expected(j.t) + 1

LEMMA JobStep ==
  ASSUME AuthorityInv, SameLine, UNCHANGED <<row, wireVars>>, SitesTyped',
         job' \in [Workers -> Job],
         \A w \in Workers : job'[w] \in {job[w], NoJob} \/ JobAllowed(w, job'[w])
  PROVE  AuthorityInv'
<1>1. TypesInv /\ LineInv /\ TypesInv' /\ Grown /\ row' = row
  BY TypesFrom DEF AuthorityInv, TypesInv, wireVars
<1>2. LineInv' /\ (\A y \in Sites : Latest(y)' = Latest(y)) /\ Top' = Top
  BY <1>1, SameLineKeeps DEF SameLine
<1>3. DOMAIN transfers' = DOMAIN transfers /\ transfers' = transfers /\ RowsLast
      /\ \A u : Source(u)' = Source(u) /\ Target(u)' = Target(u) /\ Expected(u)' = Expected(u)
  BY <1>1 DEF SameLine, SameSnapshots, Source, Target, Expected, RowsLast
<1>4. TransfersInv'
  BY <1>1, <1>2, <1>3, HomeIsSite DEF AuthorityInv, TransfersInv, SameLine, SameSnapshots
<1>5. RowsInv'
  BY <1>1, RowsKept DEF AuthorityInv
<1>6. /\ \A s : Outs(s)' = Outs(s) /\ Ins(s)' = Ins(s)
      /\ \A s, op, u : Told(s, op, u)' = Told(s, op, u)
  BY DEF wireVars, Outs, Ins, Told
<1>7. EventsInv'
  BY <1>1, <1>3, <1>6, EventsKept DEF AuthorityInv
<1>8. HandoffInv'
  <2>1. \A u : HandoffAt(u)' <=> HandoffAt(u)
    BY <1>1, <1>3 DEF HandoffAt, Told, Outs, wireVars
  <2> QED BY <1>1, <1>3, <2>1 DEF AuthorityInv, HandoffInv
<1>9. OwnerInv'
  BY <1>1, <1>2, <1>3, OwnerKept DEF SameLine
<1>10. ASSUME NEW w \in Workers
       PROVE  /\ JobSound(WorkerSite[w], job[w])'
              /\ WorkerSite[w] # Home =>
                   JobHasRow(job[w], row[WorkerSite[w]][job[w].t].state)'
              /\ job'[w].at = "recorded" =>
                   \/ job'[w] = job[w]
                   \/ row[Home][job'[w].t].state \in Active => Top = Expected(job'[w].t) + 1
  <2>1. CASE job'[w] = NoJob
    BY <2>1 DEF JobSound, JobHasRow, NoJob
  <2>2. CASE job'[w] # NoJob
    <3>1. PICK j \in Job : j = job'[w]
      BY <1>1
    <3>2. \/ j = job[w]
          \/ JobAllowed(w, j)
      BY <2>2, <3>1
    <3>3. /\ JobSound(WorkerSite[w], j) /\ WorkerSite[w] \in Sites
          /\ WorkerSite[w] # Home => JobHasRow(j, row[WorkerSite[w]][j.t].state)
      BY <3>2, WorkersHaveSites DEF AuthorityInv, JobsInv, JobAllowed
    <3>4. JobSound(WorkerSite[w], j)'
      BY <1>1, <1>2, <3>3, JobSoundKept
    <3>5. JobSound(WorkerSite[w], job[w])'
      BY <3>1, <3>4 DEF JobSound
    <3>6. WorkerSite[w] # Home => JobHasRow(job[w], row[WorkerSite[w]][job[w].t].state)'
      BY <1>1, <3>1, <3>3 DEF JobHasRow
    <3> QED BY <3>1, <3>2, <3>5, <3>6 DEF JobAllowed
  <2> QED BY <2>1, <2>2
<1>11. JobsInv'
  BY <1>10 DEF JobsInv
<1>12. UnderwayInv'
  <2> SUFFICES ASSUME NEW u \in DOMAIN transfers, row[Home][u].state \in Active, Underway(u)'
               PROVE  Top = Expected(u) + 1
    BY <1>1, <1>2, <1>3 DEF UnderwayInv
  <2>1. CASE row[Source(u)][u].state \in Over
    BY <2>1 DEF AuthorityInv, UnderwayInv, Underway
  <2>2. ASSUME row[Source(u)][u].state \notin Broken,
               NEW w \in Workers, WorkerSite[w] = Source(u), job'[w].at = "recorded", job'[w].t = u
        PROVE  Top = Expected(u) + 1
    <3>1. job'[w] = job[w] => Underway(u)
      BY <2>2 DEF Underway, Recorded
    <3> QED BY <1>10, <2>2, <3>1 DEF AuthorityInv, UnderwayInv
  <2> QED BY <1>1, <1>3, <2>1, <2>2 DEF Underway, Recorded
<1> QED BY <1>1, <1>2, <1>4, <1>5, <1>7, <1>8, <1>9, <1>11, <1>12 DEF AuthorityInv

-----------------------------------------------------------------------------
(* What the operators of the code do to the wires, the jobs, the graphs.   *)
LEMMA JoinedEvents ==
  ASSUME NEW q \in Seq(Events), NEW e \in Events
  PROVE  /\ q \o <<e>> \in Seq(Events) /\ DOMAIN (q \o <<e>>) = 1..(Len(q) + 1)
         /\ DOMAIN q = 1..Len(q) /\ Len(q) \in Nat
         /\ \A i \in 1..Len(q) : (q \o <<e>>)[i] = q[i]
         /\ (q \o <<e>>)[Len(q) + 1] = e
OBVIOUS

Elements(q) == {q[i] : i \in DOMAIN q}

LEMMA JoinedElements ==
  ASSUME NEW q \in Seq(Events), NEW e \in Events
  PROVE  q \o <<e>> \in Seq(Events) /\ Elements(q \o <<e>>) \subseteq Elements(q) \cup {e}
<1> DEFINE p == q \o <<e>>
<1>1. /\ p \in Seq(Events) /\ DOMAIN p = 1..(Len(q) + 1) /\ Len(q) \in Nat
      /\ DOMAIN q = 1..Len(q) /\ (\A i \in 1..Len(q) : p[i] = q[i]) /\ p[Len(q) + 1] = e
  BY JoinedEvents
<1> HIDE DEF p
<1>2. ASSUME NEW i \in DOMAIN p
      PROVE  p[i] \in Elements(q) \cup {e}
  <2>1. CASE i = Len(q) + 1
    BY <1>1, <2>1
  <2>2. CASE i # Len(q) + 1
    <3>1. i \in DOMAIN q /\ p[i] = q[i]
      BY <1>1, <2>2
    <3> QED BY <3>1 DEF Elements
  <2> QED BY <2>1, <2>2
<1>3. Elements(p) \subseteq Elements(q) \cup {e}
  BY <1>2 DEF Elements
<1> QED BY <1>1, <1>3 DEF p

LEMMA NothingPosted ==
  ASSUME TypesInv, NEW x, UNCHANGED wireVars
  PROVE  Posted(x, {})
BY DEF TypesInv, Posted, Outs, Ins, wireVars

LEMMA MorePosted ==
  ASSUME NEW x, NEW E, Posted(x, {})
  PROVE  Posted(x, E)
BY DEF Posted

LEMMA EmitPosts ==
  ASSUME TypesInv, NEW x \in Sites, NEW e \in Events, Emit(x, <<e>>)
  PROVE  Posted(x, {e})
<1>1. /\ outgoing \in [Suitcases -> Seq(Events)] /\ incoming \in [Suitcases -> Seq(Events)]
  BY DEF TypesInv
<1>2. CASE x = Home
  <2>1. /\ outgoing' = outgoing
        /\ incoming' = [s \in Suitcases |-> incoming[s] \o <<e>>]
    BY <1>2 DEF Emit
  <2>2. ASSUME NEW s \in Suitcases
        PROVE  /\ incoming'[s] \in Seq(Events)
               /\ Elements(incoming'[s]) \subseteq Elements(incoming[s]) \cup {e}
    <3>1. incoming[s] \in Seq(Events) /\ incoming'[s] = incoming[s] \o <<e>>
      BY <1>1, <2>1
    <3> QED BY <3>1, JoinedElements
  <2>3. incoming' \in [Suitcases -> Seq(Events)]
    BY <2>1, <2>2
  <2> QED BY <1>1, <1>2, <2>1, <2>2, <2>3 DEF Posted, Outs, Ins, Elements
<1>3. CASE x # Home
  <2>1. x \in Suitcases
    BY <1>3 DEF Sites
  <2>2. /\ incoming' = incoming
        /\ outgoing' = [outgoing EXCEPT ![x] = outgoing[x] \o <<e>>]
    BY <1>3 DEF Emit
  <2>3. /\ outgoing[x] \o <<e>> \in Seq(Events)
        /\ Elements(outgoing[x] \o <<e>>) \subseteq Elements(outgoing[x]) \cup {e}
    BY <1>1, <2>1, JoinedElements
  <2>4. /\ outgoing' \in [Suitcases -> Seq(Events)] /\ outgoing'[x] = outgoing[x] \o <<e>>
        /\ \A s \in Suitcases : s # x => outgoing'[s] = outgoing[s]
    <3> DEFINE q == outgoing[x] \o <<e>>
    <3> HIDE DEF q
    <3>1. q \in Seq(Events) /\ outgoing' = [outgoing EXCEPT ![x] = q]
      BY <2>2, <2>3 DEF q
    <3>2. /\ outgoing' \in [Suitcases -> Seq(Events)] /\ outgoing'[x] = q
          /\ \A s \in Suitcases : s # x => outgoing'[s] = outgoing[s]
      BY <1>1, <2>1, <3>1
    <3> QED BY <3>2 DEF q
  <2>5. \A s \in Suitcases : Elements(outgoing'[s]) \subseteq
                               Elements(outgoing[s]) \cup IF s = x THEN {e} ELSE {}
    BY <2>3, <2>4
  <2> QED BY <1>1, <1>3, <2>2, <2>4, <2>5 DEF Posted, Outs, Ins, Elements
<1> QED BY <1>2, <1>3

LEMMA TellsPosts ==
  ASSUME TypesInv, NEW x \in Sites, NEW e \in Events, NEW how, Tells(x, <<e>>, how)
  PROVE  Posted(x, {e})
<1>1. CASE how = "unsent"
  <2>1. UNCHANGED wireVars
    BY <1>1 DEF Tells
  <2> QED BY <2>1, NothingPosted, MorePosted
<1>2. CASE how # "unsent"
  <2>1. Emit(x, <<e>>)
    BY <1>2 DEF Tells
  <2> QED BY <2>1, EmitPosts
<1> QED BY <1>1, <1>2

LEMMA TellsNothing ==
  ASSUME TypesInv, NEW x \in Sites, NEW how, Tells(x, <<>>, how)
  PROVE  Posted(x, {})
<1>1. \A s \in Suitcases : outgoing[s] \o << >> = outgoing[s] /\ incoming[s] \o << >> = incoming[s]
  <2>1. \A s \in Suitcases : outgoing[s] \in Seq(Events) /\ incoming[s] \in Seq(Events)
    BY DEF TypesInv
  <2> QED BY <2>1
<1>2. /\ outgoing \in [Suitcases -> Seq(Events)] /\ incoming \in [Suitcases -> Seq(Events)]
  BY DEF TypesInv
<1>3. UNCHANGED wireVars
  <2>1. CASE how = "unsent"
    BY <2>1 DEF Tells
  <2>2. CASE how # "unsent" /\ x = Home
    <3>1. outgoing' = outgoing /\ incoming' = [s \in Suitcases |-> incoming[s] \o << >>]
      BY <2>2 DEF Tells, Emit
    <3>2. incoming' = [s \in Suitcases |-> incoming[s]]
      BY <1>1, <3>1
    <3>3. incoming' = incoming
      BY <1>2, <3>2
    <3> QED BY <3>1, <3>3 DEF wireVars
  <2>3. CASE how # "unsent" /\ x # Home
    <3>1. incoming' = incoming /\ outgoing' = [outgoing EXCEPT ![x] = outgoing[x] \o << >>]
      BY <2>3 DEF Tells, Emit
    <3>2. x \in Suitcases
      BY <2>3 DEF Sites
    <3>3. outgoing' = outgoing
      BY <1>1, <1>2, <3>1, <3>2
    <3> QED BY <3>1, <3>3 DEF wireVars
  <2> QED BY <2>1, <2>2, <2>3
<1> QED BY <1>3, NothingPosted

LEMMA NoJobIsJob == NoJob \in Job /\ NoJob.at = "idle"
BY DEF NoJob, Job, JobStates

LEMMA IdleEnds ==
  ASSUME TypesInv, NEW x, job' = Idle(x)
  PROVE  JobsEnd(x)
<1>1. job \in [Workers -> Job]
  BY DEF TypesInv
<1>2. ASSUME NEW w \in Workers
      PROVE  /\ job'[w] = IF WorkerSite[w] = x THEN NoJob ELSE job[w]
             /\ job'[w] \in Job
  BY <1>1, NoJobIsJob DEF Idle
<1>3. job' \in [Workers -> Job]
  BY <1>2 DEF Idle
<1> QED BY <1>2, <1>3 DEF JobsEnd

LEMMA JobAfterEnds ==
  ASSUME TypesInv, OnePass, NEW w \in Workers, NEW how, JobAfter(w, how, NoJob)
  PROVE  JobsEnd(WorkerSite[w])
<1>1. CASE how = "done"
  <2>1. job \in [Workers -> Job] /\ job' = [job EXCEPT ![w] = NoJob]
    BY <1>1 DEF TypesInv, JobAfter
  <2>2. /\ job' \in [Workers -> Job] /\ job'[w] = NoJob
        /\ \A v \in Workers : v # w => job'[v] = job[v]
    BY <2>1, NoJobIsJob
  <2> QED BY <2>2 DEF JobsEnd, OnePass
<1>2. CASE how # "done"
  BY <1>2, IdleEnds DEF JobAfter
<1> QED BY <1>1, <1>2

LEMMA IdleWorkerEnds ==
  ASSUME TypesInv, OnePass, NEW w \in Workers, job[w] = NoJob, job' = job
  PROVE  JobsEnd(WorkerSite[w])
BY DEF TypesInv, OnePass, JobsEnd

LEMMA SitesKept ==
  ASSUME TypesInv, UNCHANGED <<siteVars, writes>>
  PROVE  SitesTyped'
BY DEF TypesInv, SitesTyped, siteVars

LEMMA GraphsKept ==
  ASSUME TypesInv, NEW x \in Sites, UNCHANGED <<volume, placed, writes>>,
         StartsGraph(x) \/ StopsGraph(x) \/ UNCHANGED up
  PROVE  SitesTyped'
<1>1. up' \subseteq Suitcases
  BY DEF TypesInv, StartsGraph, StopsGraph, Sites
<1> QED BY <1>1 DEF TypesInv, SitesTyped

-----------------------------------------------------------------------------
(* A row whose snapshot stays and whose state goes on or breaks off.       *)
LEMMA RowMoves ==
  ASSUME AuthorityInv, NEW x \in Sites, NEW t \in DOMAIN transfers, NEW r \in TransferRow,
         r.snap = row[x][t].snap, r.state # "none",
         r.state = "committed" <=> row[x][t].state = "committed",
         row[x][t].state \in Broken => r.state \in Broken,
         r.state \in Active => row[x][t].state \in Active,
         r.state \in Over => row[x][t].state \in Over,
         r.state \in Restored => row[x][t].state \in Restored \/ x = Target(t),
         x # Home /\ x = Source(t) /\ row[x][t].state \in Over => r.state \in Over,
         x # Home /\ x = Target(t) /\ row[x][t].state \in Restored => r.state \in Restored
  PROVE  RowAllowed(x, t, r)
<1>1. RowSound(x, t, row[x][t])
  BY HandoffsAreTransfers DEF AuthorityInv, RowsInv
<1>2. RowSound(x, t, r)
  <2>1. r.snap \in {0} \cup known[x]
    BY <1>1 DEF RowSound
  <2>2. r.state \in Over \cup {"committed"} => r.snap # 0
    BY <1>1 DEF RowSound
  <2>3. r.snap # 0 /\ r.state # "committed" => Handed(t, r.snap)
    BY <1>1 DEF RowSound
  <2>4. r.state = "committed" => r.snap = Expected(t) + 2 /\ AuthorityOf(r.snap) = Target(t)
    BY <1>1 DEF RowSound
  <2> QED BY <2>1, <2>2, <2>3, <2>4 DEF RowSound
<1>3. x = Source(t) /\ r.state \in Over => Underway(t)
  BY DEF Underway
<1> QED BY <1>2, <1>3 DEF RowAllowed

LEMMA RowFacts ==
  ASSUME TypesInv, NEW x \in Sites, NEW t \in Transfers
  PROVE  /\ row[x][t] \in TransferRow /\ row[x][t].state \in States /\ row[x][t].snap \in Nat
         /\ row[x][t].resumed \in BOOLEAN /\ row[x][t].sent \in SUBSET Ops
<1>1. row[x][t] \in TransferRow
  BY DEF TypesInv
<1> QED BY <1>1 DEF TransferRow

(* The rows that the steps write.                                          *)
LEMMA RowIn ==
  ASSUME NEW r \in TransferRow, NEW state \in States, NEW snap \in Nat,
         NEW resumed \in BOOLEAN, NEW sent \in SUBSET Ops,
         NEW q, q = [r EXCEPT !.state = state, !.snap = snap, !.resumed = resumed, !.sent = sent]
  PROVE  /\ q \in TransferRow /\ q.state = state /\ q.snap = snap
         /\ q.resumed = resumed /\ q.sent = sent
BY DEF TransferRow

LEMMA EventIn ==
  ASSUME NEW op \in Ops, NEW t \in Nat, NEW snap \in Nat
  PROVE  /\ Event(op, t, snap) \in Events /\ Event(op, t, snap).op = op
         /\ Event(op, t, snap).t = t /\ Event(op, t, snap).snap = snap
BY DEF Event, Events

LEMMA RowTold ==
  ASSUME AuthorityInv, NEW x \in Sites, NEW t \in DOMAIN transfers, NEW r, NEW e,
         RowAllowed(x, t, r), EventAllowed(x, t, r, e), SameLine, SitesTyped',
         row' = [row EXCEPT ![x][t] = r], Posted(x, {e}), JobsEnd(x)
  PROVE  AuthorityInv'
<1> DEFINE E == {e}
<1>1. (\A d \in E : EventAllowed(x, t, r, d)) /\ Posted(x, E)
  OBVIOUS
<1> HIDE DEF E
<1> QED BY <1>1, RowStep

LEMMA RowUntold ==
  ASSUME AuthorityInv, NEW x \in Sites, NEW t \in DOMAIN transfers, NEW r,
         RowAllowed(x, t, r), SameLine, SitesTyped',
         row' = [row EXCEPT ![x][t] = r], Posted(x, {}), JobsEnd(x)
  PROVE  AuthorityInv'
<1> DEFINE E == {}
<1>1. (\A d \in E : EventAllowed(x, t, r, d)) /\ Posted(x, E)
  OBVIOUS
<1> HIDE DEF E
<1> QED BY <1>1, RowStep

LEMMA AbortKeeps ==
  ASSUME AuthorityInv, NEW t \in DOMAIN transfers, NEW how, AbortTransfer(t, how)
  PROVE  AuthorityInv'
<1>0. TypesInv /\ Home \in Sites /\ t \in Transfers /\ t \in Nat /\ t # 0
  BY HomeIsSite, HandoffsAreTransfers DEF AuthorityInv
<1>1. PICK q : q = row[Home][t]
  OBVIOUS
<1> DEFINE r == [q EXCEPT !.state = "aborted", !.resumed = FALSE]
           e == Event("aborted", t, 0)
<1>2. q \in TransferRow
  BY <1>0, <1>1, RowFacts
<1>3. r \in TransferRow /\ r.state = "aborted" /\ r.snap = q.snap
  BY <1>2 DEF TransferRow, States, Broken
<1>4. e \in Events /\ e.op = "aborted" /\ e.t = t /\ e.snap = 0
  BY <1>0, EventIn DEF Ops
<1>5. row' = [row EXCEPT ![Home][t] = r]
  BY <1>0, <1>1, <1>2 DEF AbortTransfer, TypesInv, TransferRow
<1> HIDE DEF r, e
<1>6. RowAllowed(Home, t, r)
  BY <1>0, <1>1, <1>3, RowMoves DEF AbortTransfer, Active, Over, Restored, Broken
<1>7. EventAllowed(Home, t, r, e)
  BY <1>0, <1>3, <1>4 DEF EventAllowed, EventSound, Broken
<1>8. Posted(Home, {e})
  BY <1>0, <1>4, TellsPosts DEF AbortTransfer, e
<1>9. JobsEnd(Home)
  BY <1>0, IdleEnds DEF AbortTransfer, JobsEnd, TypesInv
<1>10. SameLine /\ SitesTyped'
  BY <1>0, SitesKept DEF AbortTransfer, SameLine, SameSnapshots
<1> QED BY <1>0, <1>5, <1>6, <1>7, <1>8, <1>9, <1>10, RowTold

LEMMA SourceTargetFields ==
  ASSUME NEW t
  PROVE  transfers[t]["source"] = Source(t) /\ transfers[t]["target"] = Target(t)
BY DEF Source, Target

LEMMA TakeUpKeeps ==
  ASSUME AuthorityInv, OnePass, NEW w \in Workers, NEW t \in DOMAIN transfers, NEW how,
         TakeUp(w, t, how)
  PROVE  AuthorityInv'
<1> DEFINE x == WorkerSite[w]
           q == row[x][t]
           r == [q EXCEPT !.state = IF how = "done" THEN "source-capturing" ELSE q.state,
                          !.sent = q.sent \cup Noted(how, "requested")]
           e == Event("requested", t, 0)
<1>0. TypesInv /\ x \in Sites /\ t \in Transfers /\ t \in Nat /\ t # 0
  BY WorkersHaveSites, HandoffsAreTransfers DEF AuthorityInv
<1>1. q \in TransferRow /\ q.state = "requested"
  BY <1>0, RowFacts DEF TakeUp, MayTake
<1>2. r \in TransferRow /\ r.state \in {"requested", "source-capturing"} /\ r.snap = q.snap
  <2> HIDE DEF q
  <2> QED BY <1>1 DEF TransferRow, States, Active, Noted, Ops
<1>3. e \in Events /\ e.op = "requested" /\ e.t = t /\ e.snap = 0
  BY <1>0, EventIn DEF Ops
<1>4. row' = [row EXCEPT ![x][t] = r]
  BY <1>0 DEF TakeUp, TypesInv, TransferRow
<1> HIDE DEF r, e
<1>5. RowAllowed(x, t, r)
  BY <1>0, <1>1, <1>2, RowMoves DEF Active, Over, Restored, Broken
<1>6. EventAllowed(x, t, r, e)
  BY <1>0, <1>3 DEF EventAllowed, EventSound, Broken
<1>7. Posted(x, {e})
  <2>1. Tells(x, <<e>>, how) \/ UNCHANGED wireVars
    BY DEF TakeUp, e
  <2> QED BY <1>0, <1>3, <2>1, TellsPosts, NothingPosted, MorePosted
<1>8. JobsEnd(x) /\ SameLine /\ SitesTyped'
  BY <1>0, JobAfterEnds, SitesKept DEF TakeUp, SameLine, SameSnapshots
<1> QED BY <1>0, <1>4, <1>5, <1>6, <1>7, <1>8, RowTold

LEMMA AcceptKeeps ==
  ASSUME AuthorityInv, OnePass, NEW w \in Workers, NEW t \in DOMAIN transfers,
         AcceptSnapshot(w, t)
  PROVE  AuthorityInv'
<1> DEFINE x == WorkerSite[w]
           q == row[x][t]
           r == [q EXCEPT !.state = "target-restoring"]
<1>0. TypesInv /\ x \in Sites /\ t \in Transfers
  BY WorkersHaveSites, HandoffsAreTransfers DEF AuthorityInv
<1>1. q \in TransferRow /\ q.state = "snapshot-ready"
  BY <1>0, RowFacts DEF AcceptSnapshot, MayTake
<1>2. r \in TransferRow /\ r.state = "target-restoring" /\ r.snap = q.snap
  <2> HIDE DEF q
  <2> QED BY <1>1 DEF TransferRow, States, Active
<1>3. row' = [row EXCEPT ![x][t] = r]
  BY <1>0 DEF AcceptSnapshot, TypesInv, TransferRow
<1> HIDE DEF r
<1>4. RowAllowed(x, t, r)
  BY <1>0, <1>1, <1>2, RowMoves DEF Active, Over, Restored, Broken
<1>5. Posted(x, {})
  BY <1>0, NothingPosted DEF AcceptSnapshot
<1>6. JobsEnd(x) /\ SameLine /\ SitesTyped'
  BY <1>0, IdleWorkerEnds, SitesKept DEF AcceptSnapshot, MayTake, SameLine, SameSnapshots
<1> QED BY <1>0, <1>3, <1>4, <1>5, <1>6, RowUntold

LEMMA ResumeKeeps ==
  ASSUME AuthorityInv, OnePass, NEW w \in Workers, NEW t \in DOMAIN transfers,
         ResumeSource(w, t)
  PROVE  AuthorityInv'
<1> DEFINE x == WorkerSite[w]
           q == row[x][t]
           r == [q EXCEPT !.resumed = TRUE]
           e == Event("source-resumed", t, 0)
<1>0. TypesInv /\ x \in Sites /\ t \in Transfers /\ t \in Nat /\ t # 0
  BY WorkersHaveSites, HandoffsAreTransfers DEF AuthorityInv
<1>1. q \in TransferRow /\ q.state \in Broken
  BY <1>0, RowFacts DEF ResumeSource, MayTake
<1>2. r \in TransferRow /\ r.state = q.state /\ r.snap = q.snap
  <2> HIDE DEF q
  <2> QED BY <1>1 DEF TransferRow
<1>3. e \in Events /\ e.op = "source-resumed" /\ e.t = t /\ e.snap = 0
  BY <1>0, EventIn DEF Ops
<1>4. row' = [row EXCEPT ![x][t] = r]
  BY <1>0 DEF ResumeSource, TypesInv, TransferRow
<1> HIDE DEF r, e
<1>5. RowAllowed(x, t, r)
  BY <1>0, <1>1, <1>2, RowMoves DEF Active, Over, Restored, Broken
<1>6. EventAllowed(x, t, r, e)
  BY <1>0, <1>3 DEF EventAllowed, EventSound, Broken
<1>7. Posted(x, {e})
  BY <1>0, <1>3, EmitPosts DEF ResumeSource, e
<1>8. JobsEnd(x) /\ SameLine
  BY <1>0, IdleWorkerEnds DEF ResumeSource, MayTake, SameLine, SameSnapshots
<1>9. SitesTyped'
  BY <1>0, GraphsKept DEF ResumeSource
<1> QED BY <1>0, <1>4, <1>5, <1>6, <1>7, <1>8, <1>9, RowTold

LEMMA EnsureKeeps ==
  ASSUME AuthorityInv, OnePass, NEW w \in Workers, NEW t \in DOMAIN transfers,
         NEW op \in Owed(WorkerSite[w], t), EnsureEvent(w, t, op)
  PROVE  AuthorityInv'
<1> DEFINE x == WorkerSite[w]
           q == row[x][t]
           r == [q EXCEPT !.sent = q.sent \cup {op}]
           e == Event(op, t, q.snap)
<1>0. TypesInv /\ x \in Sites /\ t \in Transfers /\ t \in Nat /\ t # 0
  BY WorkersHaveSites, HandoffsAreTransfers DEF AuthorityInv
<1>1. /\ q \in TransferRow /\ q.state = op /\ q.snap \in Nat
      /\ op \in {"snapshot-ready", "target-ready", "committed"}
      /\ op = "snapshot-ready" => x = Source(t)
      /\ op = "target-ready" => x = Target(t)
      /\ op = "committed" => x = Home
  BY <1>0, RowFacts DEF Owed, Source, Target
<1>2. r \in TransferRow /\ r.state = q.state /\ r.snap = q.snap
  <2> HIDE DEF q
  <2> QED BY <1>1 DEF TransferRow, Ops
<1>3. e \in Events /\ e.op = op /\ e.t = t /\ e.snap = q.snap
  BY <1>0, <1>1, EventIn DEF Ops
<1>4. row' = [row EXCEPT ![x][t] = r]
  BY <1>0 DEF EnsureEvent, TypesInv, TransferRow
<1> HIDE DEF r, e
<1>5. RowAllowed(x, t, r)
  BY <1>0, <1>1, <1>2, RowMoves DEF Active, Over, Restored, Broken
<1>6. op # "committed" => Handed(t, q.snap)
  <2>1. RowSound(x, t, q)
    BY <1>0 DEF AuthorityInv, RowsInv
  <2> QED BY <1>1, <2>1 DEF RowSound, Over
<1>7. EventAllowed(x, t, r, e)
  BY <1>0, <1>1, <1>2, <1>3, <1>6 DEF EventAllowed, EventSound, Broken, Over, Restored
<1>8. Posted(x, {e})
  BY <1>0, <1>3, EmitPosts DEF EnsureEvent, e
<1>9. JobsEnd(x) /\ SameLine /\ SitesTyped'
  BY <1>0, IdleWorkerEnds, SitesKept DEF EnsureEvent, SameLine, SameSnapshots
<1> QED BY <1>0, <1>4, <1>5, <1>7, <1>8, <1>9, RowTold

LEMMA FailKeeps ==
  ASSUME AuthorityInv, NEW x \in Sites, NEW t \in DOMAIN transfers, NEW resumed \in BOOLEAN,
         NEW how, FailTransfer(x, t, resumed, how), row[x][t].state # "none",
         x \in {Home, Source(t), Target(t)},
         x # Home /\ x = Source(t) => row[x][t].state \notin Over,
         x # Home /\ x = Target(t) => row[x][t].state \notin Restored,
         SameLine, SitesTyped', JobsEnd(x)
  PROVE  AuthorityInv'
<1> DEFINE q == row[x][t]
           r == [q EXCEPT !.state = "failed", !.resumed = resumed]
           e == [Event("failed", t, 0) EXCEPT !.resumed = resumed]
<1>0. TypesInv /\ t \in Transfers /\ t \in Nat /\ t # 0 /\ q \in TransferRow
  BY HandoffsAreTransfers, RowFacts DEF AuthorityInv
<1>1. CASE Fails(q)
  <2>1. r \in TransferRow /\ r.state = "failed" /\ r.snap = q.snap
    <3> HIDE DEF q
    <3> QED BY <1>0 DEF TransferRow, States, Broken
  <2>2. e \in Events /\ e.op = "failed" /\ e.t = t /\ e.snap = 0
    BY <1>0 DEF Ops, Event, Events
  <2>3. row' = [row EXCEPT ![x][t] = r] /\ Tells(x, <<e>>, how)
    BY <1>0, <1>1 DEF FailTransfer, FailedRow, FailedEvents, TypesInv
  <2> HIDE DEF r, e
  <2>4. RowAllowed(x, t, r)
    BY <1>0, <1>1, <2>1, RowMoves DEF Active, Over, Restored, Broken, Fails
  <2>5. EventAllowed(x, t, r, e)
    BY <1>0, <2>1, <2>2 DEF EventAllowed, EventSound, Broken
  <2>6. Posted(x, {e})
    BY <1>0, <2>2, <2>3, TellsPosts
  <2> QED BY <2>3, <2>4, <2>5, <2>6, RowTold
<1>2. CASE ~ Fails(q)
  <2>1. row' = [row EXCEPT ![x][t] = q] /\ Tells(x, << >>, how)
    BY <1>0, <1>2 DEF FailTransfer, FailedRow, FailedEvents, TypesInv
  <2>2. RowAllowed(x, t, q)
    BY <1>0, RowMoves DEF Active, Over, Restored, Broken
  <2>3. Posted(x, {})
    BY <1>0, <2>1, TellsNothing
  <2> QED BY <2>1, <2>2, <2>3, RowUntold
<1> QED BY <1>1, <1>2

LEMMA JobFacts ==
  ASSUME AuthorityInv, NEW w \in Workers
  PROVE  /\ job[w] \in Job /\ WorkerSite[w] \in Sites /\ JobSound(WorkerSite[w], job[w])
         /\ WorkerSite[w] # Home => JobHasRow(job[w], row[WorkerSite[w]][job[w].t].state)
BY WorkersHaveSites DEF AuthorityInv, TypesInv, JobsInv

LEMMA CaptureFailsKeeps ==
  ASSUME AuthorityInv, OnePass, NEW w \in Workers, NEW t \in DOMAIN transfers,
         NEW resumed \in BOOLEAN, NEW how, CaptureFails(w, t, resumed, how)
  PROVE  AuthorityInv'
<1> DEFINE x == WorkerSite[w]
<1>0. /\ TypesInv /\ x \in Sites /\ JobSound(x, job[w])
      /\ x # Home => JobHasRow(job[w], row[x][job[w].t].state)
  BY JobFacts DEF AuthorityInv
<1>1. x = Source(t) /\ (x # Home => row[x][t].state \in {"source-capturing"} \cup Broken)
  <2>1. CASE MayTake(w, t, "source", {"source-capturing"})
    BY <2>1, SourceTargetFields DEF MayTake
  <2>2. CASE job[w].t = t /\ job[w].at \in {"exported", "recorded"}
    BY <1>0, <2>2 DEF JobSound, JobHasRow
  <2> QED BY <2>1, <2>2 DEF CaptureFails, CaptureRefused
<1>2. row[x][t].state # "none"
  BY <1>1 DEF Broken, AuthorityInv, TransfersInv
<1>3. x # Home => row[x][t].state \notin Over
  BY <1>1 DEF Broken, Over
<1>4. x # Target(t)
  BY <1>1 DEF AuthorityInv, TransfersInv
<1>5. JobsEnd(x) /\ SameLine
  BY <1>0, JobAfterEnds DEF CaptureFails, SameLine, SameSnapshots
<1>6. SitesTyped'
  BY <1>0, GraphsKept DEF CaptureFails
<1>7. FailTransfer(x, t, resumed, how)
  BY DEF CaptureFails
<1> QED BY <1>0, <1>1, <1>2, <1>3, <1>4, <1>5, <1>6, <1>7, FailKeeps

LEMMA RestoreFailsKeeps ==
  ASSUME AuthorityInv, OnePass, NEW w \in Workers, NEW how, RestoreFails(w, how)
  PROVE  AuthorityInv'
<1> DEFINE x == WorkerSite[w]
           t == job[w].t
<1>0. /\ TypesInv /\ x \in Sites /\ JobSound(x, job[w])
      /\ x # Home => JobHasRow(job[w], row[x][t].state)
  BY JobFacts DEF AuthorityInv
<1>1. t \in DOMAIN transfers /\ x = Target(t)
      /\ (x # Home => row[x][t].state \in {"target-restoring"} \cup Broken)
  BY <1>0 DEF RestoreFails, JobSound, JobHasRow
<1>2. row[x][t].state # "none"
  BY <1>1 DEF Broken, AuthorityInv, TransfersInv
<1>3. x # Home => row[x][t].state \notin Restored
  BY <1>1 DEF Broken, Restored
<1>4. x # Source(t)
  BY <1>1 DEF AuthorityInv, TransfersInv
<1>5. JobsEnd(x) /\ SameLine
  BY <1>0, JobAfterEnds DEF RestoreFails, SameLine, SameSnapshots
<1>6. SitesTyped'
  BY <1>0, GraphsKept DEF RestoreFails
<1>7. FailTransfer(x, t, FALSE, how)
  BY DEF RestoreFails
<1> HIDE DEF t
<1> QED BY <1>0, <1>1, <1>2, <1>3, <1>4, <1>5, <1>6, <1>7, FailKeeps

LEMMA SnapshotReadyKeeps ==
  ASSUME AuthorityInv, OnePass, NEW w \in Workers, NEW how, SnapshotReady(w, how)
  PROVE  AuthorityInv'
<1>1. PICK x \in Sites, j \in Job : x = WorkerSite[w] /\ j = job[w]
  BY JobFacts
<1>2. PICK t, q : t = j.t /\ q = row[x][t]
  OBVIOUS
<1> DEFINE r == [q EXCEPT !.state = "snapshot-ready", !.snap = j.snap,
                          !.sent = q.sent \cup Noted(how, "snapshot-ready")]
           e == Event("snapshot-ready", t, j.snap)
<1>3. /\ t \in DOMAIN transfers /\ x = Source(t) /\ Handed(t, j.snap) /\ j.snap \in known[x]
  BY <1>1, <1>2, JobFacts DEF SnapshotReady, JobSound
<1>4. TypesInv /\ t \in Transfers /\ t \in Nat /\ t # 0 /\ q.state = "source-capturing"
      /\ q \in TransferRow /\ j.snap \in Nat /\ j.snap # 0
  <2>1. TypesInv /\ t \in Transfers /\ t \in Nat /\ t # 0
    BY <1>3, HandoffsAreTransfers DEF AuthorityInv
  <2>2. q \in TransferRow /\ q.state = "source-capturing"
    BY <1>1, <1>2, <2>1, RowFacts DEF SnapshotReady
  <2>3. j.snap \in 1..Len(snapshots)
    BY <1>3, <2>1, TypeFacts
  <2> QED BY <2>1, <2>2, <2>3
<1>5. r \in TransferRow /\ r.state = "snapshot-ready" /\ r.snap = j.snap
  BY <1>4 DEF TransferRow, States, Active, Noted, Ops
<1>6. e \in Events /\ e.op = "snapshot-ready" /\ e.t = t /\ e.snap = j.snap
  BY <1>4, EventIn DEF Ops
<1>7. row' = [row EXCEPT ![x][t] = r]
  <2>1. row' = [row EXCEPT ![x][t].state = "snapshot-ready", ![x][t].snap = j.snap,
                               ![x][t].sent = q.sent \cup Noted(how, "snapshot-ready")]
    BY <1>1, <1>2 DEF SnapshotReady
  <2>2. row \in [Sites -> [Transfers -> TransferRow]]
    BY <1>4 DEF TypesInv
  <2>3. row[x] \in [Transfers -> TransferRow] /\ q = row[x][t]
    BY <1>2, <2>2
  <2> QED BY <1>4, <2>1, <2>2, <2>3 DEF TransferRow
<1> HIDE DEF r
<1>8. RowSound(x, t, r)
  BY <1>3, <1>4, <1>5 DEF RowSound
<1>9. Underway(t)
  BY <1>1, <1>2, <1>3, <1>4 DEF Underway, Recorded, SnapshotReady, Broken
<1>10. RowAllowed(x, t, r)
  BY <1>2, <1>3, <1>4, <1>5, <1>8, <1>9 DEF RowAllowed, Active, Broken, Over, Restored
<1>11. Tells(x, <<e>>, how)
  BY <1>1, <1>2 DEF SnapshotReady
<1> HIDE DEF e
<1>12. EventAllowed(x, t, r, e)
  BY <1>3, <1>4, <1>5, <1>6 DEF EventAllowed, EventSound, Broken, Over
<1>13. Posted(x, {e})
  BY <1>4, <1>6, <1>11, TellsPosts
<1>14. JobsEnd(x) /\ SameLine /\ SitesTyped'
  BY <1>1, <1>4, JobAfterEnds, SitesKept DEF SnapshotReady, SameLine, SameSnapshots
<1> QED BY <1>3, <1>7, <1>10, <1>12, <1>13, <1>14, RowTold

LEMMA TargetReadyKeeps ==
  ASSUME AuthorityInv, OnePass, NEW w \in Workers, NEW how, TargetReady(w, how)
  PROVE  AuthorityInv'
<1>1. PICK x \in Sites, j \in Job : x = WorkerSite[w] /\ j = job[w]
  BY JobFacts
<1>2. PICK t, q : t = j.t /\ q = row[x][t]
  OBVIOUS
<1> DEFINE r == [q EXCEPT !.state = "target-ready",
                          !.sent = q.sent \cup Noted(how, "target-ready")]
           e == Event("target-ready", t, j.snap)
<1>3. /\ t \in DOMAIN transfers /\ x = Target(t) /\ Handed(t, j.snap) /\ j.snap \in known[x]
  BY <1>1, <1>2, JobFacts DEF TargetReady, JobSound
<1>4. TypesInv /\ t \in Transfers /\ t \in Nat /\ t # 0 /\ q.state = "target-restoring"
      /\ q \in TransferRow /\ j.snap \in Nat
  <2>1. TypesInv /\ t \in Transfers /\ t \in Nat /\ t # 0
    BY <1>3, HandoffsAreTransfers DEF AuthorityInv
  <2>2. q \in TransferRow /\ q.state = "target-restoring"
    BY <1>1, <1>2, <2>1, RowFacts DEF TargetReady
  <2>3. j.snap \in 1..Len(snapshots)
    BY <1>3, <2>1, TypeFacts
  <2> QED BY <2>1, <2>2, <2>3
<1>5. r \in TransferRow /\ r.state = "target-ready" /\ r.snap = q.snap
  BY <1>4 DEF TransferRow, States, Active, Noted, Ops
<1>6. e \in Events /\ e.op = "target-ready" /\ e.t = t /\ e.snap = j.snap
  BY <1>4, EventIn DEF Ops
<1>7. row' = [row EXCEPT ![x][t] = r]
  <2>1. row' = [row EXCEPT ![x][t].state = "target-ready",
                               ![x][t].sent = q.sent \cup Noted(how, "target-ready")]
    BY <1>1, <1>2 DEF TargetReady
  <2>2. row \in [Sites -> [Transfers -> TransferRow]]
    BY <1>4 DEF TypesInv
  <2>3. row[x] \in [Transfers -> TransferRow] /\ q = row[x][t]
    BY <1>2, <2>2
  <2> QED BY <1>4, <2>1, <2>2, <2>3 DEF TransferRow
<1> HIDE DEF r
<1>8. RowAllowed(x, t, r)
  BY <1>2, <1>3, <1>4, <1>5, RowMoves DEF Active, Broken, Over, Restored
<1>9. Tells(x, <<e>>, how)
  BY <1>1, <1>2 DEF TargetReady
<1> HIDE DEF e
<1>10. EventAllowed(x, t, r, e)
  BY <1>3, <1>4, <1>5, <1>6 DEF EventAllowed, EventSound, Broken, Restored
<1>11. Posted(x, {e})
  BY <1>4, <1>6, <1>9, TellsPosts
<1>12. JobsEnd(x) /\ SameLine
  BY <1>1, <1>4, JobAfterEnds DEF TargetReady, SameLine, SameSnapshots
<1>13. SitesTyped'
  BY <1>1, <1>4, GraphsKept DEF TargetReady
<1> QED BY <1>3, <1>7, <1>8, <1>10, <1>11, <1>12, <1>13, RowTold

-----------------------------------------------------------------------------
(* The steps of a job, and those that leave rows and events alone.         *)
LEMMA JobTaken ==
  ASSUME AuthorityInv, NEW w \in Workers, NEW j \in Job, job' = [job EXCEPT ![w] = j],
         JobAllowed(w, j), SameLine, UNCHANGED <<row, wireVars>>, SitesTyped'
  PROVE  AuthorityInv'
<1>1. job \in [Workers -> Job]
  BY DEF AuthorityInv, TypesInv
<1>2. /\ job' \in [Workers -> Job] /\ job'[w] = j
      /\ \A v \in Workers : v # w => job'[v] = job[v]
  BY <1>1
<1>3. ASSUME NEW v \in Workers
      PROVE  job'[v] \in {job[v], NoJob} \/ JobAllowed(v, job'[v])
  <2>1. CASE v = w
    <3>1. JobAllowed(v, job'[v])
      BY <1>2, <2>1
    <3> QED BY <3>1
  <2>2. CASE v # w
    BY <1>2, <2>2
  <2> QED BY <2>1, <2>2
<1> QED BY <1>2, <1>3, JobStep

LEMMA QuietKeeps ==
  ASSUME AuthorityInv, SameLine, UNCHANGED <<row, wireVars>>, SitesTyped',
         job' = job \/ \E x \in Sites : job' = Idle(x)
  PROVE  AuthorityInv'
<1>1. /\ job' \in [Workers -> Job] /\ \A w \in Workers : job'[w] \in {job[w], NoJob}
  <2>1. TypesInv /\ job \in [Workers -> Job]
    BY DEF AuthorityInv, TypesInv
  <2>2. ASSUME NEW x \in Sites, job' = Idle(x)
        PROVE  JobsEnd(x)
    BY <2>1, <2>2, IdleEnds
  <2> QED BY <2>1, <2>2 DEF JobsEnd
<1> QED BY <1>1, JobStep

LEMMA KnownData ==
  ASSUME TypesInv, NEW k \in 1..Top
  PROVE  snapshots[k].data \in SUBSET Writes
<1>1. snapshots[k] \in Snapshot
  BY TypeFacts DEF Top
<1> QED BY <1>1 DEF Snapshot

LEMMA BeginCaptureKeeps ==
  ASSUME AuthorityInv, NEW w \in Workers, NEW t \in DOMAIN transfers, BeginCapture(w, t)
  PROVE  AuthorityInv'
<1>1. PICK x \in Sites : x = WorkerSite[w]
  BY WorkersHaveSites
<1>2. PICK k \in 0..Top : k = Latest(x)
  BY LatestFacts DEF AuthorityInv, Top
<1>3. /\ TypesInv /\ LineInv /\ t \in Transfers /\ t \in Nat /\ Top \in Nat
      /\ x = Source(t) /\ row[x][t].state = "source-capturing" /\ Expected(t) \in Nat
      /\ IsLatest(k, known[x])
  BY <1>1, <1>2, HandoffsAreTransfers, SourceTargetFields, TypeFacts, LatestFacts
  DEF AuthorityInv, BeginCapture, MayTake, Top
<1>4. SameLine /\ UNCHANGED <<row, wireVars>>
  BY DEF BeginCapture, durableVars, SameLine, SameSnapshots
<1>5. SitesTyped'
  BY <1>1, <1>3, GraphsKept DEF BeginCapture
<1>6. \A u \in DOMAIN transfers :
        row[Home][u].state = "committed" => row[Home][u].snap = Expected(u) + 2
  BY HandoffsAreTransfers, HomeIsSite DEF AuthorityInv, RowsInv, RowSound
<1>7. CASE Reusable(x, t) /\ job' = [job EXCEPT ![w] = [NoJob EXCEPT !.at = "recorded",
                                                         !.t = t, !.snap = Latest(x)]]
  <2> DEFINE j == [NoJob EXCEPT !.at = "recorded", !.t = t, !.snap = k]
  <2>1. j \in Job /\ j.at = "recorded" /\ j.t = t /\ j.snap = k
    <3>1. k \in Nat /\ "recorded" \in JobStates
      BY <1>3 DEF JobStates
    <3>2. PICK q \in Job : q = NoJob
      BY NoJobIsJob
    <3>3. j = [q EXCEPT !.at = "recorded", !.t = t, !.snap = k]
      BY <3>2
    <3> HIDE DEF j
    <3> QED BY <1>3, <3>1, <3>3 DEF Job
  <2>2. job' = [job EXCEPT ![w] = j]
    BY <1>2, <1>7
  <2> HIDE DEF j
  <2>3. /\ k \in 1..Top /\ k \in known[x] /\ AuthorityOf(k) = x
        /\ snapshots[k].parent = Expected(t) /\ snapshots[k].epoch = EpochOf(Expected(t))
    BY <1>2, <1>3, <1>7 DEF Reusable, IsLatest, AuthorityOf, Expected
  <2>4. k = Expected(t) + 1 /\ Captured(k)
    <3>1. snapshots[k].parent = k - 1
      BY <1>3, <2>3 DEF LineInv
    <3>2. k = Expected(t) + 1 /\ k - 1 = Expected(t)
      BY <1>3, <2>3, <3>1
    <3> QED BY <2>3, <3>2 DEF Captured
  <2>5. Handed(t, k)
    BY <1>3, <2>3, <2>4 DEF Handed
  <2>6. ASSUME row[Home][t].state \in Active
        PROVE  Top = k
    <3>1. CASE x = Home
      <4>1. writer[Home] = Home
        BY <1>2, <2>3, <3>1, TopIsOfTheWriter
      <4> QED BY <1>2, <3>1, <4>1, HomeHasTheNewest
    <3>2. CASE x # Home
      <4>1. x \in Suitcases
        BY <3>2 DEF Sites
      <4>2. ASSUME NEW u \in DOMAIN transfers, row[Home][u].state = "committed",
                   Expected(u) + 2 = k + 1
            PROVE  FALSE
        <5>1. /\ t = Len(transfers) /\ row[Home][t].state # "committed"
          BY <2>6 DEF AuthorityInv, TransfersInv, Active
        <5>2. u # t /\ u \in 1..Len(transfers) /\ Len(transfers) \in Nat
          BY <1>3, <4>2, <5>1, TypeFacts
        <5>3. u < t
          BY <5>1, <5>2
        <5>4. row[Home][u].snap <= Expected(t)
          BY <4>2, <5>3 DEF AuthorityInv, TransfersInv
        <5>5. row[Home][u].snap = k + 1
          BY <1>6, <4>2
        <5> QED BY <1>3, <2>4, <5>4, <5>5
      <4>3. Latest(x) # 0 /\ AuthorityOf(Latest(x)) = x
        BY <1>2, <2>3
      <4> QED BY <1>2, <4>1, <4>2, <4>3, OwnerHasTheNewest
    <3> QED BY <3>1, <3>2
  <2>7. JobAllowed(w, j)
    BY <1>1, <1>3, <2>1, <2>3, <2>4, <2>5, <2>6 DEF JobAllowed, JobSound, JobHasRow
  <2> QED BY <1>4, <1>5, <2>1, <2>2, <2>7, JobTaken
<1>8. CASE MayCapture(x, t) /\ job' = [job EXCEPT ![w] =
                                         [at |-> "exported", t |-> t, snap |-> Latest(x),
                                          data |-> volume[x]]]
  <2> DEFINE j == [at |-> "exported", t |-> t, snap |-> k, data |-> volume[x]]
  <2>1. j \in Job /\ j.at = "exported" /\ j.t = t /\ j.snap = k
    <3>1. volume[x] \in SUBSET Writes
      BY <1>3 DEF TypesInv
    <3> QED BY <1>3, <3>1 DEF Job, JobStates
  <2>2. job' = [job EXCEPT ![w] = j]
    BY <1>2, <1>8
  <2> HIDE DEF j
  <2>3. /\ k = Expected(t) /\ k \in {0} \cup known[x] /\ OldestActive(x) = t
        /\ AuthoritySite(x) = x
    BY <1>2, <1>3, <1>8 DEF MayCapture, IsLatest, Expected
  <2>4. AuthorityOf(k) = x
    BY <1>2, <2>3, AuthoritySiteFacts
  <2>5. k = Top
    <3>1. CASE x = Home
      BY <1>2, <2>3, <3>1, AuthoritySiteFacts
    <3>2. CASE x # Home
      <4>1. x \in Suitcases
        BY <3>2 DEF Sites
      <4>2. ASSUME NEW u \in DOMAIN transfers, Expected(u) + 2 = k + 1,
                   row[x][u].state \in Over
            PROVE  FALSE
        <5>1. u \in ActiveRows(x)
          BY <4>2, HandoffsAreTransfers DEF ActiveRows, Over, Active
        <5>2. t <= u
          BY <2>3, <5>1, OldestIsActive
        <5>3. Expected(t) <= Expected(u) /\ Expected(u) \in Nat
          BY <1>3, <5>2, TypeFacts DEF AuthorityInv, TransfersInv
        <5> QED BY <1>3, <2>3, <4>2, <5>3
      <4>3. Latest(x) # 0 /\ AuthorityOf(Latest(x)) = x
        BY <2>3, <4>1, AuthoritySiteFacts
      <4> QED BY <1>2, <4>1, <4>2, <4>3, OwnerHasTheNewest
    <3> QED BY <3>1, <3>2
  <2>6. AuthorityOf(Top) = x
    BY <2>4, <2>5
  <2>7. JobAllowed(w, j)
    BY <1>1, <1>2, <1>3, <2>1, <2>3, <2>5, <2>6 DEF JobAllowed, JobSound, JobHasRow
  <2> QED BY <1>4, <1>5, <2>1, <2>2, <2>7, JobTaken
<1> QED BY <1>1, <1>7, <1>8 DEF BeginCapture

LEMMA BeginRestoreKeeps ==
  ASSUME AuthorityInv, NEW w \in Workers, NEW t \in DOMAIN transfers, BeginRestore(w, t)
  PROVE  AuthorityInv'
<1>1. PICK x \in Sites : x = WorkerSite[w]
  BY WorkersHaveSites
<1>2. PICK k : k = row[x][t].snap
  OBVIOUS
<1>3. /\ TypesInv /\ t \in Transfers /\ t \in Nat /\ x = Target(t)
      /\ row[x][t].state = "target-restoring"
  BY <1>1, HandoffsAreTransfers, SourceTargetFields DEF AuthorityInv, BeginRestore, MayTake
<1>4. RowSound(x, t, row[x][t]) /\ k \in Nat
  BY <1>2, <1>3, RowFacts DEF AuthorityInv, RowsInv
<1>5. Handed(t, k) /\ k \in known[x]
  BY <1>2, <1>3, <1>4 DEF RowSound, Over
<1> DEFINE j == [NoJob EXCEPT !.at = "restoring", !.t = t, !.snap = k]
<1>6. job' = [job EXCEPT ![w] = j]
  BY <1>1, <1>2 DEF BeginRestore
<1>7. j \in Job /\ j.at = "restoring" /\ j.t = t /\ j.snap = k
  <2>1. "restoring" \in JobStates
    BY DEF JobStates
  <2>2. PICK q \in Job : q = NoJob
    BY NoJobIsJob
  <2>3. j = [q EXCEPT !.at = "restoring", !.t = t, !.snap = k]
    BY <2>2
  <2> HIDE DEF j
  <2> QED BY <1>3, <1>4, <2>1, <2>3 DEF Job
<1> HIDE DEF j
<1>8. JobAllowed(w, j)
  BY <1>1, <1>3, <1>5, <1>7 DEF JobAllowed, JobSound, JobHasRow
<1>9. SameLine /\ UNCHANGED <<row, wireVars>> /\ SitesTyped'
  BY <1>3, SitesKept DEF BeginRestore, durableVars, SameLine, SameSnapshots
<1> QED BY <1>6, <1>7, <1>8, <1>9, JobTaken

LEMMA RestoreVolumeKeeps ==
  ASSUME AuthorityInv, NEW w \in Workers, RestoreVolume(w)
  PROVE  AuthorityInv'
<1>1. PICK x \in Sites, q \in Job : x = WorkerSite[w] /\ q = job[w]
  BY JobFacts
<1>2. /\ TypesInv /\ JobSound(x, q) /\ q.at = "restoring"
      /\ x # Home => JobHasRow(q, row[x][q.t].state)
  BY <1>1, JobFacts DEF AuthorityInv, RestoreVolume
<1>3. Handed(q.t, q.snap) /\ q.snap \in known[x] /\ Target(q.t) = x
      /\ q.t \in DOMAIN transfers
  BY <1>2 DEF JobSound
<1> DEFINE j == [q EXCEPT !.at = "probing"]
<1>4. job' = [job EXCEPT ![w] = j]
  BY <1>1 DEF RestoreVolume
<1>5. j \in Job /\ j.at = "probing" /\ j.t = q.t /\ j.snap = q.snap
  BY DEF Job, JobStates
<1> HIDE DEF j
<1>6. JobAllowed(w, j)
  BY <1>1, <1>2, <1>3, <1>5 DEF JobAllowed, JobSound, JobHasRow
<1>7. SameLine /\ UNCHANGED <<row, wireVars>>
  BY DEF RestoreVolume, durableVars, SameLine, SameSnapshots
<1>8. SitesTyped'
  <2>1. snapshots[q.snap].data \in SUBSET Writes
    BY <1>2, <1>3, KnownData DEF Handed
  <2>2. volume' = [volume EXCEPT ![x] = snapshots[q.snap].data]
    BY <1>1 DEF RestoreVolume
  <2>3. volume' \in [Sites -> SUBSET Writes]
    BY <1>2, <2>1, <2>2 DEF TypesInv
  <2>4. up' = up \cup ({x} \ {Home}) /\ placed' = placed /\ writes' = writes
    BY <1>1 DEF RestoreVolume, StartsGraph
  <2>5. up' \subseteq Suitcases
    BY <1>2, <2>4 DEF TypesInv, Sites
  <2> QED BY <1>2, <2>3, <2>4, <2>5 DEF TypesInv, SitesTyped
<1> QED BY <1>4, <1>5, <1>6, <1>7, <1>8, JobTaken

LEMMA RepeatsKeeps ==
  ASSUME AuthorityInv, NEW w \in Workers, Repeats(w)
  PROVE  AuthorityInv'
<1>1. PICK t \in DOMAIN transfers : StopTarget(w, t) \/ ActivateTarget(w, t) \/ StopSource(w, t)
  BY DEF Repeats
<1>2. SameLine /\ UNCHANGED <<row, wireVars>> /\ job' = job
  BY <1>1 DEF StopTarget, ActivateTarget, StopSource, durableVars, SameLine, SameSnapshots
<1>3. SitesTyped'
  <2>1. TypesInv /\ WorkerSite[w] \in Sites
    BY WorkersHaveSites DEF AuthorityInv
  <2>2. /\ UNCHANGED <<volume, placed, writes>>
        /\ StartsGraph(WorkerSite[w]) \/ StopsGraph(WorkerSite[w])
    BY <1>1 DEF StopTarget, ActivateTarget, StopSource
  <2> QED BY <2>1, <2>2, GraphsKept
<1> QED BY <1>2, <1>3, QuietKeeps

LEMMA MaterialiseKeeps ==
  ASSUME AuthorityInv, NEW s \in Suitcases, Materialise(s)
  PROVE  AuthorityInv'
<1>1. PICK k \in 0..Top : k = Latest(s)
  BY LatestFacts, HomeIsSite DEF AuthorityInv, Top
<1>2. TypesInv /\ s \in Sites /\ Top \in Nat
  BY HomeIsSite, TypeFacts DEF AuthorityInv, Top
<1>3. k # 0
  BY <1>1 DEF Materialise, AuthorityInv, OwnerInv
<1>4. snapshots[k].data \in SUBSET Writes
  BY <1>1, <1>2, <1>3, KnownData
<1>5. \/ volume' = volume
      \/ volume' = [volume EXCEPT ![s] = snapshots[k].data]
  BY <1>1 DEF Materialise
<1>6. volume' \in [Sites -> SUBSET Writes]
  BY <1>2, <1>4, <1>5 DEF TypesInv
<1>7. up' \subseteq Suitcases /\ placed' \subseteq Suitcases /\ writes' = writes
  BY <1>2 DEF Materialise, StartsGraph, TypesInv
<1>8. SitesTyped'
  BY <1>2, <1>6, <1>7 DEF SitesTyped, TypesInv
<1>9. SameLine /\ UNCHANGED <<row, wireVars>> /\ job' = job
  BY DEF Materialise, durableVars, SameLine, SameSnapshots
<1> QED BY <1>8, <1>9, QuietKeeps

LEMMA SupervisorKeeps ==
  ASSUME AuthorityInv, NEW s \in Suitcases, SupervisorStarts(s)
  PROVE  AuthorityInv'
<1>1. SameLine /\ UNCHANGED <<row, wireVars>> /\ job' = job
  BY DEF SupervisorStarts, durableVars, SameLine, SameSnapshots
<1>2. SitesTyped'
  BY GraphsKept, HomeIsSite DEF SupervisorStarts, AuthorityInv
<1> QED BY <1>1, <1>2, QuietKeeps

LEMMA WriteKeeps ==
  ASSUME AuthorityInv, NEW x \in Sites, Write(x)
  PROVE  AuthorityInv'
<1>1. SameLine /\ UNCHANGED <<row, wireVars>> /\ job' = job
  BY DEF Write, durableVars, SameLine, SameSnapshots
<1>2. /\ volume \in [Sites -> SUBSET Writes] /\ writes \in Nat /\ MaxWrites \in Nat
      /\ up \subseteq Suitcases /\ placed \subseteq Suitcases
  BY AuthorityBounds DEF AuthorityInv, TypesInv
<1>3. writes' \in Writes /\ writes' \in Nat
  BY <1>2 DEF Write, Writes
<1>4. volume' = [volume EXCEPT ![x] = volume[x] \cup {writes'}] /\ up' = up /\ placed' = placed
  BY DEF Write
<1>5. volume[x] \cup {writes'} \in SUBSET Writes
  BY <1>2, <1>3
<1>6. volume' \in [Sites -> SUBSET Writes]
  <2> DEFINE v == volume[x] \cup {writes'}
  <2>1. v \in SUBSET Writes /\ volume' = [volume EXCEPT ![x] = v]
    BY <1>4, <1>5
  <2> HIDE DEF v
  <2> QED BY <1>2, <2>1
<1>7. SitesTyped'
  BY <1>2, <1>3, <1>4, <1>6 DEF SitesTyped
<1> QED BY <1>1, <1>7, QuietKeeps

LEMMA CrashKeeps ==
  ASSUME AuthorityInv, NEW x \in Sites, Crash(x)
  PROVE  AuthorityInv'
<1>1. SameLine /\ UNCHANGED <<row, wireVars>> /\ job' = Idle(x)
  BY DEF Crash, durableVars, SameLine, SameSnapshots
<1>2. SitesTyped'
  BY SitesKept DEF Crash, AuthorityInv
<1> QED BY <1>1, <1>2, QuietKeeps

-----------------------------------------------------------------------------
(* A handoff is started.                                                   *)
LEMMA SeqAppended ==
  ASSUME NEW S, NEW q \in Seq(S), NEW e \in S
  PROVE  /\ Append(q, e) \in Seq(S) /\ Len(Append(q, e)) = Len(q) + 1 /\ Len(q) \in Nat
         /\ DOMAIN q = 1..Len(q) /\ DOMAIN Append(q, e) = 1..(Len(q) + 1)
         /\ Append(q, e)[Len(q) + 1] = e
         /\ \A i \in 1..Len(q) : Append(q, e)[i] = q[i]
OBVIOUS

LEMMA StartKeeps ==
  ASSUME AuthorityInv, NEW target \in Sites, NEW how, StartTransfer(target, how)
  PROVE  AuthorityInv'
<1>1. PICK t, k : t = Len(transfers) + 1 /\ k = Latest(Home)
  OBVIOUS
<1> DEFINE m == [source |-> writer[Home], target |-> target, expected |-> k]
           r == [NoRow EXCEPT !.state = "requested", !.sent = Noted(how, "requested")]
           e == Event("requested", t, 0)
<1>2. /\ TypesInv /\ LineInv /\ Home \in Sites /\ k \in 0..Top /\ Top \in Nat /\ t \in Nat
      /\ t # 0 /\ t \in Transfers /\ t \notin DOMAIN transfers /\ Len(transfers) \in Nat
      /\ DOMAIN transfers = 1..Len(transfers) /\ DOMAIN transfers \subseteq Transfers
  <2>1. Len(transfers) \in Nat /\ MaxTransfers \in Nat /\ Len(transfers) < MaxTransfers
        /\ DOMAIN transfers = 1..Len(transfers)
    BY TypeFacts, AuthorityBounds DEF AuthorityInv, StartTransfer
  <2>2. t \in Transfers /\ t \notin DOMAIN transfers /\ t \in Nat /\ t # 0
    BY <1>1, <2>1 DEF Transfers
  <2> QED BY <1>1, <2>1, <2>2, HomeIsSite, TopIsOfTheWriter, HandoffsAreTransfers
      DEF AuthorityInv
<1>3. AuthoritySite(Home) = writer[Home]
  BY <1>2, TopIsOfTheWriter DEF AuthoritySite, AuthorityOf
<1>4. /\ SameSnapshots /\ UNCHANGED siteVars /\ writes' = writes
      /\ transfers' = Append(transfers, m) /\ row' = [row EXCEPT ![Home][t] = r]
      /\ Tells(Home, <<e>>, how) /\ job' \in {job, Idle(Home)}
      /\ ActiveRows(Home) = {} /\ writer[Home] # target
  BY <1>1, <1>3 DEF StartTransfer, MayStart, SameSnapshots
<1>5. m \in Transfer /\ m.source = writer[Home] /\ m.target = target /\ m.expected = k
  <2>1. writer[Home] \in Sites /\ k \in Nat
    BY <1>2 DEF TypesInv
  <2> QED BY <2>1 DEF Transfer
<1>6. r \in TransferRow /\ r.state = "requested" /\ r.snap = 0
  BY DEF NoRow, TransferRow, States, Active, Noted, Ops
<1>7. e \in Events /\ e.op = "requested" /\ e.t = t /\ e.snap = 0
  BY <1>2, EventIn DEF Ops
<1> HIDE DEF m, r, e
<1>8. /\ transfers' \in Seq(Transfer) /\ Len(transfers') = t
      /\ DOMAIN transfers' = DOMAIN transfers \cup {t}
      /\ transfers'[t] = m /\ \A u \in DOMAIN transfers : transfers'[u] = transfers[u]
  <2>1. transfers \in Seq(Transfer)
    BY <1>2 DEF TypesInv
  <2>2. /\ transfers' \in Seq(Transfer) /\ Len(transfers') = Len(transfers) + 1
        /\ DOMAIN transfers' = 1..(Len(transfers) + 1)
        /\ transfers'[Len(transfers) + 1] = m
        /\ \A u \in 1..Len(transfers) : transfers'[u] = transfers[u]
    BY <1>4, <1>5, <2>1, SeqAppended
  <2> QED BY <1>1, <1>2, <2>2
<1>9. /\ row' \in [Sites -> [Transfers -> TransferRow]] /\ row'[Home][t] = r
      /\ \A y \in Sites, u \in Transfers : y # Home \/ u # t => row'[y][u] = row[y][u]
  <2>1. row \in [Sites -> [Transfers -> TransferRow]]
    BY <1>2 DEF TypesInv
  <2> QED BY <1>2, <1>4, <1>6, <2>1, RowUpdate
<1>10. \A y \in Sites, u \in DOMAIN transfers : row'[y][u] = row[y][u]
  BY <1>2, <1>9
<1>11. Posted(Home, {e})
  BY <1>2, <1>4, <1>7, TellsPosts
<1>12. job' \in [Workers -> Job] /\ \A w \in Workers : job'[w] \in {job[w], NoJob}
  <2>1. job \in [Workers -> Job]
    BY <1>2 DEF TypesInv
  <2> QED BY <1>2, <1>4, <2>1, IdleEnds DEF JobsEnd
<1>13. TypesInv' /\ Grown
  <2>1. SitesTyped'
    BY <1>2, <1>4, SitesKept
  <2>2. Len(transfers) <= Len(transfers')
    BY <1>1, <1>2, <1>8
  <2> QED BY <1>2, <1>4, <1>8, <1>9, <1>11, <1>12, <2>1, <2>2
      DEF TypesInv, SitesTyped, SameSnapshots, Posted, Grown
<1>14. /\ LineInv' /\ Top' = Top /\ \A y \in Sites : Latest(y)' = Latest(y)
  BY <1>2, <1>4, <1>13, SameLineKeeps
<1>15. RowsLast
  BY <1>2, <1>10 DEF RowsLast
<1>16. /\ \A u \in DOMAIN transfers : Source(u)' = Source(u) /\ Target(u)' = Target(u)
                                     /\ Expected(u)' = Expected(u)
       /\ Source(t)' = writer[Home] /\ Target(t)' = target /\ Expected(t)' = k
  BY <1>5, <1>8 DEF Source, Target, Expected
<1>17. \A u \in DOMAIN transfers : row[Home][u].state \notin Active
  BY <1>2, <1>4 DEF ActiveRows
<1>18. TransfersInv'
  <2>1. \A u \in DOMAIN transfers : Expected(u) <= k /\ Expected(u) \in Nat
    BY <1>1, <1>2, TypeFacts DEF AuthorityInv, TransfersInv
  <2>2. \A u \in DOMAIN transfers : row[Home][u].state = "committed" => row[Home][u].snap <= k
    <3>1. \A u \in DOMAIN transfers : row[Home][u].snap \in {0} \cup known[Home]
      BY <1>2 DEF AuthorityInv, RowsInv, RowSound
    <3>2. IsLatest(k, known[Home])
      BY <1>1, <1>2, LatestFacts
    <3> QED BY <1>2, <3>1, <3>2 DEF IsLatest
  <2>3. \A u \in DOMAIN transfers' : Expected(u)' <= Latest(Home)' /\ Source(u)' # Target(u)'
    BY <1>1, <1>2, <1>4, <1>8, <1>14, <1>16, <2>1 DEF AuthorityInv, TransfersInv
  <2>4. \A u \in DOMAIN transfers' :
          /\ row'[Home][u].state # "none"
          /\ row'[Home][u].state \in Active =>
               u = Len(transfers') /\ Source(u)' = writer'[Home]
    BY <1>2, <1>4, <1>6, <1>8, <1>9, <1>10, <1>16, <1>17
    DEF AuthorityInv, TransfersInv, SameSnapshots
  <2>5. ASSUME NEW u \in DOMAIN transfers', NEW v \in DOMAIN transfers'
        PROVE  /\ u <= v => Expected(u)' <= Expected(v)'
               /\ row'[Home][u].state = "committed" /\ u < v => row'[Home][u].snap <= Expected(v)'
    <3>1. CASE v \in DOMAIN transfers
      <4>1. u <= v => u \in DOMAIN transfers
        BY <1>1, <1>2, <1>8, <3>1
      <4>2. u < v => u <= v
        BY <1>2, <1>8
      <4> QED BY <1>2, <1>10, <1>16, <3>1, <4>1, <4>2 DEF AuthorityInv, TransfersInv
    <3>2. CASE v = t
      <4>1. u < t => u \in DOMAIN transfers
        BY <1>8, <1>2
      <4>2. CASE u = t
        BY <1>2, <1>6, <1>9, <1>16, <3>2, <4>2
      <4>3. CASE u \in DOMAIN transfers
        BY <1>2, <1>10, <1>16, <2>1, <2>2, <3>2, <4>3
      <4> QED BY <1>8, <4>2, <4>3
    <3> QED BY <1>8, <3>1, <3>2
  <2>6. Len(transfers') <= MaxTransfers
    BY <1>2, <1>8 DEF Transfers
  <2> QED BY <2>3, <2>4, <2>5, <2>6 DEF TransfersInv
<1>19. RowsInv'
  <2>1. RowSound(Home, t, r)'
    BY <1>6, <1>8 DEF RowSound, Over
  <2>2. ASSUME NEW y \in Sites, NEW u \in Transfers
        PROVE  row'[y][u] = row[y][u] \/ \E q : row'[y][u] = q /\ RowSound(y, u, q)'
    BY <1>9, <2>1
  <2> QED BY <1>2, <1>13, <2>2, RowsKept DEF AuthorityInv
<1>20. JobsInv'
  <2> SUFFICES ASSUME NEW w \in Workers
               PROVE  /\ JobSound(WorkerSite[w], job[w])'
                      /\ WorkerSite[w] # Home =>
                           JobHasRow(job[w], row[WorkerSite[w]][job[w].t].state)'
    BY DEF JobsInv
  <2>1. CASE job'[w] = NoJob
    BY <2>1 DEF JobSound, JobHasRow, NoJob
  <2>2. CASE job'[w] = job[w]
    <3>1. PICK j \in Job : j = job[w]
      BY JobFacts
    <3>2. /\ JobSound(WorkerSite[w], j) /\ WorkerSite[w] \in Sites
          /\ WorkerSite[w] # Home => JobHasRow(j, row[WorkerSite[w]][j.t].state)
      BY <3>1, JobFacts
    <3>3. JobSound(WorkerSite[w], j)' /\ job'[w] = j
      BY <1>2, <1>13, <1>14, <2>2, <3>1, <3>2, JobSoundKept
    <3>4. JobSound(WorkerSite[w], job[w])'
      BY <3>3 DEF JobSound
    <3>5. j.at # "idle" => row'[WorkerSite[w]][j.t] = row[WorkerSite[w]][j.t]
      BY <1>10, <3>2 DEF JobSound
    <3> QED BY <3>2, <3>3, <3>4, <3>5 DEF JobHasRow
  <2> QED BY <1>12, <2>1, <2>2
<1>21. EventsInv'
  <2>1. EventSound(e)'
    BY <1>2, <1>7, <1>8 DEF EventSound, Broken
  <2>2. ASSUME NEW s \in Suitcases, NEW d \in Outs(s)'
        PROVE  d \in Outs(s) \/ OutSound(s, d)'
    BY <1>11, HomeIsSite DEF Posted
  <2>3. ASSUME NEW s \in Suitcases, NEW d \in Ins(s)'
        PROVE  d \in Ins(s) \/ InSound(s, d)'
    <3>1. InSound(s, e)'
      BY <1>7, <2>1 DEF InSound, Broken
    <3> QED BY <1>11, <3>1 DEF Posted
  <2> QED BY <1>2, <1>13, <1>15, <2>2, <2>3, EventsKept DEF AuthorityInv
<1>22. \A s \in Suitcases : \A op, u : Told(s, op, u)' => Told(s, op, u)
  BY <1>11, HomeIsSite DEF Posted, Told
<1>23. HandoffInv'
  <2>1. ASSUME NEW u \in DOMAIN transfers, row'[Home][u].state \notin Broken
        PROVE  HandoffAt(u)'
    <3>1. /\ HandoffAt(u) /\ Source(u) \in Sites /\ Target(u) \in Sites
      BY <1>2, <1>10, <2>1, TypeFacts DEF AuthorityInv, HandoffInv
    <3>2. PICK x, y : x = Source(u) /\ y = Target(u)
      OBVIOUS
    <3>3. /\ x # Home => (Told(x, "snapshot-ready", u)' => Told(x, "snapshot-ready", u))
          /\ y # Home => (Told(y, "target-ready", u)' => Told(y, "target-ready", u))
      BY <1>22, <3>1, <3>2 DEF Sites
    <3>4. Source(u)' = x /\ Target(u)' = y
      BY <1>16, <3>2
    <3>5. /\ Told(Source(u), "snapshot-ready", u)' => Told(x, "snapshot-ready", u)'
          /\ Told(Target(u), "target-ready", u)' => Told(y, "target-ready", u)'
      BY <3>4 DEF Told, Outs
    <3> QED BY <1>2, <1>10, <3>1, <3>2, <3>3, <3>4, <3>5 DEF HandoffAt
  <2>2. HandoffAt(t)'
    <3>1. PICK x \in Sites, y \in Sites : x = Source(t)' /\ y = Target(t)'
      BY <1>2, <1>16 DEF TypesInv
    <3>2. ASSUME NEW s \in Suitcases, NEW op \in {"snapshot-ready", "target-ready"}
          PROVE  ~ Told(s, op, t)'
      <4>1. \A d \in Outs(s) : d.t # 0 => d.t \in DOMAIN transfers
        BY DEF AuthorityInv, EventsInv, OutSound, EventSound
      <4> QED BY <1>2, <1>22, <4>1 DEF Told
    <3>3. /\ Told(Source(t), "snapshot-ready", t)' => Told(x, "snapshot-ready", t)'
          /\ Told(Target(t), "target-ready", t)' => Told(y, "target-ready", t)'
      BY <3>1 DEF Told, Outs
    <3> QED BY <1>6, <1>9, <3>1, <3>2, <3>3 DEF HandoffAt, Restored, Sites
  <2> QED BY <1>8, <2>1, <2>2 DEF HandoffInv
<1>24. OwnerInv'
  BY <1>4, <1>13, <1>14, <1>15, OwnerKept
<1>25. UnderwayInv'
  <2>1. ASSUME NEW u \in DOMAIN transfers
        PROVE  row'[Home][u].state \notin Active
    BY <1>2, <1>10, <1>17
  <2>2. ~ Underway(t)'
    <3>1. PICK x \in Sites : x = Source(t)'
      BY <1>2, <1>16 DEF TypesInv
    <3>2. row'[x][t].state \notin Over
      <4>1. CASE x = Home
        BY <1>6, <1>9, <4>1 DEF Over
      <4>2. CASE x # Home
        <5>1. row'[x][t].state = "none"
          BY <1>2, <1>9, <4>2 DEF AuthorityInv, RowsInv, RowSound
        <5> QED BY <5>1 DEF Over
      <4> QED BY <4>1, <4>2
    <3>3. ASSUME NEW w \in Workers, job'[w].at = "recorded"
          PROVE  job'[w].t # t
      <4>1. job'[w] = job[w]
        BY <1>12, <3>3 DEF NoJob
      <4> QED BY <1>2, <3>3, <4>1, JobFacts DEF JobSound
    <3> QED BY <3>1, <3>2, <3>3 DEF Underway, Recorded
  <2> QED BY <1>8, <2>1, <2>2 DEF UnderwayInv
<1> QED BY <1>13, <1>14, <1>18, <1>19, <1>20, <1>21, <1>23, <1>24, <1>25 DEF AuthorityInv

-----------------------------------------------------------------------------
(* A snapshot is made, on top of the newest one.                           *)
Extends(m) ==
  /\ m \in Snapshot /\ m.seq = Top + 1 /\ m.parent = Top
  /\ \/ m.epoch = EpochOf(Top) /\ m.authority = AuthorityOf(Top)
     \/ m.epoch = EpochOf(Top) + 1

Made(x, m, p) ==
  /\ p = Top + 1 /\ snapshots' = Append(snapshots, m)
  /\ known' = [known EXCEPT ![x] = known[x] \cup {p}]

LEMMA LineExtended ==
  ASSUME TypesInv, LineInv, NEW x \in Sites, NEW m, Extends(m), m.authority = Home => x = Home,
         NEW p, Made(x, m, p)
  PROVE  /\ LineInv' /\ Top \in Nat /\ p = Top + 1 /\ Top' = p /\ snapshots' \in Seq(Snapshot)
         /\ \A n \in 1..Top : snapshots'[n] = snapshots[n]
         /\ snapshots'[p] = m /\ AuthorityOf(p)' = m.authority
         /\ Captured(p)' <=> m.epoch = EpochOf(Top)
         /\ known' \in [Sites -> SUBSET (1..Len(snapshots'))]
         /\ known'[x] = known[x] \cup {p}
         /\ \A y \in Sites : y # x => known'[y] = known[y]
         /\ \A y \in Sites : known[y] \subseteq known'[y]
<1>1. /\ snapshots' \in Seq(Snapshot) /\ Top' = Top + 1 /\ Top \in Nat
      /\ \A n \in 1..Top : snapshots'[n] = snapshots[n]
      /\ snapshots'[Top + 1] = m
  <2>1. snapshots \in Seq(Snapshot) /\ m \in Snapshot
    BY DEF TypesInv, Extends
  <2> QED BY <2>1, SeqAppended DEF Top, Made
<1>2. \A n \in 1..Top : snapshots[n].epoch \in Nat
  BY TypeFacts DEF Top
<1>3. m.epoch \in Nat /\ m.seq = Top + 1 /\ m.parent = Top
  BY DEF Extends, Snapshot
<1>4. ASSUME NEW n \in 0..Top
      PROVE  EpochOf(n)' = EpochOf(n) /\ AuthorityOf(n)' = AuthorityOf(n) /\ EpochOf(n) \in Nat
  <2>1. CASE n = 0
    BY <2>1 DEF EpochOf, AuthorityOf
  <2>2. CASE n # 0
    <3>1. snapshots'[n] = snapshots[n] /\ snapshots[n].epoch \in Nat
      BY <1>1, <1>2, <2>2
    <3> QED BY <2>2, <3>1 DEF EpochOf, AuthorityOf
  <2> QED BY <2>1, <2>2
<1>5. p \in 1..(Top + 1) /\ p = Top + 1
  BY <1>1 DEF Made
<1>6. /\ snapshots'[p] = m /\ AuthorityOf(p)' = m.authority
      /\ Captured(p)' <=> m.epoch = EpochOf(Top)
      /\ EpochOf(p - 1)' = EpochOf(Top) /\ AuthorityOf(p - 1)' = AuthorityOf(Top)
  <2>1. p - 1 = Top /\ p # 0
    BY <1>1, <1>5
  <2>2. PICK q \in 0..Top : q = Top
    BY <1>1
  <2>3. EpochOf(q)' = EpochOf(q) /\ AuthorityOf(q)' = AuthorityOf(q) /\ p - 1 = q
    BY <1>4, <2>1, <2>2
  <2>4. EpochOf(p - 1)' = EpochOf(Top) /\ AuthorityOf(p - 1)' = AuthorityOf(Top)
    BY <2>2, <2>3
  <2> QED BY <1>1, <1>5, <2>1, <2>4 DEF AuthorityOf, Captured
<1>7. /\ known' \in [Sites -> SUBSET (1..(Top + 1))] /\ known'[x] = known[x] \cup {p}
      /\ \A y \in Sites : y # x => known'[y] = known[y]
  <2>1. known \in [Sites -> SUBSET (1..Top)]
    BY DEF TypesInv, Top
  <2>3. known' = [known EXCEPT ![x] = known[x] \cup {p}]
    BY DEF Made
  <2>2. 1..Top \subseteq 1..(Top + 1) /\ p \in 1..(Top + 1)
    BY <1>1, <1>5
  <2> QED BY <2>1, <2>2, <2>3
<1>8. ASSUME NEW n \in 1..Top'
      PROVE  /\ snapshots'[n].seq = n /\ snapshots'[n].parent = n - 1
             /\ Captured(n)' \/ snapshots'[n].epoch = EpochOf(n - 1)' + 1
             /\ Captured(n)' => AuthorityOf(n)' = AuthorityOf(n - 1)'
             /\ AuthorityOf(n)' = Home => n \in known'[Home]
  <2>1. CASE n \in 1..Top
    <3>1. n - 1 \in 0..Top /\ n \in 0..Top
      BY <1>1, <2>1
    <3>2. EpochOf(n - 1)' = EpochOf(n - 1) /\ AuthorityOf(n - 1)' = AuthorityOf(n - 1)
      BY <1>4, <3>1
    <3>3. AuthorityOf(n)' = AuthorityOf(n) /\ snapshots'[n] = snapshots[n]
      BY <1>1, <1>4, <2>1, <3>1
    <3>4. Captured(n)' <=> Captured(n)
      BY <3>2, <3>3 DEF Captured
    <3>5. known[Home] \subseteq known'[Home]
      BY <1>7, HomeIsSite
    <3> QED BY <2>1, <3>2, <3>3, <3>4, <3>5 DEF LineInv
  <2>2. CASE n = p
    <3>1. snapshots'[n].seq = n /\ snapshots'[n].parent = n - 1
      BY <1>1, <1>3, <1>5, <1>6, <2>2
    <3>2. /\ Captured(p)' \/ snapshots'[p].epoch = EpochOf(p - 1)' + 1
          /\ Captured(p)' => AuthorityOf(p)' = AuthorityOf(p - 1)'
      BY <1>1, <1>4, <1>6 DEF Extends
    <3>3. AuthorityOf(p)' = Home => p \in known'[Home]
      BY <1>5, <1>6, <1>7
    <3> QED BY <2>2, <3>1, <3>2, <3>3
  <2> QED BY <1>1, <1>5, <2>1, <2>2
<1>9. ASSUME NEW i \in 1..Top', NEW n \in 1..Top', i <= n
      PROVE  snapshots'[i].epoch <= snapshots'[n].epoch
  <2>1. CASE n \in 1..Top
    <3>1. i \in 1..Top
      BY <1>1, <1>9, <2>1
    <3> QED BY <1>1, <1>9, <2>1, <3>1 DEF LineInv
  <2>2. CASE n = p /\ i = p
    BY <1>3, <1>6, <2>2
  <2>3. CASE n = p /\ i \in 1..Top
    <3>1. Top \in 1..Top /\ i <= Top
      BY <1>1, <2>3
    <3>2. snapshots[i].epoch <= snapshots[Top].epoch
      BY <2>3, <3>1 DEF LineInv
    <3>3. EpochOf(Top) = snapshots[Top].epoch
      BY <3>1 DEF EpochOf
    <3>4. EpochOf(Top) <= m.epoch
      BY <1>1, <1>2, <3>1, <3>3 DEF Extends
    <3>5. snapshots'[i] = snapshots[i] /\ snapshots[i].epoch \in Nat
          /\ snapshots[Top].epoch \in Nat
      BY <1>1, <1>2, <2>3, <3>1
    <3> QED BY <1>3, <1>6, <2>3, <3>2, <3>3, <3>4, <3>5
  <2> QED BY <1>1, <1>5, <2>1, <2>2, <2>3
<1>10. LineInv'
  BY <1>8, <1>9 DEF LineInv
<1>11. \A y \in Sites : known[y] \subseteq known'[y]
  BY <1>7
<1>12. known' \in [Sites -> SUBSET (1..Len(snapshots'))]
  BY <1>1, <1>7 DEF Top
<1> QED BY <1>1, <1>5, <1>6, <1>7, <1>10, <1>11, <1>12
LEMMA ManifestExtends ==
  ASSUME AuthorityInv, NEW x \in Sites, AuthorityOf(Top) = x, NEW data \in SUBSET Writes
  PROVE  /\ Extends(Manifest(x, Top, data)) /\ Manifest(x, Top, data).authority = x
         /\ Manifest(x, Top, data).epoch = EpochOf(Top)
<1>1. /\ Top \in Nat /\ \A n \in 1..Top : snapshots[n].epoch \in Nat /\ snapshots[n].seq = n
  BY TypeFacts DEF AuthorityInv, LineInv, Top
<1>2. EpochOf(Top) \in Nat /\ SeqOf(Top) = Top
  BY <1>1 DEF EpochOf, SeqOf
<1>3. Manifest(x, Top, data) = [authority |-> x, epoch |-> EpochOf(Top), seq |-> Top + 1,
                                parent |-> Top, data |-> data]
  BY <1>2 DEF Manifest
<1> QED BY <1>1, <1>2, <1>3 DEF Extends, Snapshot

(* The capture that the pass of worker w awaited is recorded.              *)
Captures(x, w, j, p) ==
  /\ WorkerSite[w] = x /\ job[w].at = "exported" /\ job[w].snap = Top
  /\ j.at = "recorded" /\ j.t = job[w].t /\ j.snap = p

LEMMA CaptureStep ==
  ASSUME AuthorityInv, NEW x \in Sites, NEW m, NEW p, NEW e \in Events,
         Latest(x) = Top, AuthorityOf(Top) = x, Extends(m), m.authority = x,
         m.epoch = EpochOf(Top), Made(x, m, p), UNCHANGED <<transfers, row, writer>>, SitesTyped',
         e.op = "created", e.t = 0, e.snap = p, Posted(x, {e}),
         job' \in [Workers -> Job],
         \A w \in Workers : job'[w] \in {job[w], NoJob} \/ Captures(x, w, job'[w], p),
         \A t \in DOMAIN transfers : row[Home][t].state \in Active => ~ Underway(t)
  PROVE  AuthorityInv'
<1>1. TypesInv /\ LineInv /\ Home \in Sites
  BY HomeIsSite DEF AuthorityInv
<1>2. /\ LineInv' /\ Top \in Nat /\ p = Top + 1 /\ Top' = p /\ snapshots' \in Seq(Snapshot)
      /\ \A n \in 1..Top : snapshots'[n] = snapshots[n]
      /\ AuthorityOf(p)' = x /\ Captured(p)'
      /\ known' \in [Sites -> SUBSET (1..Len(snapshots'))]
      /\ known'[x] = known[x] \cup {p}
      /\ \A y \in Sites : y # x => known'[y] = known[y]
      /\ \A y \in Sites : known[y] \subseteq known'[y]
  BY <1>1, LineExtended
<1>3. TypesInv' /\ Grown
  BY <1>1, <1>2 DEF TypesInv, Grown, SitesTyped, Posted, Top
<1>4. /\ transfers' = transfers /\ DOMAIN transfers' = DOMAIN transfers /\ row' = row
      /\ writer' = writer /\ RowsLast
      /\ \A u : Source(u)' = Source(u) /\ Target(u)' = Target(u) /\ Expected(u)' = Expected(u)
  BY DEF Source, Target, Expected, RowsLast
<1>5. /\ Latest(x)' = p /\ \A y \in Sites : y # x => Latest(y)' = Latest(y)
      /\ \A y \in Sites : Latest(y) \in 0..Top /\ Latest(y)' \in 0..p /\ Latest(y) <= Latest(y)'
  <2>1. Latest(x)' = p
    BY <1>1, <1>2, <1>3, LatestAdded
  <2> QED BY <1>1, <1>2, <1>3, <2>1, LatestGrows
<1>6. TransfersInv'
  <2>1. \A t \in DOMAIN transfers : Expected(t) <= Latest(Home)'
    BY <1>1, <1>2, <1>5, TypeFacts DEF AuthorityInv, TransfersInv
  <2> QED BY <1>4, <2>1 DEF AuthorityInv, TransfersInv
<1>7. RowsInv'
  BY <1>1, <1>3, <1>4, RowsKept DEF AuthorityInv
<1>8. ASSUME NEW w \in Workers
      PROVE  /\ JobSound(WorkerSite[w], job[w])'
             /\ WorkerSite[w] # Home =>
                  JobHasRow(job[w], row[WorkerSite[w]][job[w].t].state)'
  <2>1. CASE job'[w] = NoJob
    BY <2>1 DEF JobSound, JobHasRow, NoJob
  <2>2. CASE job'[w] = job[w]
    <3>1. PICK j \in Job, y \in Sites : j = job[w] /\ y = WorkerSite[w]
      BY JobFacts
    <3>2. JobSound(y, j) /\ (y # Home => JobHasRow(j, row[y][j.t].state))
      BY <3>1, JobFacts
    <3>3. ~ (j.snap = Top /\ AuthorityOf(Top) = y /\ Latest(y)' = Top)
      BY <1>2, <1>5
    <3>4. JobSound(y, j)'
      BY <1>1, <1>2, <1>3, <3>2, <3>3, JobSoundKept
    <3>5. JobSound(WorkerSite[w], job[w])'
      BY <2>2, <3>1, <3>4 DEF JobSound
    <3> QED BY <1>4, <2>2, <3>1, <3>2, <3>5 DEF JobHasRow
  <2>3. CASE Captures(x, w, job'[w], p)
    <3>1. PICK j \in Job, i \in Job : j = job'[w] /\ i = job[w]
      BY JobFacts
    <3>2. /\ WorkerSite[w] = x /\ i.at = "exported" /\ i.snap = Top
          /\ j.at = "recorded" /\ j.t = i.t /\ j.snap = p
      BY <2>3, <3>1 DEF Captures
    <3>3. JobSound(x, i) /\ (x # Home => JobHasRow(i, row[x][i.t].state))
      BY <3>1, <3>2, JobFacts
    <3>4. i.t \in DOMAIN transfers /\ Source(i.t) = x /\ Expected(i.t) = Top
      BY <3>2, <3>3 DEF JobSound
    <3>5. Handed(j.t, p)'
      BY <1>2, <1>4, <3>2, <3>4 DEF Handed
    <3>6. p \in known'[x] /\ j.t \in DOMAIN transfers' /\ Source(j.t)' = x
      BY <1>2, <1>4, <3>2, <3>4
    <3>7. JobSound(x, j)'
      BY <3>2, <3>5, <3>6 DEF JobSound
    <3>8. JobSound(WorkerSite[w], job[w])'
      BY <3>1, <3>2, <3>7 DEF JobSound
    <3> QED BY <1>4, <3>1, <3>2, <3>3, <3>8 DEF JobHasRow
  <2> QED BY <2>1, <2>2, <2>3
<1>9. JobsInv'
  BY <1>8 DEF JobsInv
<1>10. EventsInv'
  <2>1. EventSound(e)'
    BY <1>2, <1>4 DEF EventSound, Broken
  <2>2. \A s \in Suitcases : OutSound(s, e)' /\ InSound(s, e)'
    BY <2>1 DEF OutSound, InSound, Broken
  <2>3. \A s \in Suitcases : \A d \in Outs(s)' : d \in Outs(s) \/ OutSound(s, d)'
    BY <2>2 DEF Posted
  <2>4. \A s \in Suitcases : \A d \in Ins(s)' : d \in Ins(s) \/ InSound(s, d)'
    BY <2>2 DEF Posted
  <2> QED BY <1>1, <1>3, <1>4, <2>3, <2>4, EventsKept DEF AuthorityInv
<1>11. HandoffInv'
  <2>1. ASSUME NEW s \in Suitcases, NEW u \in DOMAIN transfers, NEW op, Told(s, op, u)'
        PROVE  Told(s, op, u)
    <3>1. u # 0
      BY HandoffsAreTransfers
    <3> QED BY <2>1, <3>1 DEF Told, Posted
  <2>2. ASSUME NEW u \in DOMAIN transfers, row[Home][u].state \notin Broken
        PROVE  HandoffAt(u)'
    <3>1. HandoffAt(u) /\ Source(u) \in Sites /\ Target(u) \in Sites
      BY <1>1, <2>2, TypeFacts DEF AuthorityInv, HandoffInv
    <3>2. PICK y, z : y = Source(u) /\ z = Target(u)
      OBVIOUS
    <3>3. /\ y # Home => (Told(y, "snapshot-ready", u)' => Told(y, "snapshot-ready", u))
          /\ z # Home => (Told(z, "target-ready", u)' => Told(z, "target-ready", u))
      BY <2>1, <3>1, <3>2 DEF Sites
    <3>4. /\ Told(Source(u), "snapshot-ready", u)' => Told(y, "snapshot-ready", u)'
          /\ Told(Target(u), "target-ready", u)' => Told(z, "target-ready", u)'
      BY <1>4, <3>2 DEF Told, Outs
    <3> QED BY <1>4, <3>1, <3>2, <3>3, <3>4 DEF HandoffAt
  <2> QED BY <1>4, <2>2 DEF HandoffInv
<1>12. \A n \in 0..Top : AuthorityOf(n)' = AuthorityOf(n)
  BY <1>1, <1>3, GrownFacts
<1>13. OwnerInv'
  <2>1. writer[Home] = x
    BY TopIsOfTheWriter
  <2>2. ASSUME NEW n \in Latest(Home)'..Top'
        PROVE  AuthorityOf(n)' = writer'[Home]
    <3>1. CASE n = p
      BY <1>2, <1>4, <2>1, <3>1
    <3>2. CASE n # p
      <4>1. n \in Latest(Home)..Top /\ n \in 0..Top
        BY <1>1, <1>2, <1>5, <3>2
      <4>2. AuthorityOf(n) = writer[Home]
        BY <4>1 DEF AuthorityInv, OwnerInv
      <4> QED BY <1>4, <1>12, <4>1, <4>2
    <3> QED BY <3>1, <3>2
  <2>3. ASSUME NEW s \in Suitcases
        PROVE  /\ Latest(s)' # 0 /\ AuthorityOf(Latest(s))' = s
                  => Latest(s)' = Top' \/ HandedOver(s, Latest(s))'
               /\ writer'[s] = s => Latest(s)' # 0 /\ AuthorityOf(Latest(s))' = s
               /\ \A n \in 1..Top' : AuthorityOf(n)' = s /\ n > Latest(s)' => n = Top'
    <3>1. s \in Sites
      BY HomeIsSite
    <3>2. ASSUME NEW n \in 1..Top', AuthorityOf(n)' = s, n > Latest(s)'
          PROVE  n = Top'
      <4> SUFFICES ASSUME n # p
                   PROVE  FALSE
        BY <1>2
      <4>1. n \in 1..Top /\ n \in 0..Top
        BY <1>2
      <4>2. AuthorityOf(n) = s /\ n > Latest(s)
        BY <1>2, <1>5, <1>12, <3>1, <3>2, <4>1
      <4>3. n = Top
        BY <4>1, <4>2 DEF AuthorityInv, OwnerInv
      <4>4. s = x
        BY <4>2, <4>3
      <4> QED BY <1>2, <1>5, <3>2, <4>1, <4>4
    <3>3. CASE s = x
      <4>1. AuthorityOf(Latest(s))' = AuthorityOf(p)'
        BY <1>2, <1>5, <3>3 DEF AuthorityOf
      <4> QED BY <1>2, <1>5, <3>2, <3>3, <4>1
    <3>4. CASE s # x
      <4>1. PICK k \in 0..Top : k = Latest(s)
        BY <1>5, <3>1
      <4>2. Latest(s)' = k /\ AuthorityOf(k)' = AuthorityOf(k)
        BY <1>5, <1>12, <3>1, <3>4, <4>1
      <4>3. AuthorityOf(Latest(s))' = AuthorityOf(k)
        BY <4>2 DEF AuthorityOf
      <4>4. /\ k # 0 /\ AuthorityOf(k) = s => k = Top \/ HandedOver(s, k)
            /\ writer[s] = s => k # 0 /\ AuthorityOf(k) = s
        <5>1. AuthorityOf(Latest(s)) = AuthorityOf(k)
              /\ (HandedOver(s, Latest(s)) => HandedOver(s, k))
          BY <4>1
        <5> QED BY <4>1, <5>1 DEF AuthorityInv, OwnerInv
      <4>5. HandedOver(s, k) => HandedOver(s, k)'
        BY <1>1, <1>3, <1>4, <3>1, HandedOverKept
      <4>6. HandedOver(s, k)' => HandedOver(s, Latest(s))'
        BY <4>2 DEF HandedOver
      <4>7. k = Top => AuthorityOf(k) = x
        OBVIOUS
      <4> QED BY <1>4, <3>2, <3>4, <4>2, <4>3, <4>4, <4>5, <4>6, <4>7
    <3> QED BY <3>3, <3>4
  <2> QED BY <2>2, <2>3 DEF OwnerInv
<1>14. UnderwayInv'
  <2> SUFFICES ASSUME NEW u \in DOMAIN transfers, row[Home][u].state \in Active, Underway(u)'
               PROVE  p = Expected(u) + 1
    BY <1>2, <1>4 DEF UnderwayInv
  <2>1. ~ Underway(u)
    OBVIOUS
  <2>2. PICK w \in Workers : /\ WorkerSite[w] = Source(u) /\ job'[w].at = "recorded"
                             /\ job'[w].t = u /\ row[Source(u)][u].state \notin Broken
    BY <1>4, <2>1 DEF Underway, Recorded
  <2>3. job'[w] # job[w] /\ job'[w] # NoJob
    BY <2>1, <2>2 DEF Underway, Recorded, NoJob
  <2>4. Captures(x, w, job'[w], p)
    BY <2>3
  <2>5. Expected(u) = Top
    BY <2>2, <2>4, JobFacts DEF Captures, JobSound
  <2> QED BY <1>2, <2>5
<1> QED BY <1>2, <1>3, <1>6, <1>7, <1>9, <1>10, <1>11, <1>13, <1>14 DEF AuthorityInv
LEMMA RecordKeeps ==
  ASSUME AuthorityInv, NEW w \in Workers, NEW how, RecordSnapshot(w, how)
  PROVE  AuthorityInv'
<1>1. PICK x \in Sites, j \in Job : x = WorkerSite[w] /\ j = job[w]
  BY JobFacts
<1>2. PICK p : p = Len(snapshots) + 1
  OBVIOUS
<1>3. /\ TypesInv /\ LineInv /\ JobSound(x, j) /\ j.at = "exported"
      /\ Top \in Nat /\ p = Top + 1 /\ Latest(x) \in 0..Top
  BY <1>1, <1>2, JobFacts, TypeFacts, LatestFacts DEF AuthorityInv, RecordSnapshot, Top
<1>4. j.snap = Latest(x)
  <2>1. Recordable(x, Manifest(x, j.snap, j.data), p, FALSE)
    BY <1>1, <1>2 DEF RecordSnapshot
  <2>2. Manifest(x, j.snap, j.data).parent = j.snap
    BY DEF Manifest
  <2> QED BY <1>3, <2>1, <2>2 DEF Recordable
<1>5. j.snap = Top /\ AuthorityOf(Top) = x /\ Latest(x) = Top
  BY <1>3, <1>4 DEF JobSound
<1>6. PICK m : m = Manifest(x, Top, j.data)
  OBVIOUS
<1>7. Extends(m) /\ m.authority = x /\ m.epoch = EpochOf(Top)
  <2>1. j.data \in SUBSET Writes
    BY DEF Job
  <2> QED BY <1>5, <1>6, <2>1, ManifestExtends
<1>8. Made(x, m, p)
  BY <1>1, <1>2, <1>3, <1>5, <1>6 DEF RecordSnapshot, Made
<1> DEFINE e == Event("created", 0, p)
<1>9. e \in Events /\ e.op = "created" /\ e.t = 0 /\ e.snap = p
  BY <1>3, EventIn DEF Ops
<1>10. Tells(x, <<e>>, how)
  BY <1>1, <1>2 DEF RecordSnapshot
<1> HIDE DEF e
<1>11. Posted(x, {e})
  BY <1>3, <1>9, <1>10, TellsPosts
<1> DEFINE r == [NoJob EXCEPT !.at = "recorded", !.t = j.t, !.snap = p]
<1>12. r \in Job /\ r.at = "recorded" /\ r.t = j.t /\ r.snap = p
  <2>1. p \in Nat /\ j.t \in Nat /\ "recorded" \in JobStates
    BY <1>3 DEF Job, JobStates
  <2>2. PICK q \in Job : q = NoJob
    BY NoJobIsJob
  <2>3. r = [q EXCEPT !.at = "recorded", !.t = j.t, !.snap = p]
    BY <2>2
  <2> HIDE DEF r
  <2> QED BY <2>1, <2>3 DEF Job
<1>13. JobAfter(w, how, r)
  BY <1>1, <1>2 DEF RecordSnapshot
<1> HIDE DEF r
<1>14. /\ job' \in [Workers -> Job]
       /\ \A v \in Workers : job'[v] \in {job[v], NoJob} \/ Captures(x, v, job'[v], p)
  <2>1. CASE how = "done"
    <3>1. job \in [Workers -> Job] /\ job' = [job EXCEPT ![w] = r]
      BY <1>3, <1>13, <2>1 DEF TypesInv, JobAfter
    <3>2. /\ job' \in [Workers -> Job] /\ job'[w] = r
          /\ \A v \in Workers : v # w => job'[v] = job[v]
      BY <1>12, <3>1
    <3>3. Captures(x, w, r, p)
      BY <1>1, <1>3, <1>5, <1>12 DEF Captures
    <3> QED BY <3>2, <3>3
  <2>2. CASE how # "done"
    <3>1. job' = Idle(x)
      BY <1>1, <1>13, <2>2 DEF JobAfter
    <3> QED BY <1>3, <3>1, IdleEnds DEF JobsEnd
  <2> QED BY <2>1, <2>2
<1>15. ASSUME NEW u \in DOMAIN transfers, row[Home][u].state \in Active, Underway(u)
       PROVE  FALSE
  <2>1. Top = Expected(u) + 1 /\ u = Len(transfers)
    BY <1>15 DEF AuthorityInv, UnderwayInv, TransfersInv
  <2>2. j.t \in DOMAIN transfers /\ Expected(j.t) = Top
    BY <1>3, <1>5 DEF JobSound
  <2>3. j.t <= u
    BY <1>3, <2>1, <2>2, TypeFacts
  <2>4. Expected(j.t) <= Expected(u) /\ Expected(u) \in Nat
    BY <1>3, <2>2, <2>3, TypeFacts DEF AuthorityInv, TransfersInv
  <2> QED BY <1>3, <2>1, <2>2, <2>4
<1>16. UNCHANGED <<transfers, row, writer>> /\ SitesTyped'
  BY <1>3, SitesKept DEF RecordSnapshot
<1> QED BY <1>5, <1>7, <1>8, <1>9, <1>11, <1>14, <1>15, <1>16, CaptureStep

LEMMA ScheduledKeeps ==
  ASSUME AuthorityInv, NEW s \in Suitcases, NEW how, ScheduledCapture(s, how)
  PROVE  AuthorityInv'
<1>1. PICK p : p = Len(snapshots) + 1
  OBVIOUS
<1>2. /\ TypesInv /\ LineInv /\ s \in Sites /\ s # Home /\ Top \in Nat /\ p = Top + 1
      /\ Latest(s) # 0 /\ AuthorityOf(Latest(s)) = s
  BY <1>1, HomeIsSite, TypeFacts, AuthoritySiteFacts DEF AuthorityInv, ScheduledCapture, Top
<1>3. ASSUME NEW u \in DOMAIN transfers
      PROVE  row[s][u].state \notin Active
  <2>1. u \in Transfers
    BY HandoffsAreTransfers
  <2> QED BY <2>1 DEF ScheduledCapture, ActiveRows
<1>4. Latest(s) = Top
  BY <1>2, <1>3, OwnerHasTheNewest DEF Over, Active
<1>5. AuthorityOf(Top) = s /\ writer[Home] = s
  BY <1>2, <1>4, TopIsOfTheWriter
<1>6. PICK m : m = Manifest(s, Top, volume[s])
  OBVIOUS
<1>7. Extends(m) /\ m.authority = s /\ m.epoch = EpochOf(Top)
  <2>1. volume[s] \in SUBSET Writes
    BY <1>2 DEF TypesInv
  <2> QED BY <1>2, <1>5, <1>6, <2>1, ManifestExtends
<1>8. Made(s, m, p)
  BY <1>1, <1>2, <1>4, <1>6 DEF ScheduledCapture, Made
<1> DEFINE e == Event("created", 0, p)
<1>9. e \in Events /\ e.op = "created" /\ e.t = 0 /\ e.snap = p
  BY <1>2, EventIn DEF Ops
<1>10. \/ Emit(s, <<e>>) /\ job' = job
       \/ UNCHANGED wireVars /\ job' = Idle(s)
  BY <1>1 DEF ScheduledCapture
<1> HIDE DEF e
<1>11. Posted(s, {e})
  BY <1>2, <1>9, <1>10, EmitPosts, NothingPosted, MorePosted
<1>12. job' \in [Workers -> Job] /\ \A v \in Workers : job'[v] \in {job[v], NoJob}
  BY <1>2, <1>10, IdleEnds DEF JobsEnd, TypesInv
<1>13. ASSUME NEW u \in DOMAIN transfers, row[Home][u].state \in Active, Underway(u)
       PROVE  FALSE
  <2>1. Source(u) = s
    BY <1>5, <1>13 DEF AuthorityInv, TransfersInv
  <2>2. row[s][u].state \notin Over
    BY <1>3 DEF Over, Active
  <2>3. PICK v \in Workers : /\ WorkerSite[v] = s /\ job[v].at = "recorded" /\ job[v].t = u
                             /\ row[s][u].state \notin Broken
    BY <1>13, <2>1, <2>2 DEF Underway, Recorded
  <2>4. row[s][u].state = "source-capturing"
    BY <1>2, <2>3, JobFacts DEF JobHasRow
  <2> QED BY <1>3, <2>4 DEF Active
<1>14. UNCHANGED <<transfers, row, writer>> /\ SitesTyped'
  <2>1. UNCHANGED <<volume, placed, writes>> /\ StartsGraph(s)
    BY DEF ScheduledCapture
  <2> QED BY <1>2, <2>1, GraphsKept DEF ScheduledCapture
<1> QED BY <1>2, <1>4, <1>5, <1>7, <1>8, <1>9, <1>11, <1>12, <1>13, <1>14, CaptureStep
(* What Home commits is the newest snapshot: the source made it, waits     *)
(* since, and nobody else could have made one.                             *)
LEMMA CommitsTheNewest ==
  ASSUME AuthorityInv, NEW t \in DOMAIN transfers, row[Home][t].state = "target-ready",
         MayCommit(t)
  PROVE  /\ Top = row[Home][t].snap /\ Top = Expected(t) + 1 /\ Top # 0
         /\ t = Len(transfers) /\ AuthorityOf(Top) = Source(t) /\ HandoffAt(t)
         /\ Source(t) \in Suitcases => Top \in known[Source(t)]
<1>0. PICK k : k = row[Home][t].snap
  OBVIOUS
<1>1. PICK s \in Sites : k = row[Home][t].snap /\ s = Source(t)
  BY <1>0, TypeFacts DEF AuthorityInv
<1>2. /\ TypesInv /\ LineInv /\ Home \in Sites /\ t \in Transfers /\ Top \in Nat
      /\ k = Latest(Home) /\ k \in 0..Top /\ Expected(t) \in Nat
  BY <1>1, HomeIsSite, HandoffsAreTransfers, TypeFacts, LatestFacts
  DEF AuthorityInv, MayCommit, Top
<1>3. RowSound(Home, t, row[Home][t])
  BY <1>2 DEF AuthorityInv, RowsInv
<1>4. k # 0 /\ Handed(t, k)
  BY <1>1, <1>3 DEF RowSound, Over
<1>5. k = Expected(t) + 1 /\ AuthorityOf(k) = s
  BY <1>1, <1>4 DEF Handed
<1>6. t = Len(transfers) /\ s = writer[Home] /\ Target(t) # s
  BY <1>1 DEF AuthorityInv, TransfersInv, Active
<1>7. HandoffAt(t)
  BY DEF AuthorityInv, HandoffInv, Broken
<1>8. CASE s = Home
  <2>1. Latest(Home) = Top
    BY <1>6, <1>8, HomeHasTheNewest
  <2> QED BY <1>1, <1>2, <1>4, <1>5, <1>6, <1>7, <1>8, <2>1, HomeIsSite
<1>9. CASE s # Home
  <2>1. row[s][t].state \in Over \cup {"committed"}
    BY <1>1, <1>4, <1>7, <1>9 DEF HandoffAt
  <2>2. RowSound(s, t, row[s][t])
    BY <1>2 DEF AuthorityInv, RowsInv
  <2>3. row[s][t].state # "committed"
    <3> SUFFICES ASSUME row[s][t].state = "committed"
                 PROVE  FALSE
      OBVIOUS
    <3>1. PICK n : n = row[s][t].snap
      OBVIOUS
    <3>2. n = k + 1 /\ AuthorityOf(n) = Target(t) /\ n \in {0} \cup known[s]
      BY <1>2, <1>5, <2>2, <3>1 DEF RowSound
    <3>3. n \in Latest(Home)..Top
      <4>1. known[s] \subseteq 1..Top
        BY <1>2, TypeFacts DEF Top
      <4> QED BY <1>2, <3>2, <4>1
    <3>4. AuthorityOf(n) = writer[Home]
      BY <3>3 DEF AuthorityInv, OwnerInv
    <3> QED BY <1>6, <3>2, <3>4
  <2>4. row[s][t].state \in Over
    BY <2>1, <2>3
  <2>5. Top = Expected(t) + 1
    BY <1>1, <2>4 DEF AuthorityInv, UnderwayInv, Underway, Active
  <2>6. row[s][t].snap # 0 /\ Handed(t, row[s][t].snap) /\ row[s][t].snap \in {0} \cup known[s]
    BY <2>2, <2>4 DEF RowSound, Over
  <2>7. row[s][t].snap = k /\ k \in known[s]
    BY <1>5, <2>6 DEF Handed
  <2> QED BY <1>1, <1>2, <1>4, <1>5, <1>6, <1>7, <2>5, <2>7
<1> QED BY <1>8, <1>9

CommittedRow(r, n, sent) ==
  r \in TransferRow /\ r = [state |-> "committed", snap |-> n, resumed |-> FALSE, sent |-> sent]

LEMMA CommitStep ==
  ASSUME AuthorityInv, NEW t \in DOMAIN transfers, row[Home][t].state = "target-ready",
         MayCommit(t), NEW m, NEW p, NEW r, NEW sent, NEW e \in Events,
         Extends(m), m.authority = Target(t), Made(Home, m, p),
         CommittedRow(r, p, sent), row' = [row EXCEPT ![Home][t] = r],
         writer' = [writer EXCEPT ![Home] = Target(t)],
         e.op = "committed", e.t = t, e.snap = p, Posted(Home, {e}),
         transfers' = transfers, SitesTyped', JobsEnd(Home)
  PROVE  AuthorityInv'
<1>1. /\ TypesInv /\ LineInv /\ Home \in Sites /\ t \in Transfers /\ t # 0
      /\ DOMAIN transfers = 1..Len(transfers) /\ Len(transfers) \in Nat
  BY HomeIsSite, HandoffsAreTransfers, TypeFacts DEF AuthorityInv
<1>2. /\ Top = row[Home][t].snap /\ Top = Expected(t) + 1 /\ Top # 0
      /\ t = Len(transfers) /\ AuthorityOf(Top) = Source(t) /\ HandoffAt(t)
      /\ Source(t) \in Suitcases => Top \in known[Source(t)]
  BY CommitsTheNewest
<1>3. /\ LineInv' /\ Top \in Nat /\ p = Top + 1 /\ Top' = p /\ snapshots' \in Seq(Snapshot)
      /\ \A n \in 1..Top : snapshots'[n] = snapshots[n]
      /\ AuthorityOf(p)' = Target(t)
      /\ known' \in [Sites -> SUBSET (1..Len(snapshots'))]
      /\ known'[Home] = known[Home] \cup {p}
      /\ \A y \in Sites : y # Home => known'[y] = known[y]
      /\ \A y \in Sites : known[y] \subseteq known'[y]
  BY <1>1, LineExtended
<1>4. r \in TransferRow /\ r.state = "committed" /\ r.snap = p
  BY DEF CommittedRow
<1>5. /\ row' \in [Sites -> [Transfers -> TransferRow]] /\ row'[Home][t] = r
      /\ \A y \in Sites, u \in Transfers : y # Home \/ u # t => row'[y][u] = row[y][u]
  <2>1. row \in [Sites -> [Transfers -> TransferRow]]
    BY <1>1 DEF TypesInv
  <2> QED BY <1>1, <1>4, <2>1, RowUpdate
<1>6. \A y \in Sites, u \in DOMAIN transfers : y # Home \/ u # t => row'[y][u] = row[y][u]
  BY <1>5, HandoffsAreTransfers
<1>7. /\ writer' \in [Sites -> Sites] /\ writer'[Home] = Target(t)
      /\ \A y \in Sites : y # Home => writer'[y] = writer[y]
  <2>1. Target(t) \in Sites /\ writer \in [Sites -> Sites]
    BY <1>1, TypeFacts DEF TypesInv
  <2> QED BY <1>1, <2>1
<1>8. TypesInv' /\ Grown
  <2>1. transfers' \in Seq(Transfer)
    BY <1>1 DEF TypesInv
  <2>2. TypesInv'
    BY <1>3, <1>5, <1>7, <2>1 DEF TypesInv, SitesTyped, Posted, JobsEnd
  <2> QED BY <1>1, <1>3, <2>2 DEF Grown, Top
<1>9. /\ DOMAIN transfers' = DOMAIN transfers
      /\ \A u : Source(u)' = Source(u) /\ Target(u)' = Target(u) /\ Expected(u)' = Expected(u)
  BY DEF Source, Target, Expected
<1>10. RowsLast
  BY <1>1, <1>4, <1>5, <1>6 DEF RowsLast, Broken
<1>11. /\ Latest(Home)' = p /\ \A y \in Sites : y # Home => Latest(y)' = Latest(y)
       /\ \A y \in Sites : Latest(y) \in 0..Top
  <2>1. Latest(Home)' = p
    <3>1. Latest(Home) \in 0..Top
      BY <1>1, LatestFacts DEF Top
    <3>2. p \in Nat /\ Latest(Home) < p
      BY <1>3, <3>1
    <3>3. Latest(Home)' = IF Latest(Home) < p THEN p ELSE Latest(Home)
      BY <1>1, <1>3, <1>8, <3>2, LatestAdded
    <3> QED BY <3>2, <3>3
  <2> QED BY <1>1, <1>3, <1>8, <2>1, LatestGrows
<1>12. ASSUME NEW u \in DOMAIN transfers
       PROVE  row'[Home][u].state \notin Active
  <2>1. CASE u = t
    BY <1>4, <1>5, <2>1 DEF Active
  <2>2. CASE u # t
    BY <1>1, <1>2, <1>6, <2>2 DEF AuthorityInv, TransfersInv
  <2> QED BY <2>1, <2>2
<1>13. TransfersInv'
  <2>1. \A u \in DOMAIN transfers : Expected(u) <= p
    <3>1. \A u \in DOMAIN transfers : Expected(u) <= Latest(Home) /\ Expected(u) \in Nat
      BY <1>1, TypeFacts DEF AuthorityInv, TransfersInv
    <3> QED BY <1>1, <1>3, <1>11, <3>1
  <2>2. \A u \in DOMAIN transfers : row'[Home][u].state # "none" /\ Source(u) # Target(u)
    BY <1>1, <1>4, <1>5, <1>6 DEF AuthorityInv, TransfersInv
  <2>3. ASSUME NEW u \in DOMAIN transfers, NEW v \in DOMAIN transfers
        PROVE  /\ u <= v => Expected(u) <= Expected(v)
               /\ row'[Home][u].state = "committed" /\ u < v => row'[Home][u].snap <= Expected(v)
    <3>1. u < v => u # t
      BY <1>1, <1>2
    <3> QED BY <1>1, <1>6, <3>1 DEF AuthorityInv, TransfersInv
  <2> QED BY <1>9, <1>11, <1>12, <2>1, <2>2, <2>3 DEF AuthorityInv, TransfersInv
<1>14. RowsInv'
  <2>1. RowSound(Home, t, r)'
    <3>1. p = Expected(t)' + 2 /\ AuthorityOf(p)' = Target(t)' /\ p \in known'[Home] /\ p # 0
      <4>1. Expected(t) \in Nat
        BY <1>1, TypeFacts
      <4> QED BY <1>2, <1>3, <1>9, <4>1
    <3> QED BY <1>4, <1>9, <3>1 DEF RowSound
  <2>2. ASSUME NEW y \in Sites, NEW u \in Transfers
        PROVE  row'[y][u] = row[y][u] \/ \E q : row'[y][u] = q /\ RowSound(y, u, q)'
    BY <1>5, <2>1
  <2> QED BY <1>1, <1>8, <2>2, RowsKept DEF AuthorityInv
<1>15. ASSUME NEW w \in Workers
       PROVE  /\ JobSound(WorkerSite[w], job[w])'
              /\ WorkerSite[w] # Home =>
                   JobHasRow(job[w], row[WorkerSite[w]][job[w].t].state)'
  <2>1. CASE job'[w] = NoJob
    BY <2>1 DEF JobSound, JobHasRow, NoJob
  <2>2. CASE job'[w] = job[w]
    <3>1. PICK j \in Job, y \in Sites : j = job[w] /\ y = WorkerSite[w]
      BY JobFacts
    <3>2. JobSound(y, j) /\ (y # Home => JobHasRow(j, row[y][j.t].state))
      BY <3>1, JobFacts
    <3>3. j.at # "idle" => j.t \in DOMAIN transfers
      BY <3>2 DEF JobSound
    <3>4. ~ (j.at = "exported" /\ j.snap = Top)
      <4> SUFFICES ASSUME j.at = "exported", j.snap = Top
                   PROVE  FALSE
        OBVIOUS
      <4>1. Expected(j.t) = Top /\ j.t \in DOMAIN transfers
        BY <3>2, <3>3 DEF JobSound
      <4>2. j.t <= t
        BY <1>1, <1>2, <4>1
      <4>3. Expected(j.t) <= Expected(t) /\ Expected(t) \in Nat
        BY <1>1, <4>1, <4>2, TypeFacts DEF AuthorityInv, TransfersInv
      <4> QED BY <1>2, <4>1, <4>3
    <3>5. JobSound(y, j)'
      BY <1>1, <1>3, <1>8, <3>2, <3>4, JobSoundKept
    <3>6. JobSound(WorkerSite[w], job[w])'
      BY <2>2, <3>1, <3>5 DEF JobSound
    <3>7. y # Home => JobHasRow(j, row'[y][j.t].state)
      BY <1>6, <3>2, <3>3 DEF JobHasRow
    <3> QED BY <2>2, <3>1, <3>6, <3>7 DEF JobHasRow
  <2> QED BY <2>1, <2>2 DEF JobsEnd
<1>16. JobsInv'
  BY <1>15 DEF JobsInv
<1>17. EventsInv'
  <2>1. EventSound(e)'
    BY <1>1, <1>4, <1>5, <1>9 DEF EventSound, Broken
  <2>2. \A s \in Suitcases : InSound(s, e)'
    BY <2>1 DEF InSound, Broken
  <2>3. \A s \in Suitcases : \A d \in Outs(s)' : d \in Outs(s) \/ OutSound(s, d)'
    BY HomeIsSite DEF Posted
  <2>4. \A s \in Suitcases : \A d \in Ins(s)' : d \in Ins(s) \/ InSound(s, d)'
    BY <2>2 DEF Posted
  <2> QED BY <1>1, <1>8, <1>10, <2>3, <2>4, EventsKept DEF AuthorityInv
<1>18. HandoffInv'
  <2>1. ASSUME NEW s \in Suitcases, NEW u \in DOMAIN transfers, NEW op, Told(s, op, u)'
        PROVE  Told(s, op, u)
    BY <2>1, HomeIsSite DEF Told, Posted
  <2>2. ASSUME NEW u \in DOMAIN transfers, row'[Home][u].state \notin Broken
        PROVE  HandoffAt(u)'
    <3>1. HandoffAt(u) /\ Source(u) \in Sites /\ Target(u) \in Sites
      <4>1. row[Home][u].state \notin Broken
        BY <1>10, <2>2, HomeIsSite DEF RowsLast
      <4> QED BY <1>1, <4>1, TypeFacts DEF AuthorityInv, HandoffInv
    <3>2. PICK y \in Sites, z \in Sites : y = Source(u) /\ z = Target(u)
      BY <3>1
    <3>3. /\ y # Home => (Told(y, "snapshot-ready", u)' => Told(y, "snapshot-ready", u))
          /\ z # Home => (Told(z, "target-ready", u)' => Told(z, "target-ready", u))
      BY <2>1 DEF Sites
    <3>4. /\ Told(Source(u), "snapshot-ready", u)' => Told(y, "snapshot-ready", u)'
          /\ Told(Target(u), "target-ready", u)' => Told(z, "target-ready", u)'
      BY <1>9, <3>2 DEF Told, Outs
    <3>5. /\ y # Home => row'[y][u] = row[y][u]
          /\ z # Home => row'[z][u] = row[z][u]
      BY <1>6
    <3>6. /\ row'[Home][u].snap # 0 => row[Home][u].snap # 0
          /\ row'[Home][u].state \in Restored => row[Home][u].state \in Restored
      BY <1>1, <1>2, <1>6 DEF Restored
    <3>7. /\ y # Home /\ (row[Home][u].snap # 0 \/ Told(y, "snapshot-ready", u))
             => row[y][u].state \in Over \cup {"committed"}
          /\ z # Home /\ (row[Home][u].state \in Restored \/ Told(z, "target-ready", u))
             => row[z][u].state \in Restored
      BY <3>1, <3>2 DEF HandoffAt
    <3>8. Source(u)' = y /\ Target(u)' = z
      BY <1>9, <3>2
    <3> QED BY <3>3, <3>4, <3>5, <3>6, <3>7, <3>8 DEF HandoffAt
  <2> QED BY <1>9, <2>2 DEF HandoffInv
<1>19. \A n \in 0..Top : AuthorityOf(n)' = AuthorityOf(n)
  BY <1>1, <1>8, GrownFacts
<1>20. OwnerInv'
  <2>1. \A n \in Latest(Home)'..Top' : AuthorityOf(n)' = writer'[Home]
    BY <1>3, <1>7, <1>11
  <2>2. ASSUME NEW s \in Suitcases
        PROVE  /\ Latest(s)' # 0 /\ AuthorityOf(Latest(s))' = s
                  => Latest(s)' = Top' \/ HandedOver(s, Latest(s))'
               /\ writer'[s] = s => Latest(s)' # 0 /\ AuthorityOf(Latest(s))' = s
               /\ \A n \in 1..Top' : AuthorityOf(n)' = s /\ n > Latest(s)' => n = Top'
    <3>1. s \in Sites /\ s # Home
      BY HomeIsSite
    <3>2. PICK k \in 0..Top : k = Latest(s)
      BY <1>11, <3>1
    <3>3. Latest(s)' = k /\ AuthorityOf(k)' = AuthorityOf(k) /\ writer'[s] = writer[s]
      BY <1>7, <1>11, <1>19, <3>1, <3>2
    <3>4. AuthorityOf(Latest(s))' = AuthorityOf(k)
      BY <3>3 DEF AuthorityOf
    <3>5. /\ k # 0 /\ AuthorityOf(k) = s => k = Top \/ HandedOver(s, k)
          /\ writer[s] = s => k # 0 /\ AuthorityOf(k) = s
          /\ \A n \in 1..Top : AuthorityOf(n) = s /\ n > k => n = Top
      <4>1. AuthorityOf(Latest(s)) = AuthorityOf(k)
            /\ (HandedOver(s, Latest(s)) => HandedOver(s, k))
        BY <3>2
      <4> QED BY <3>2, <4>1 DEF AuthorityInv, OwnerInv
    <3>6. HandedOver(s, k) => HandedOver(s, k)'
      BY <1>1, <1>8, <1>10, <3>1, HandedOverKept
    <3>7. k = Top /\ AuthorityOf(k) = s => HandedOver(s, k)'
      <4> SUFFICES ASSUME k = Top, AuthorityOf(k) = s
                   PROVE  HandedOver(s, k)'
        OBVIOUS
      <4>1. t \in DOMAIN transfers' /\ Source(t)' = s /\ row'[Home][t].state = "committed"
            /\ row'[Home][t].snap = k + 1
        BY <1>2, <1>3, <1>4, <1>5, <1>9
      <4> QED BY <4>1 DEF HandedOver
    <3>8. HandedOver(s, k)' => HandedOver(s, Latest(s))'
      BY <3>3 DEF HandedOver
    <3>9. ASSUME NEW n \in 1..Top', AuthorityOf(n)' = s, n > k
          PROVE  n = Top'
      <4> SUFFICES ASSUME n # p
                   PROVE  FALSE
        BY <1>3
      <4>1. n \in 1..Top /\ n \in 0..Top
        BY <1>3
      <4>2. AuthorityOf(n) = s
        BY <1>19, <3>9, <4>1
      <4>3. n = Top
        BY <3>5, <3>9, <4>1, <4>2
      <4>4. Source(t) = s
        BY <1>2, <4>2, <4>3
      <4>5. Top \in known[s]
        BY <1>2, <4>4
      <4>6. IsLatest(k, known[s])
        BY <1>1, <3>1, <3>2, LatestFacts
      <4> QED BY <1>3, <3>9, <4>3, <4>5, <4>6 DEF IsLatest
    <3> QED BY <3>3, <3>4, <3>5, <3>6, <3>7, <3>8, <3>9
  <2> QED BY <2>1, <2>2 DEF OwnerInv
<1>21. UnderwayInv'
  BY <1>9, <1>12 DEF UnderwayInv
<1> QED BY <1>3, <1>8, <1>13, <1>14, <1>16, <1>17, <1>18, <1>20, <1>21 DEF AuthorityInv
LEMMA CommitKeeps ==
  ASSUME AuthorityInv, OnePass, NEW w \in Workers, NEW t \in DOMAIN transfers, NEW how,
         CommitTransfer(w, t, how)
  PROVE  AuthorityInv'
<1>1. /\ TypesInv /\ LineInv /\ Home \in Sites /\ t \in Transfers /\ t \in Nat /\ Top \in Nat
      /\ WorkerSite[w] = Home /\ row[Home][t].state = "target-ready" /\ row[Home][t].snap # 0
  BY HomeIsSite, HandoffsAreTransfers, TypeFacts
  DEF AuthorityInv, CommitTransfer, AtCommit, Committable, Top
<1>2. JobsEnd(Home) /\ transfers' = transfers /\ SitesTyped'
  BY <1>1, JobAfterEnds, SitesKept DEF CommitTransfer
<1>3. CASE ~ MayCommit(t)
  <2>1. FailTransfer(Home, t, FALSE, how) /\ SameLine
    BY <1>2, <1>3 DEF CommitTransfer, SameLine, SameSnapshots
  <2> QED BY <1>1, <1>2, <2>1, FailKeeps
<1>4. CASE MayCommit(t)
  <2>1. PICK k, p, q : k = row[Home][t].snap /\ p = Len(snapshots) + 1 /\ q = row[Home][t]
    OBVIOUS
  <2>2. k = Top /\ k \in 1..Top /\ k # 0 /\ p = Top + 1
    BY <1>1, <1>4, <2>1, CommitsTheNewest DEF Top
  <2>3. snapshots[k].seq = k /\ snapshots[k].epoch \in Nat /\ snapshots[k].data \in SUBSET Writes
        /\ EpochOf(Top) = snapshots[k].epoch /\ Target(t) \in Sites
    BY <1>1, <2>2, KnownData, TypeFacts DEF LineInv, EpochOf, Top
  <2>4. PICK m : m = [authority |-> Target(t), epoch |-> snapshots[k].epoch + 1,
                      seq |-> snapshots[k].seq + 1, parent |-> k, data |-> snapshots[k].data]
    OBVIOUS
  <2>5. Extends(m) /\ m.authority = Target(t)
    BY <1>1, <2>2, <2>3, <2>4 DEF Extends, Snapshot
  <2>6. PICK sent : sent = q.sent \cup Noted(how, "committed")
    OBVIOUS
  <2>7. PICK r : r = [state |-> "committed", snap |-> p, resumed |-> FALSE, sent |-> sent]
    OBVIOUS
  <2>8. CommittedRow(r, p, sent)
    <3>1. sent \in SUBSET Ops
      BY <1>1, <2>1, <2>6, RowFacts DEF Noted, Ops
    <3>2. p \in Nat
      BY <1>1, <2>2
    <3> QED BY <2>7, <3>1, <3>2 DEF CommittedRow, TransferRow, States
  <2> DEFINE e == Event("committed", t, p)
  <2>9. e \in Events /\ e.op = "committed" /\ e.t = t /\ e.snap = p
    <3>1. p \in Nat
      BY <1>1, <2>2
    <3> QED BY <1>1, <3>1, EventIn DEF Ops
  <2>10. /\ snapshots' = Append(snapshots, m) /\ known' = [known EXCEPT ![Home] = @ \cup {p}]
         /\ row' = [row EXCEPT ![Home][t] = r]
         /\ writer' = [writer EXCEPT ![Home] = Target(t)]
         /\ Tells(Home, <<e>>, how)
    BY <1>4, <2>1, <2>4, <2>6, <2>7 DEF CommitTransfer, Target
  <2> HIDE DEF e
  <2>11. Made(Home, m, p)
    BY <2>2, <2>10 DEF Made
  <2>12. Posted(Home, {e})
    BY <1>1, <2>9, <2>10, TellsPosts
  <2> QED BY <1>1, <1>2, <1>4, <2>5, <2>8, <2>9, <2>10, <2>11, <2>12, CommitStep
<1> QED BY <1>3, <1>4
-----------------------------------------------------------------------------
(* An event is projected: what becomes of the row it names.                *)
LEMMA ProjectedCases ==
  ASSUME NEW q \in TransferRow, NEW e \in Events, NEW r, r = Projected(q, e)
  PROVE  \/ /\ e.op = "snapshot-ready" /\ q.state \in Active /\ r \in TransferRow
            /\ r.snap = e.snap
            /\ r.state = IF q.state \in {"requested", "source-capturing"} THEN "snapshot-ready"
                         ELSE q.state
         \/ /\ e.op = "target-ready" /\ q.state \in {"snapshot-ready", "target-restoring"}
            /\ r \in TransferRow /\ r.state = "target-ready" /\ r.snap = q.snap
         \/ /\ e.op = "committed" /\ q.state \notin Broken
            /\ r \in TransferRow /\ r.state = "committed" /\ r.snap = e.snap
         \/ /\ e.op \in Broken /\ q.state # "committed"
            /\ r \in TransferRow /\ r.state = e.op /\ r.snap = q.snap
         \/ /\ e.op \notin Broken \/ q.state = "committed"
            /\ r \in TransferRow /\ r.state = q.state /\ r.snap = q.snap
<1>1. e.snap \in Nat /\ e.resumed \in BOOLEAN /\ e.op \in Ops
  BY DEF Events
<1>2. CASE e.op = "snapshot-ready" /\ q.state \in Active
  <2>1. r = [q EXCEPT !.snap = e.snap,
                      !.state = IF q.state \in {"requested", "source-capturing"}
                                THEN e.op ELSE q.state]
    BY <1>2 DEF Projected, Resumes, Broken
  <2> QED BY <1>1, <1>2, <2>1 DEF TransferRow, States, Active
<1>3. CASE e.op = "target-ready" /\ q.state \in {"snapshot-ready", "target-restoring"}
  <2>1. r = [q EXCEPT !.state = e.op]
    BY <1>3 DEF Projected, Resumes, Broken
  <2> QED BY <1>1, <1>3, <2>1 DEF TransferRow, States, Active
<1>4. CASE e.op = "committed" /\ q.state \notin Broken
  <2>1. r = [q EXCEPT !.state = e.op, !.snap = e.snap, !.resumed = FALSE]
    BY <1>4 DEF Projected, Resumes, Broken
  <2> QED BY <1>1, <1>4, <2>1 DEF TransferRow, States
<1>5. CASE e.op \in Broken /\ q.state # "committed"
  <2>1. r = [q EXCEPT !.state = e.op, !.resumed = e.resumed]
    BY <1>5 DEF Projected, Resumes, Broken
  <2> QED BY <1>1, <1>5, <2>1 DEF TransferRow, States
<1>6. CASE Resumes(q, e)
  <2>1. r = [q EXCEPT !.resumed = TRUE] /\ e.op = "source-resumed"
    BY <1>6 DEF Projected, Resumes, Broken
  <2> QED BY <1>1, <1>6, <2>1 DEF TransferRow, Broken
<1>7. CASE /\ ~ (e.op = "snapshot-ready" /\ q.state \in Active)
           /\ ~ (e.op = "target-ready" /\ q.state \in {"snapshot-ready", "target-restoring"})
           /\ ~ (e.op = "committed" /\ q.state \notin Broken)
           /\ ~ (e.op \in Broken /\ q.state # "committed")
           /\ ~ Resumes(q, e)
  <2>1. r = q
    BY <1>7 DEF Projected
  <2> QED BY <1>7, <2>1
<1> QED BY <1>2, <1>3, <1>4, <1>5, <1>6, <1>7

(* The target has not begun to restore.                                    *)
Early == {"none", "requested", "source-capturing", "snapshot-ready"}

(* Row q of handoff t at site y became r.                                  *)
Follows(y, t, q, r, e) ==
  /\ r \in TransferRow /\ r.state # "none"
  /\ q.state \in Broken => r.state \in Broken
  /\ r.state \in Active => q.state \in Active \cup {"none"}
  /\ r.state \in Over => q.state \in Over \/ (e.op = "snapshot-ready" /\ r.snap = e.snap)
  /\ r.state \in Restored => q.state \in Restored \/ e.op \in {"target-ready", "committed"}
  /\ \/ r.snap = q.snap
     \/ e.op = "snapshot-ready" /\ r.snap = e.snap
     \/ r.state = "committed"
  /\ q.state \in Over => r.state \in Over \cup {"committed"} \/ e.op \in Broken
  /\ q.state \in Restored => r.state \in Restored \/ e.op \in Broken
  /\ q.state = "committed" =>
       r.state = "committed" /\ (r.snap = q.snap \/ e.op = "committed")
  /\ r.state = "committed" =>
       (q.state = "committed" /\ r.snap = q.snap) \/ (e.op = "committed" /\ r.snap = e.snap)
  /\ q.state = "source-capturing" =>
       r.state \in {"source-capturing"} \cup Broken \/ e.op \in {"snapshot-ready", "committed"}
  /\ q.state = "target-restoring" =>
       r.state \in {"target-restoring"} \cup Broken \/ e.op \in {"target-ready", "committed"}
  /\ e.op \in Broken /\ q.state # "committed" => r.state \in Broken
  /\ r.state \in Early => q.state \in Early
  /\ r.state = "target-restoring" => q.state = "target-restoring"
  /\ r.state = "target-ready" => q.state = "target-ready" \/ e.op = "target-ready"

LEMMA RowFollows ==
  ASSUME AuthorityInv, NEW y \in Sites, NEW t \in Transfers, NEW e \in Events,
         NEW q, q = row[y][t], NEW r, r = Projected(RowAt(y, t), e)
  PROVE  Follows(y, t, q, r, e)
<1>1. q \in TransferRow /\ RowSound(y, t, q)
  BY RowFacts DEF AuthorityInv, RowsInv
<1>2. PICK a : a = RowAt(y, t)
  OBVIOUS
<1>3. CASE q = NoRow
  <2>1. a \in TransferRow /\ a.state = "requested" /\ a.snap = 0 /\ q.state = "none" /\ q.snap = 0
    <3>0. NoRow \in TransferRow /\ NoRow.state = "none" /\ NoRow.snap = 0
      BY DEF NoRow, TransferRow, States
    <3>1. PICK n \in TransferRow : n = NoRow /\ n.state = "none" /\ n.snap = 0
      BY <3>0
    <3>2. a = [n EXCEPT !.state = "requested", !.sent = {"requested"}]
      BY <1>2, <1>3, <3>1 DEF RowAt
    <3> QED BY <1>3, <3>1, <3>2 DEF TransferRow, States, Active, Ops
  <2> QED BY <1>2, <2>1, ProjectedCases DEF Follows, Active, Broken, Over, Restored, Early
<1>4. CASE q # NoRow
  <2>1. a = q /\ q.state # "none"
    BY <1>1, <1>2, <1>4 DEF RowAt, RowSound
  <2> QED BY <1>1, <1>2, <2>1, ProjectedCases
      DEF Follows, Active, Broken, Over, Restored, Early
<1> QED BY <1>3, <1>4
LEMMA EventFacts ==
  ASSUME AuthorityInv, NEW e \in Events, EventSound(e)
  PROVE  /\ e.snap \in 0..Top
         /\ e.t # 0 => e.t \in DOMAIN transfers /\ e.t \in Transfers
         /\ e.op = "committed" =>
              /\ e.t \in DOMAIN transfers /\ row[Home][e.t].state = "committed"
              /\ e.snap = row[Home][e.t].snap
              /\ e.snap = Expected(e.t) + 2 /\ e.snap \in 1..Top
              /\ AuthorityOf(e.snap) = Target(e.t)
<1>1. e.t # 0 => e.t \in DOMAIN transfers /\ e.t \in Transfers
  BY HandoffsAreTransfers DEF EventSound
<1>2. e.op = "created" <=> e.t = 0
  BY DEF EventSound
<1>3. Top \in Nat /\ \A x \in Sites : known[x] \subseteq 1..Top
  BY TypeFacts DEF AuthorityInv, Top
<1>4. ASSUME e.op = "committed"
      PROVE  /\ e.t \in DOMAIN transfers /\ row[Home][e.t].state = "committed"
             /\ e.snap = row[Home][e.t].snap
             /\ e.snap = Expected(e.t) + 2 /\ e.snap \in 1..Top
             /\ AuthorityOf(e.snap) = Target(e.t)
  <2>1. /\ e.t \in DOMAIN transfers /\ e.t \in Transfers /\ row[Home][e.t].state = "committed"
        /\ e.snap = row[Home][e.t].snap
    BY <1>1, <1>2, <1>4 DEF EventSound
  <2>2. RowSound(Home, e.t, row[Home][e.t])
    BY <2>1, HomeIsSite DEF AuthorityInv, RowsInv
  <2> QED BY <1>3, <2>1, <2>2, HomeIsSite DEF RowSound
<1>5. e.snap \in 0..Top
  <2>1. e.op \in Ops
    BY DEF Events
  <2>2. e.op \in {"snapshot-ready", "target-ready"} => e.snap \in 1..Top
    BY DEF EventSound, Handed
  <2>3. e.op = "created" => e.snap \in 1..Top
    BY DEF EventSound
  <2>4. e.op \in Broken \cup {"requested", "source-resumed"} => e.snap = 0
    BY DEF EventSound
  <2> QED BY <1>3, <1>4, <2>1, <2>2, <2>3, <2>4 DEF Ops, Broken
<1> QED BY <1>1, <1>4, <1>5

LEMMA ProjectFrame ==
  ASSUME AuthorityInv, NEW y \in Sites, NEW e \in Events, EventSound(e), Projects(y, e),
         y = Home => e.op # "committed",
         outgoing' \in [Suitcases -> Seq(Events)], incoming' \in [Suitcases -> Seq(Events)]
  PROVE  /\ TypesInv' /\ Grown /\ LineInv' /\ RowsInv' /\ RowsLast
         /\ transfers' = transfers /\ job' = job
         /\ Top' = Top /\ \A n \in 0..Top : AuthorityOf(n)' = AuthorityOf(n)
         /\ \A x \in Sites :
              /\ Latest(x) <= Latest(x)' /\ Latest(x) \in 0..Top /\ Latest(x)' \in 0..Top
              /\ x # y => Latest(x)' = Latest(x)
         /\ Latest(y)' = IF Latest(y) < e.snap THEN e.snap ELSE Latest(y)
         /\ \A x \in Sites, u \in DOMAIN transfers :
              x # y \/ u # e.t => row'[x][u] = row[x][u]
         /\ e.t # 0 => Follows(y, e.t, row[y][e.t], row'[y][e.t], e)
<1>1. /\ TypesInv /\ LineInv /\ Top \in Nat /\ e.snap \in 0..Top
      /\ e.t # 0 => e.t \in DOMAIN transfers /\ e.t \in Transfers
      /\ DOMAIN transfers \subseteq Transfers
  BY EventFacts, TypeFacts, HandoffsAreTransfers DEF AuthorityInv, Top
<1>2. /\ snapshots' = snapshots /\ transfers' = transfers /\ job' = job
      /\ UNCHANGED siteVars /\ writes' = writes
      /\ known' = [known EXCEPT ![y] = known[y] \cup ({e.snap} \ {0})]
      /\ e.t = 0 => row' = row
      /\ writer' = writer \/ (e.op = "committed" /\ writer' = [writer EXCEPT ![y] = Target(e.t)])
  BY DEF Projects, Target
<1>3. e.t # 0 => row' = [row EXCEPT ![y][e.t] = Projected(RowAt(y, e.t), e)]
  BY DEF Projects
<1>4. /\ known' \in [Sites -> SUBSET (1..Top)]
      /\ known'[y] = known[y] \cup ({e.snap} \ {0})
      /\ \A x \in Sites : x # y => known'[x] = known[x]
      /\ \A x \in Sites : known[x] \subseteq known'[x]
  <2> DEFINE K == known[y] \cup ({e.snap} \ {0})
  <2>1. known \in [Sites -> SUBSET (1..Top)]
    BY <1>1 DEF TypesInv, Top
  <2>2. K \in SUBSET (1..Top) /\ known' = [known EXCEPT ![y] = K] /\ known[y] \subseteq K
    BY <1>1, <1>2, <2>1
  <2> HIDE DEF K
  <2>3. known'[y] = K /\ known' \in [Sites -> SUBSET (1..Top)]
        /\ \A x \in Sites : x # y => known'[x] = known[x]
    BY <2>1, <2>2
  <2> QED BY <2>2, <2>3 DEF K
<1>5. /\ row' \in [Sites -> [Transfers -> TransferRow]]
      /\ \A x \in Sites, u \in Transfers : x # y \/ u # e.t => row'[x][u] = row[x][u]
      /\ e.t # 0 => Follows(y, e.t, row[y][e.t], row'[y][e.t], e)
  <2>1. row \in [Sites -> [Transfers -> TransferRow]]
    BY <1>1 DEF TypesInv
  <2>2. CASE e.t = 0
    BY <1>2, <2>1, <2>2
  <2>3. CASE e.t # 0
    <3>1. PICK q, r : q = row[y][e.t] /\ r = Projected(RowAt(y, e.t), e)
      OBVIOUS
    <3>2. Follows(y, e.t, q, r, e) /\ e.t \in Transfers
      BY <1>1, <2>3, <3>1, RowFollows
    <3>3. r \in TransferRow /\ row' = [row EXCEPT ![y][e.t] = r]
      BY <1>3, <2>3, <3>1, <3>2 DEF Follows
    <3>4. /\ row' \in [Sites -> [Transfers -> TransferRow]] /\ row'[y][e.t] = r
          /\ \A x \in Sites, u \in Transfers : x # y \/ u # e.t => row'[x][u] = row[x][u]
      BY <2>1, <3>2, <3>3, RowUpdate
    <3> QED BY <3>1, <3>2, <3>4
  <2> QED BY <2>2, <2>3
<1>6. writer' \in [Sites -> Sites]
  <2>1. e.op = "committed" => Target(e.t) \in Sites
    BY <1>1, EventFacts, TypeFacts
  <2> QED BY <1>1, <1>2, <2>1 DEF TypesInv
<1>7. TypesInv' /\ Grown
  <2>1. known' \in [Sites -> SUBSET (1..Len(snapshots'))]
    BY <1>2, <1>4 DEF Top
  <2>2. TypesInv'
    BY <1>1, <1>2, <1>5, <1>6, <2>1 DEF TypesInv, siteVars
  <2> QED BY <1>1, <1>2, <1>4, <2>2 DEF Grown, TypesInv
<1>8. Top' = Top /\ (\A n \in 0..Top : AuthorityOf(n)' = AuthorityOf(n))
      /\ \A n \in 1..Top : (Captured(n)' <=> Captured(n)) /\ EpochOf(n - 1)' = EpochOf(n - 1)
  BY <1>1, <1>2, <1>7, GrownFacts DEF Top, EpochOf
<1>9. LineInv'
  <2>1. \A n \in 1..Top : n - 1 \in 0..Top /\ n \in 0..Top
    BY <1>1
  <2>2. known[Home] \subseteq known'[Home]
    BY <1>4, HomeIsSite
  <2>3. \A n \in 1..Top : AuthorityOf(n)' = AuthorityOf(n)
                          /\ AuthorityOf(n - 1)' = AuthorityOf(n - 1)
    BY <1>8, <2>1
  <2> QED BY <1>1, <1>2, <1>8, <2>2, <2>3 DEF LineInv
<1>10. /\ \A x \in Sites :
            /\ Latest(x) <= Latest(x)' /\ Latest(x) \in 0..Top /\ Latest(x)' \in 0..Top
            /\ x # y => Latest(x)' = Latest(x)
       /\ Latest(y)' = IF Latest(y) < e.snap THEN e.snap ELSE Latest(y)
  <2>1. \A x \in Sites :
            /\ Latest(x) <= Latest(x)' /\ Latest(x) \in 0..Top /\ Latest(x)' \in 0..Top
            /\ x # y => Latest(x)' = Latest(x)
    BY <1>1, <1>4, <1>7, <1>8, <1>9, LatestGrows
  <2>2. CASE e.snap = 0
    <3>1. known'[y] = known[y]
      BY <1>4, <2>2
    <3>2. Latest(y)' = Latest(y)
      BY <1>1, <1>7, <1>9, <3>1, LatestGrows
    <3> QED BY <2>1, <2>2, <3>2
  <2>3. CASE e.snap # 0
    <3>0. e.snap \in Nat /\ known'[y] = known[y] \cup {e.snap}
      BY <1>1, <1>4, <2>3
    <3>1. PICK k \in Nat : k = e.snap /\ known'[y] = known[y] \cup {k}
      BY <3>0
    <3>2. Latest(y)' = IF Latest(y) < k THEN k ELSE Latest(y)
      BY <1>1, <1>7, <1>9, <3>1, LatestAdded
    <3> QED BY <2>1, <3>1, <3>2
  <2> QED BY <2>1, <2>2, <2>3
<1>11. RowsLast
  <2> SUFFICES ASSUME NEW u \in DOMAIN transfers
               PROVE  /\ \A x \in Sites :
                           row[x][u].state \in Broken => row'[x][u].state \in Broken
                      /\ row[Home][u].state = "committed" =>
                           row'[Home][u].state = "committed"
                           /\ row'[Home][u].snap = row[Home][u].snap
    BY DEF RowsLast
  <2>1. u \in Transfers /\ u # 0
    BY <1>1, HandoffsAreTransfers
  <2>2. ASSUME NEW x \in Sites, row[x][u].state \in Broken
        PROVE  row'[x][u].state \in Broken
    BY <1>5, <2>1, <2>2 DEF Follows
  <2>3. row[Home][u].state = "committed" =>
          row'[Home][u].state = "committed" /\ row'[Home][u].snap = row[Home][u].snap
    BY <1>5, <2>1, HomeIsSite DEF Follows
  <2> QED BY <2>2, <2>3
<1>12. RowsInv'
  <2>1. ASSUME NEW x \in Sites, NEW u \in Transfers
        PROVE  row'[x][u] = row[x][u] \/ \E q : row'[x][u] = q /\ RowSound(x, u, q)'
    <3>1. CASE x # y \/ u # e.t \/ e.t = 0
      BY <1>2, <1>5, <3>1
    <3>2. CASE x = y /\ u = e.t /\ e.t # 0
      <4>1. PICK q, r : q = row[y][u] /\ r = row'[y][u]
        OBVIOUS
      <4>2. /\ Follows(y, u, q, r, e) /\ RowSound(y, u, q) /\ u \in DOMAIN transfers
            /\ u \in DOMAIN transfers'
        BY <1>1, <1>2, <1>5, <3>2, <4>1 DEF AuthorityInv, RowsInv
      <4>3. PICK k \in 0..Top : k = r.snap
        BY <1>1, <4>2 DEF Follows, RowSound, TypesInv, Top
      <4>4. k \in {0} \cup known'[y]
        BY <1>1, <1>4, <4>2, <4>3 DEF Follows, RowSound
      <4>5. r.state \in Over \cup {"committed"} => k # 0
        <5>1. e.op \in {"snapshot-ready", "committed"} => e.snap # 0
          BY <1>1, EventFacts DEF EventSound, Handed
        <5>2. q.state \in Over \cup {"committed"} => q.snap # 0
          BY <4>2 DEF RowSound
        <5>3. CASE r.state = "committed"
          BY <4>2, <4>3, <5>1, <5>2, <5>3 DEF Follows
        <5>4. CASE r.state \in Over
          BY <4>2, <4>3, <5>1, <5>2, <5>4 DEF Follows
        <5> QED BY <5>3, <5>4
      <4>6. k # 0 /\ r.state # "committed" => Handed(u, k)
        <5>1. e.op = "snapshot-ready" => Handed(u, e.snap)
          BY <3>2 DEF EventSound
        <5>2. q.snap # 0 /\ q.state # "committed" => Handed(u, q.snap)
          BY <4>2 DEF RowSound
        <5>3. q.state = "committed" => r.state = "committed"
          BY <4>2 DEF Follows
        <5>4. \/ r.snap = q.snap
              \/ e.op = "snapshot-ready" /\ r.snap = e.snap
              \/ r.state = "committed"
          BY <4>2 DEF Follows
        <5> QED BY <4>3, <5>1, <5>2, <5>3, <5>4
      <4>7. r.state = "committed" => k = Expected(u) + 2 /\ AuthorityOf(k) = Target(u)
        <5>1. q.state = "committed" => q.snap = Expected(u) + 2 /\ AuthorityOf(q.snap) = Target(u)
          BY <4>2 DEF RowSound
        <5>2. e.op = "committed" =>
                e.snap = Expected(u) + 2 /\ AuthorityOf(e.snap) = Target(u)
          BY <3>2, EventFacts
        <5> QED BY <4>2, <4>3, <5>1, <5>2 DEF Follows
      <4>8. k # 0 /\ r.state # "committed" => Handed(u, k)'
        BY <1>1, <1>7, <4>2, <4>6, HandedKept
      <4>9. Expected(u)' = Expected(u) /\ Target(u)' = Target(u) /\ AuthorityOf(k)' = AuthorityOf(k)
        BY <1>2, <1>8 DEF Expected, Target
      <4>10. RowSound(y, u, r)'
        BY <4>2, <4>3, <4>4, <4>5, <4>7, <4>8, <4>9 DEF RowSound, Follows
      <4> QED BY <3>2, <4>1, <4>10
    <3> QED BY <3>1, <3>2
  <2> QED BY <1>1, <1>7, <2>1, RowsKept DEF AuthorityInv
<1> QED BY <1>1, <1>2, <1>5, <1>7, <1>8, <1>9, <1>10, <1>11, <1>12
LEMMA HeadAndTail ==
  ASSUME NEW q \in Seq(Events), q # << >>
  PROVE  /\ Head(q) \in Events /\ Head(q) \in Elements(q)
         /\ Tail(q) \in Seq(Events) /\ Elements(Tail(q)) \subseteq Elements(q)
<1>1. /\ Len(q) \in Nat /\ Len(q) # 0 /\ DOMAIN q = 1..Len(q)
      /\ \A i \in 1..Len(q) : q[i] \in Events
      /\ Head(q) = q[1]
      /\ Tail(q) \in Seq(Events) /\ DOMAIN Tail(q) = 1..(Len(q) - 1)
      /\ \A i \in 1..(Len(q) - 1) : Tail(q)[i] = q[i + 1]
  OBVIOUS
<1>2. 1 \in DOMAIN q /\ \A i \in 1..(Len(q) - 1) : i + 1 \in DOMAIN q
  BY <1>1
<1>3. Head(q) \in Events /\ Head(q) \in Elements(q)
  BY <1>1, <1>2 DEF Elements
<1>4. Elements(Tail(q)) \subseteq Elements(q)
  BY <1>1, <1>2 DEF Elements
<1> QED BY <1>1, <1>3, <1>4

LEMMA IngestKeeps ==
  ASSUME AuthorityInv, NEW s \in Suitcases, IngestAtHome(s)
  PROVE  AuthorityInv'
<1>1. PICK e : e = Head(outgoing[s])
  OBVIOUS
<1>2. /\ TypesInv /\ LineInv /\ Home \in Sites /\ s \in Sites /\ s # Home
      /\ Top \in Nat /\ DOMAIN transfers \subseteq Transfers /\ 0 \notin DOMAIN transfers
  BY HomeIsSite, TypeFacts, HandoffsAreTransfers DEF AuthorityInv, Top
<1>3. /\ outgoing \in [Suitcases -> Seq(Events)] /\ incoming \in [Suitcases -> Seq(Events)]
  BY <1>2 DEF TypesInv
<1>4. /\ e \in Events /\ e \in Outs(s) /\ Tail(outgoing[s]) \in Seq(Events)
      /\ Elements(Tail(outgoing[s])) \subseteq Outs(s)
  <2>1. outgoing[s] \in Seq(Events) /\ outgoing[s] # << >> /\ Outs(s) = Elements(outgoing[s])
    BY <1>3 DEF IngestAtHome, Outs, Elements
  <2> QED BY <1>1, <2>1, HeadAndTail
<1>5. OutSound(s, e) /\ EventSound(e) /\ e.op # "committed"
  BY <1>4 DEF AuthorityInv, EventsInv, OutSound
<1>6. /\ outgoing' \in [Suitcases -> Seq(Events)]
      /\ \A o \in Suitcases : Outs(o)' \subseteq Outs(o)
  <2>1. PICK p \in Seq(Events) : p = Tail(outgoing[s])
    BY <1>4
  <2>2. outgoing' = [outgoing EXCEPT ![s] = p]
    BY <2>1 DEF IngestAtHome
  <2>3. /\ outgoing' \in [Suitcases -> Seq(Events)] /\ outgoing'[s] = p
        /\ \A o \in Suitcases : o # s => outgoing'[o] = outgoing[o]
    BY <1>3, <2>2
  <2>4. Elements(p) \subseteq Outs(s)
    BY <1>4, <2>1
  <2> QED BY <2>3, <2>4 DEF Outs, Elements
<1>7. /\ incoming' \in [Suitcases -> Seq(Events)]
      /\ \A o \in Suitcases : Ins(o)' \subseteq Ins(o) \cup IF o = s THEN {} ELSE {e}
  <2>1. incoming' = [o \in Suitcases |-> IF o = s THEN incoming[s] ELSE Append(incoming[o], e)]
    BY <1>1 DEF IngestAtHome
  <2>2. ASSUME NEW o \in Suitcases
        PROVE  /\ incoming'[o] \in Seq(Events)
               /\ Elements(incoming'[o]) \subseteq Ins(o) \cup IF o = s THEN {} ELSE {e}
    <3>1. incoming[o] \in Seq(Events) /\ Ins(o) = Elements(incoming[o])
      BY <1>3 DEF Ins, Elements
    <3>2. CASE o = s
      BY <2>1, <3>1, <3>2
    <3>3. CASE o # s
      <4>1. incoming'[o] = incoming[o] \o <<e>>
        BY <1>4, <2>1, <3>1, <3>3
      <4>2. /\ incoming[o] \o <<e>> \in Seq(Events)
            /\ Elements(incoming[o] \o <<e>>) \subseteq Elements(incoming[o]) \cup {e}
        BY <1>4, <3>1, JoinedElements
      <4> QED BY <3>1, <3>3, <4>1, <4>2
    <3> QED BY <3>2, <3>3
  <2>3. incoming' \in [Suitcases -> Seq(Events)]
    BY <2>1, <2>2
  <2> QED BY <2>2, <2>3 DEF Ins, Elements
<1>8. Projects(Home, e)
  BY <1>1 DEF IngestAtHome
<1>9. /\ TypesInv' /\ Grown /\ LineInv' /\ RowsInv' /\ RowsLast
      /\ transfers' = transfers /\ job' = job
      /\ Top' = Top /\ \A n \in 0..Top : AuthorityOf(n)' = AuthorityOf(n)
      /\ \A x \in Sites :
           /\ Latest(x) <= Latest(x)' /\ Latest(x) \in 0..Top /\ Latest(x)' \in 0..Top
           /\ x # Home => Latest(x)' = Latest(x)
      /\ \A x \in Sites, u \in DOMAIN transfers :
           x # Home \/ u # e.t => row'[x][u] = row[x][u]
      /\ e.t # 0 => Follows(Home, e.t, row[Home][e.t], row'[Home][e.t], e)
  BY <1>2, <1>4, <1>5, <1>6, <1>7, <1>8, ProjectFrame
<1>10. writer' = writer
  BY <1>5, <1>8 DEF Projects
<1>11. /\ DOMAIN transfers' = DOMAIN transfers
       /\ \A u : Source(u)' = Source(u) /\ Target(u)' = Target(u) /\ Expected(u)' = Expected(u)
  BY <1>9 DEF Source, Target, Expected
<1>12. ASSUME NEW u \in DOMAIN transfers
       PROVE  /\ row'[Home][u].state # "none"
              /\ row'[Home][u].state \in Active => row[Home][u].state \in Active
              /\ row'[Home][u].state = "committed" =>
                   row[Home][u].state = "committed" /\ row'[Home][u].snap = row[Home][u].snap
  <2>1. row[Home][u].state # "none"
    BY DEF AuthorityInv, TransfersInv
  <2>2. CASE u # e.t
    BY <1>2, <1>9, <2>1, <2>2
  <2>3. CASE u = e.t
    <3>1. Follows(Home, u, row[Home][u], row'[Home][u], e)
      BY <1>2, <1>9, <2>3
    <3> QED BY <1>5, <2>1, <3>1 DEF Follows
  <2> QED BY <2>2, <2>3
<1>13. TransfersInv'
  <2>1. \A u \in DOMAIN transfers : Expected(u) <= Latest(Home)'
    <3>1. \A u \in DOMAIN transfers : Expected(u) <= Latest(Home) /\ Expected(u) \in Nat
      BY <1>2, TypeFacts DEF AuthorityInv, TransfersInv
    <3> QED BY <1>2, <1>9, <3>1
  <2> QED BY <1>9, <1>10, <1>11, <1>12, <2>1 DEF AuthorityInv, TransfersInv
<1>14. ASSUME NEW w \in Workers
       PROVE  /\ JobSound(WorkerSite[w], job[w])'
              /\ WorkerSite[w] # Home =>
                   JobHasRow(job[w], row[WorkerSite[w]][job[w].t].state)'
  <2>1. PICK j \in Job, y \in Sites : j = job[w] /\ y = WorkerSite[w]
    BY JobFacts
  <2>2. JobSound(y, j) /\ (y # Home => JobHasRow(j, row[y][j.t].state))
    BY <2>1, JobFacts
  <2>3. JobSound(y, j)'
    BY <1>2, <1>9, <2>2, JobSoundKept
  <2>4. JobSound(WorkerSite[w], job[w])'
    BY <1>9, <2>1, <2>3 DEF JobSound
  <2>5. j.at # "idle" => j.t \in DOMAIN transfers
    BY <2>2 DEF JobSound
  <2>6. y # Home => JobHasRow(j, row'[y][j.t].state)
    BY <1>9, <2>2, <2>5 DEF JobHasRow
  <2> QED BY <1>9, <2>1, <2>4, <2>6 DEF JobHasRow
<1>15. JobsInv'
  BY <1>14 DEF JobsInv
<1>16. ASSUME e.op \in Broken
       PROVE  row'[Home][e.t].state \in Broken
  <2>1. /\ e.t \in DOMAIN transfers /\ e.t # 0
        /\ s \in {Source(e.t), Target(e.t)} /\ row[s][e.t].state \in Broken
    BY <1>2, <1>5, <1>16 DEF OutSound, EventSound, Broken
  <2>2. row[Home][e.t].state # "committed"
    <3> SUFFICES ASSUME row[Home][e.t].state = "committed"
                 PROVE  FALSE
      OBVIOUS
    <3>1. RowSound(Home, e.t, row[Home][e.t])
      BY <1>2, <2>1 DEF AuthorityInv, RowsInv
    <3>2. row[Home][e.t].snap # 0
      BY <3>1 DEF RowSound
    <3>3. HandoffAt(e.t)
      BY <2>1 DEF AuthorityInv, HandoffInv, Broken
    <3>4. s = Source(e.t) => row[s][e.t].state \in Over \cup {"committed"}
      BY <1>2, <3>2, <3>3 DEF HandoffAt
    <3>5. s = Target(e.t) => row[s][e.t].state \in Restored
      BY <1>2, <3>3 DEF HandoffAt, Restored
    <3> QED BY <2>1, <3>4, <3>5 DEF Broken, Over, Restored
  <2>3. Follows(Home, e.t, row[Home][e.t], row'[Home][e.t], e)
    BY <1>9, <2>1
  <2> QED BY <1>16, <2>2, <2>3 DEF Follows
<1>17. EventsInv'
  <2>1. EventSound(e)'
    BY <1>2, <1>5, <1>9, EventSoundKept
  <2>2. ASSUME NEW o \in Suitcases, o # s
        PROVE  InSound(o, e)'
    BY <1>5, <1>11, <1>16, <2>1, <2>2 DEF InSound, OutSound
  <2>3. \A o \in Suitcases : \A d \in Outs(o)' : d \in Outs(o) \/ OutSound(o, d)'
    BY <1>6
  <2>4. \A o \in Suitcases : \A d \in Ins(o)' : d \in Ins(o) \/ InSound(o, d)'
    BY <1>7, <2>2
  <2> QED BY <1>2, <1>9, <2>3, <2>4, EventsKept DEF AuthorityInv
<1>18. HandoffInv'
  <2>1. ASSUME NEW o \in Suitcases, NEW u \in DOMAIN transfers, NEW op, Told(o, op, u)'
        PROVE  Told(o, op, u)
    BY <1>6, <2>1 DEF Told
  <2>2. ASSUME NEW u \in DOMAIN transfers, row'[Home][u].state \notin Broken
        PROVE  HandoffAt(u)'
    <3>1. HandoffAt(u) /\ Source(u) \in Sites /\ Target(u) \in Sites
      <4>1. row[Home][u].state \notin Broken
        BY <1>2, <1>9, <2>2 DEF RowsLast
      <4> QED BY <1>2, <4>1, TypeFacts DEF AuthorityInv, HandoffInv
    <3>2. PICK y \in Sites, z \in Sites : y = Source(u) /\ z = Target(u)
      BY <3>1
    <3>3. /\ y # Home => (Told(y, "snapshot-ready", u)' => Told(y, "snapshot-ready", u))
          /\ z # Home => (Told(z, "target-ready", u)' => Told(z, "target-ready", u))
      BY <2>1 DEF Sites
    <3>4. /\ Told(Source(u), "snapshot-ready", u)' => Told(y, "snapshot-ready", u)'
          /\ Told(Target(u), "target-ready", u)' => Told(z, "target-ready", u)'
      BY <1>11, <3>2 DEF Told, Outs
    <3>5. /\ y # Home => row'[y][u] = row[y][u]
          /\ z # Home => row'[z][u] = row[z][u]
      BY <1>9
    <3>6. /\ row'[Home][u].snap # 0 =>
               row[Home][u].snap # 0 \/ Told(y, "snapshot-ready", u)
          /\ row'[Home][u].state \in Restored =>
               row[Home][u].state \in Restored \/ Told(z, "target-ready", u)
      <4>1. CASE u # e.t
        BY <1>2, <1>9, <4>1
      <4>2. CASE u = e.t
        <5>1. Follows(Home, u, row[Home][u], row'[Home][u], e)
          BY <1>2, <1>9, <4>2
        <5>2. e.op = "snapshot-ready" => Told(y, "snapshot-ready", u)
          BY <1>4, <1>5, <3>2, <4>2 DEF OutSound, Told
        <5>3. e.op = "target-ready" => Told(z, "target-ready", u)
          BY <1>4, <1>5, <3>2, <4>2 DEF OutSound, Told
        <5>4. row'[Home][u].snap = row[Home][u].snap \/ e.op = "snapshot-ready"
          BY <1>5, <1>12, <5>1 DEF Follows
        <5> QED BY <1>5, <5>1, <5>2, <5>3, <5>4 DEF Follows
      <4> QED BY <4>1, <4>2
    <3>7. /\ y # Home /\ (row[Home][u].snap # 0 \/ Told(y, "snapshot-ready", u))
             => row[y][u].state \in Over \cup {"committed"}
          /\ z # Home /\ (row[Home][u].state \in Restored \/ Told(z, "target-ready", u))
             => row[z][u].state \in Restored
      <4>1. /\ Told(y, "snapshot-ready", u) => Told(Source(u), "snapshot-ready", u)
            /\ Told(z, "target-ready", u) => Told(Target(u), "target-ready", u)
        BY <3>2
      <4> QED BY <3>1, <3>2, <4>1 DEF HandoffAt
    <3>8. Source(u)' = y /\ Target(u)' = z
      BY <1>11, <3>2
    <3> QED BY <3>3, <3>4, <3>5, <3>6, <3>7, <3>8 DEF HandoffAt
  <2> QED BY <1>11, <2>2 DEF HandoffInv
<1>19. OwnerInv'
  <2>1. ASSUME NEW n \in Latest(Home)'..Top'
        PROVE  AuthorityOf(n)' = writer'[Home]
    <3>1. n \in Latest(Home)..Top /\ n \in 0..Top
      BY <1>2, <1>9
    <3>2. AuthorityOf(n) = writer[Home]
      BY <3>1 DEF AuthorityInv, OwnerInv
    <3> QED BY <1>9, <1>10, <3>1, <3>2
  <2>2. ASSUME NEW o \in Suitcases
        PROVE  /\ Latest(o)' # 0 /\ AuthorityOf(Latest(o))' = o
                  => Latest(o)' = Top' \/ HandedOver(o, Latest(o))'
               /\ writer'[o] = o => Latest(o)' # 0 /\ AuthorityOf(Latest(o))' = o
               /\ \A n \in 1..Top' : AuthorityOf(n)' = o /\ n > Latest(o)' => n = Top'
    <3>1. o \in Sites /\ o # Home
      BY HomeIsSite
    <3>2. PICK k \in 0..Top : k = Latest(o)
      BY <1>9, <3>1
    <3>3. Latest(o)' = k /\ AuthorityOf(k)' = AuthorityOf(k) /\ writer'[o] = writer[o]
      BY <1>9, <1>10, <3>1, <3>2
    <3>4. AuthorityOf(Latest(o))' = AuthorityOf(k)
      BY <3>3 DEF AuthorityOf
    <3>5. /\ k # 0 /\ AuthorityOf(k) = o => k = Top \/ HandedOver(o, k)
          /\ writer[o] = o => k # 0 /\ AuthorityOf(k) = o
          /\ \A n \in 1..Top : AuthorityOf(n) = o /\ n > k => n = Top
      <4>1. AuthorityOf(Latest(o)) = AuthorityOf(k)
            /\ (HandedOver(o, Latest(o)) => HandedOver(o, k))
        BY <3>2
      <4> QED BY <3>2, <4>1 DEF AuthorityInv, OwnerInv
    <3>6. HandedOver(o, k) => HandedOver(o, k)'
      BY <1>2, <1>9, <3>1, HandedOverKept
    <3>7. HandedOver(o, k)' => HandedOver(o, Latest(o))'
      BY <3>3 DEF HandedOver
    <3>8. \A n \in 1..Top' : AuthorityOf(n)' = o /\ n > k => n = Top'
      BY <1>2, <1>9, <3>5
    <3> QED BY <1>9, <3>3, <3>4, <3>5, <3>6, <3>7, <3>8
  <2> QED BY <2>1, <2>2 DEF OwnerInv
<1>20. UnderwayInv'
  <2> SUFFICES ASSUME NEW u \in DOMAIN transfers, row'[Home][u].state \in Active, Underway(u)'
               PROVE  Underway(u)
    BY <1>9, <1>11, <1>12 DEF AuthorityInv, UnderwayInv
  <2>1. Source(u) \in Sites
    BY <1>2, TypeFacts
  <2>2. row[Source(u)][u].state \in Broken => row'[Source(u)][u].state \in Broken
    BY <1>9, <2>1 DEF RowsLast
  <2>3. row'[Source(u)][u].state \in Over => row[Source(u)][u].state \in Over
    <3>1. CASE Source(u) # Home \/ u # e.t
      BY <1>9, <2>1, <3>1
    <3>2. CASE Source(u) = Home /\ u = e.t
      <4>1. Follows(Home, u, row[Home][u], row'[Home][u], e)
        BY <1>2, <1>9, <3>2
      <4>2. e.op # "snapshot-ready"
        BY <1>2, <1>5, <3>2 DEF OutSound
      <4> QED BY <3>2, <4>1, <4>2 DEF Follows
    <3> QED BY <3>1, <3>2
  <2>4. CASE row'[Source(u)][u].state \in Over
    BY <2>3, <2>4 DEF Underway
  <2>5. ASSUME row'[Source(u)][u].state \notin Broken,
               NEW w \in Workers, WorkerSite[w] = Source(u), job'[w].at = "recorded", job'[w].t = u
        PROVE  Underway(u)
    BY <1>9, <2>2, <2>5 DEF Underway, Recorded
  <2> QED BY <1>11, <2>4, <2>5 DEF Underway, Recorded
<1> QED BY <1>9, <1>13, <1>15, <1>17, <1>18, <1>19, <1>20 DEF AuthorityInv
(* The snapshot of an event is one that the suitcase knows, or the next.   *)
LEMMA ProjectedSnapshot ==
  ASSUME AuthorityInv, NEW s \in Suitcases, NEW e \in Events, InSound(s, e), Projects(s, e),
         Latest(s) < e.snap
  PROVE  /\ e.snap \in 1..Top
         /\ e.op = "committed" => AuthorityOf(e.snap) = Target(e.t)
         /\ e.op # "committed" /\ Latest(s) # 0 =>
              AuthorityOf(e.snap) = AuthorityOf(Latest(s))
<1>1. PICK k, n : k = e.snap /\ n = Latest(s)
  OBVIOUS
<1>2. /\ TypesInv /\ LineInv /\ s \in Sites /\ Top \in Nat /\ n \in 0..Top /\ k \in 0..Top
      /\ EventSound(e) /\ Accepts(s, e) /\ IsLatest(n, known[s]) /\ e.op \in Ops
      /\ n < k /\ k \in 1..Top
  <2>1. /\ TypesInv /\ LineInv /\ s \in Sites /\ Top \in Nat /\ EventSound(e) /\ Accepts(s, e)
        /\ e.op \in Ops
    BY HomeIsSite, TypeFacts DEF AuthorityInv, InSound, Projects, Events, Top
  <2>2. n \in 0..Top /\ k \in 0..Top /\ IsLatest(n, known[s]) /\ n < k
    BY <1>1, <2>1, LatestFacts, EventFacts DEF Top
  <2> QED BY <2>1, <2>2
<1>3. e.op # "target-ready"
  <2> SUFFICES ASSUME e.op = "target-ready"
               PROVE  FALSE
    OBVIOUS
  <2>1. RowAt(s, e.t).snap = k
    BY <1>1, <1>2 DEF Accepts
  <2>2. RowAt(s, e.t).snap = 0 \/ RowAt(s, e.t).snap = row[s][e.t].snap
    BY DEF RowAt, NoRow
  <2>3. e.t \in Transfers
    BY <1>2, EventFacts DEF EventSound
  <2>4. row[s][e.t].snap \in {0} \cup known[s]
    BY <1>2, <2>3 DEF AuthorityInv, RowsInv, RowSound
  <2> QED BY <1>2, <2>1, <2>2, <2>4 DEF IsLatest
<1>4. e.op \in {"created", "snapshot-ready", "committed"}
  <2>1. e.op \in Broken \cup {"requested", "source-resumed"} => k = 0
    BY <1>1, <1>2 DEF EventSound
  <2> QED BY <1>2, <1>3, <2>1 DEF Ops, Broken
<1>5. ASSUME n # 0, e.op # "committed"
      PROVE  AuthorityOf(k) = AuthorityOf(n)
  <2>1. Recordable(s, snapshots[k], k, FALSE) \/ Recordable(s, snapshots[k], k, TRUE)
    BY <1>1, <1>2, <1>4, <1>5 DEF Accepts
  <2>2. snapshots[k].parent = n
    BY <1>1, <1>2, <1>5, <2>1 DEF Recordable
  <2>3. snapshots[k].parent = k - 1
    BY <1>2 DEF LineInv
  <2>4. Captured(k)
    BY <1>1, <1>2, <1>4, <1>5 DEF EventSound, Handed
  <2>5. AuthorityOf(k) = AuthorityOf(k - 1)
    BY <1>2, <2>4 DEF LineInv
  <2> QED BY <2>2, <2>3, <2>5
<1>6. e.op = "committed" => AuthorityOf(e.snap) = Target(e.t)
  BY <1>2, EventFacts
<1> QED BY <1>1, <1>2, <1>5, <1>6

(* A site that a commit names knows the snapshot of that commit as latest. *)
LEMMA CommittedIsLatest ==
  ASSUME AuthorityInv, NEW s \in Suitcases, NEW e \in Events, InSound(s, e), Projects(s, e),
         e.op = "committed"
  PROVE  Latest(s) <= e.snap /\ e.snap # 0 /\ AuthorityOf(e.snap) = Target(e.t)
<1>1. PICK k, n : k = e.snap /\ n = Latest(s)
  OBVIOUS
<1>2. /\ TypesInv /\ LineInv /\ s \in Sites /\ n \in 0..Top /\ Top \in Nat
      /\ EventSound(e) /\ Accepts(s, e)
  BY <1>1, HomeIsSite, LatestFacts, TypeFacts DEF AuthorityInv, InSound, Projects, Top
<1>3. k \in 1..Top /\ AuthorityOf(k) = Target(e.t)
  BY <1>1, <1>2, EventFacts
<1>4. n # 0 => n = k \/ (Above(snapshots[k], snapshots[n]) /\ snapshots[k].parent = n)
  BY <1>1, <1>2 DEF Accepts, Recordable
<1>5. snapshots[k].parent = k - 1
  BY <1>2, <1>3 DEF LineInv
<1> QED BY <1>1, <1>2, <1>3, <1>4, <1>5

LEMMA ProjectKeeps ==
  ASSUME AuthorityInv, NEW s \in Suitcases, ProjectAtSuitcase(s)
  PROVE  AuthorityInv'
<1>1. PICK e : e = Head(incoming[s])
  OBVIOUS
<1>2. /\ TypesInv /\ LineInv /\ Home \in Sites /\ s \in Sites /\ s # Home
      /\ Top \in Nat /\ DOMAIN transfers \subseteq Transfers /\ 0 \notin DOMAIN transfers
  BY HomeIsSite, TypeFacts, HandoffsAreTransfers DEF AuthorityInv, Top
<1>3. /\ outgoing \in [Suitcases -> Seq(Events)] /\ incoming \in [Suitcases -> Seq(Events)]
      /\ outgoing' = outgoing
  BY <1>2 DEF TypesInv, ProjectAtSuitcase
<1>4. /\ e \in Events /\ e \in Ins(s) /\ Tail(incoming[s]) \in Seq(Events)
      /\ Elements(Tail(incoming[s])) \subseteq Ins(s)
  <2>1. incoming[s] \in Seq(Events) /\ incoming[s] # << >> /\ Ins(s) = Elements(incoming[s])
    BY <1>3 DEF ProjectAtSuitcase, Ins, Elements
  <2> QED BY <1>1, <2>1, HeadAndTail
<1>5. InSound(s, e) /\ EventSound(e)
  BY <1>4 DEF AuthorityInv, EventsInv, InSound
<1>6. /\ incoming' \in [Suitcases -> Seq(Events)]
      /\ \A o \in Suitcases : Ins(o)' \subseteq Ins(o)
  <2>1. PICK p \in Seq(Events) : p = Tail(incoming[s])
    BY <1>4
  <2>2. incoming' = [incoming EXCEPT ![s] = p]
    BY <2>1 DEF ProjectAtSuitcase
  <2>3. /\ incoming' \in [Suitcases -> Seq(Events)] /\ incoming'[s] = p
        /\ \A o \in Suitcases : o # s => incoming'[o] = incoming[o]
    BY <1>3, <2>2
  <2>4. Elements(p) \subseteq Ins(s)
    BY <1>4, <2>1
  <2> QED BY <2>3, <2>4 DEF Ins, Elements
<1>7. \A o : Outs(o)' = Outs(o)
  BY <1>3 DEF Outs
<1>8. Projects(s, e)
  BY <1>1 DEF ProjectAtSuitcase
<1>9. /\ TypesInv' /\ Grown /\ LineInv' /\ RowsInv' /\ RowsLast
      /\ transfers' = transfers /\ job' = job
      /\ Top' = Top /\ \A n \in 0..Top : AuthorityOf(n)' = AuthorityOf(n)
      /\ \A x \in Sites :
           /\ Latest(x) <= Latest(x)' /\ Latest(x) \in 0..Top /\ Latest(x)' \in 0..Top
           /\ x # s => Latest(x)' = Latest(x)
      /\ Latest(s)' = IF Latest(s) < e.snap THEN e.snap ELSE Latest(s)
      /\ \A x \in Sites, u \in DOMAIN transfers :
           x # s \/ u # e.t => row'[x][u] = row[x][u]
      /\ e.t # 0 => Follows(s, e.t, row[s][e.t], row'[s][e.t], e)
  BY <1>2, <1>3, <1>4, <1>5, <1>6, <1>8, ProjectFrame
<1>10. /\ \A x \in Sites : x # s => writer'[x] = writer[x]
       /\ writer'[s] = IF e.op = "committed" THEN Target(e.t) ELSE writer[s]
  <2>1. writer \in [Sites -> Sites]
    BY <1>2 DEF TypesInv
  <2>2. writer' = IF e.op = "committed" THEN [writer EXCEPT ![s] = Target(e.t)] ELSE writer
    BY <1>8 DEF Projects, Target
  <2> QED BY <1>2, <2>1, <2>2
<1>11. /\ DOMAIN transfers' = DOMAIN transfers
       /\ \A u : Source(u)' = Source(u) /\ Target(u)' = Target(u) /\ Expected(u)' = Expected(u)
  BY <1>9 DEF Source, Target, Expected
<1>12. \A u \in DOMAIN transfers : row'[Home][u] = row[Home][u]
  BY <1>2, <1>9
<1>13. TransfersInv'
  BY <1>2, <1>9, <1>10, <1>11, <1>12 DEF AuthorityInv, TransfersInv
(* A site with a part in a handoff that Home committed is past it.         *)
<1>14. ASSUME e.op = "committed"
       PROVE  /\ s = Source(e.t) => row[s][e.t].state \in Over \cup {"committed"}
              /\ s = Target(e.t) => row[s][e.t].state \in Restored
  <2>1. /\ e.t \in DOMAIN transfers /\ row[Home][e.t].state = "committed"
        /\ row[Home][e.t].snap # 0
    BY <1>4, <1>5, <1>14, EventFacts
  <2>2. HandoffAt(e.t)
    BY <2>1 DEF AuthorityInv, HandoffInv, Broken
  <2> QED BY <1>2, <2>1, <2>2 DEF HandoffAt, Restored
<1>15. ASSUME NEW w \in Workers
       PROVE  /\ JobSound(WorkerSite[w], job[w])'
              /\ WorkerSite[w] # Home =>
                   JobHasRow(job[w], row[WorkerSite[w]][job[w].t].state)'
  <2>1. PICK j \in Job, y \in Sites : j = job[w] /\ y = WorkerSite[w]
    BY JobFacts
  <2>2. JobSound(y, j) /\ (y # Home => JobHasRow(j, row[y][j.t].state))
    BY <2>1, JobFacts
  <2>3. JobSound(y, j)'
    BY <1>2, <1>9, <2>2, JobSoundKept
  <2>4. JobSound(WorkerSite[w], job[w])'
    BY <1>9, <2>1, <2>3 DEF JobSound
  <2>5. /\ j.at # "idle" => j.t \in DOMAIN transfers
        /\ j.at \in {"exported", "recorded"} => Source(j.t) = y
        /\ j.at \in {"restoring", "probing"} => Target(j.t) = y
    BY <2>2 DEF JobSound
  <2>6. y # Home => JobHasRow(j, row'[y][j.t].state)
    <3> SUFFICES ASSUME y # Home, j.at # "idle"
                 PROVE  JobHasRow(j, row'[y][j.t].state)
      BY DEF JobHasRow
    <3>1. CASE y # s \/ j.t # e.t
      <4>1. row'[y][j.t] = row[y][j.t]
        BY <1>9, <2>5, <3>1
      <4> QED BY <2>2, <4>1
    <3>2. CASE y = s /\ j.t = e.t
      <4>1. PICK q, r : q = row[s][e.t] /\ r = row'[s][e.t]
        OBVIOUS
      <4>2. e.t # 0 /\ Follows(s, e.t, q, r, e) /\ JobHasRow(j, q.state)
        BY <1>2, <1>9, <2>2, <2>5, <3>2, <4>1
      <4>3. j.at \in {"exported", "recorded"} =>
              /\ e.op # "snapshot-ready"
              /\ e.op = "committed" => q.state \in Over \cup {"committed"}
        BY <1>5, <1>14, <2>5, <3>2, <4>1 DEF InSound
      <4>4. j.at \in {"restoring", "probing"} =>
              /\ e.op # "target-ready"
              /\ e.op = "committed" => q.state \in Restored
        BY <1>5, <1>14, <2>5, <3>2, <4>1 DEF InSound
      <4>5. ASSUME j.at \in {"exported", "recorded"}
            PROVE  r.state \in {"source-capturing"} \cup Broken
        <5>1. q.state \in {"source-capturing"} \cup Broken
          BY <4>2, <4>5 DEF JobHasRow
        <5> QED BY <4>2, <4>3, <4>5, <5>1 DEF Follows, Over, Broken
      <4>6. ASSUME j.at \in {"restoring", "probing"}
            PROVE  r.state \in {"target-restoring"} \cup Broken
        <5>1. q.state \in {"target-restoring"} \cup Broken
          BY <4>2, <4>6 DEF JobHasRow
        <5> QED BY <4>2, <4>4, <4>6, <5>1 DEF Follows, Restored, Broken
      <4> QED BY <3>2, <4>1, <4>5, <4>6 DEF JobHasRow
    <3> QED BY <3>1, <3>2
  <2> QED BY <1>9, <2>1, <2>4, <2>6 DEF JobHasRow
<1>16. JobsInv'
  BY <1>15 DEF JobsInv
<1>17. EventsInv'
  BY <1>2, <1>6, <1>7, <1>9, EventsKept DEF AuthorityInv
<1>18. HandoffInv'
  <2>1. ASSUME NEW u \in DOMAIN transfers, row'[Home][u].state \notin Broken
        PROVE  HandoffAt(u)'
    <3>1. HandoffAt(u) /\ Source(u) \in Sites /\ Target(u) \in Sites
          /\ row[Home][u].state \notin Broken
      BY <1>2, <1>12, <2>1, TypeFacts DEF AuthorityInv, HandoffInv
    <3>2. ASSUME NEW y \in Sites, y # Home
          PROVE  /\ y = Source(u) /\ row[y][u].state \in Over \cup {"committed"} =>
                      row'[y][u].state \in Over \cup {"committed"}
                 /\ row[y][u].state \in Restored => row'[y][u].state \in Restored
      <4>1. CASE y # s \/ u # e.t
        BY <1>9, <4>1
      <4>2. CASE y = s /\ u = e.t
        <5>1. Follows(s, u, row[s][u], row'[s][u], e)
          BY <1>2, <1>9, <4>2
        <5>2. e.op \notin Broken
          BY <1>5, <3>1, <4>2 DEF InSound
        <5> QED BY <4>2, <5>1, <5>2 DEF Follows, Restored
      <4> QED BY <4>1, <4>2
    <3>3. \A op : Told(Source(u), op, u)' = Told(Source(u), op, u)
                  /\ Told(Target(u), op, u)' = Told(Target(u), op, u)
      BY <1>3, <1>11 DEF Told, Outs
    <3> QED BY <1>11, <1>12, <3>1, <3>2, <3>3 DEF HandoffAt
  <2> QED BY <1>11, <2>1 DEF HandoffInv
<1>19. OwnerInv'
  <2>1. \A n \in Latest(Home)'..Top' : AuthorityOf(n)' = writer'[Home]
    <3>1. \A n \in Latest(Home)..Top : AuthorityOf(n) = writer[Home] /\ n \in 0..Top
      BY <1>2, <1>9 DEF AuthorityInv, OwnerInv
    <3> QED BY <1>2, <1>9, <1>10, <3>1
  <2>2. ASSUME NEW o \in Suitcases
        PROVE  /\ Latest(o)' # 0 /\ AuthorityOf(Latest(o))' = o
                  => Latest(o)' = Top' \/ HandedOver(o, Latest(o))'
               /\ writer'[o] = o => Latest(o)' # 0 /\ AuthorityOf(Latest(o))' = o
               /\ \A n \in 1..Top' : AuthorityOf(n)' = o /\ n > Latest(o)' => n = Top'
    <3>1. o \in Sites /\ o # Home
      BY HomeIsSite
    <3>2. PICK k \in 0..Top, n \in 0..Top : k = Latest(o) /\ n = Latest(o)'
      BY <1>9, <3>1
    <3>3. k <= n /\ AuthorityOf(k)' = AuthorityOf(k) /\ AuthorityOf(n)' = AuthorityOf(n)
      BY <1>9, <3>1, <3>2
    <3>4. AuthorityOf(Latest(o))' = AuthorityOf(n)
      <4>1. AuthorityOf(Latest(o))' = AuthorityOf(n)'
        BY <3>2 DEF AuthorityOf
      <4> QED BY <3>3, <4>1
    <3>5. /\ k # 0 /\ AuthorityOf(k) = o => k = Top \/ HandedOver(o, k)
          /\ writer[o] = o => k # 0 /\ AuthorityOf(k) = o
          /\ \A i \in 1..Top : AuthorityOf(i) = o /\ i > k => i = Top
      <4>1. AuthorityOf(Latest(o)) = AuthorityOf(k)
            /\ (HandedOver(o, Latest(o)) => HandedOver(o, k))
        BY <3>2
      <4> QED BY <3>2, <4>1 DEF AuthorityInv, OwnerInv
    <3>6. HandedOver(o, k) => HandedOver(o, k)'
      BY <1>2, <1>9, <3>1, HandedOverKept
    <3>7. HandedOver(o, n)' => HandedOver(o, Latest(o))'
      BY <3>2 DEF HandedOver
    <3>8. \A i \in 1..Top' : AuthorityOf(i)' = o /\ i > n => i = Top'
      BY <1>2, <1>9, <3>3, <3>5
    <3>9. n # 0 /\ AuthorityOf(n) = o => n = Top \/ HandedOver(o, n)'
      <4>1. CASE n = k
        BY <3>5, <3>6, <4>1
      <4>2. CASE n # k
        BY <3>2, <3>3, <3>5, <4>2
      <4> QED BY <4>1, <4>2
    <3>10. ASSUME writer'[o] = o
           PROVE  n # 0 /\ AuthorityOf(n) = o
      <4>1. CASE o # s
        BY <1>9, <1>10, <3>1, <3>2, <3>5, <3>10, <4>1
      <4>2. CASE o = s /\ e.op = "committed"
        <5>1. n = e.snap /\ n # 0 /\ AuthorityOf(e.snap) = Target(e.t)
          <6>1. Latest(s) <= e.snap /\ e.snap # 0 /\ AuthorityOf(e.snap) = Target(e.t)
            BY <1>4, <1>5, <1>8, <4>2, CommittedIsLatest
          <6>2. e.snap \in 0..Top /\ Latest(s) \in 0..Top
            BY <1>2, <1>4, <1>5, <1>9, EventFacts
          <6>3. n = IF Latest(s) < e.snap THEN e.snap ELSE Latest(s)
            BY <1>9, <3>2, <4>2
          <6> QED BY <1>2, <6>1, <6>2, <6>3
        <5>2. Target(e.t) = o
          BY <1>10, <3>10, <4>2
        <5> QED BY <5>1, <5>2
      <4>3. CASE o = s /\ e.op # "committed"
        <5>1. k # 0 /\ AuthorityOf(k) = o
          BY <1>10, <3>5, <3>10, <4>3
        <5>2. CASE k < e.snap
          <6>1. AuthorityOf(e.snap) = AuthorityOf(Latest(s))
            BY <1>4, <1>5, <1>8, <3>2, <4>3, <5>1, <5>2, ProjectedSnapshot
          <6>2. n = e.snap /\ Latest(s) = k
            BY <1>9, <3>2, <4>3, <5>2
          <6>3. AuthorityOf(n) = AuthorityOf(k)
            BY <6>1, <6>2
          <6> QED BY <3>3, <5>1, <6>3
        <5>3. CASE ~ (k < e.snap)
          BY <1>9, <3>2, <4>3, <5>1, <5>3
        <5> QED BY <5>2, <5>3
      <4> QED BY <4>1, <4>2, <4>3
    <3> QED BY <1>9, <3>2, <3>4, <3>7, <3>8, <3>9, <3>10
  <2> QED BY <2>1, <2>2 DEF OwnerInv
<1>20. UnderwayInv'
  <2> SUFFICES ASSUME NEW u \in DOMAIN transfers, row'[Home][u].state \in Active, Underway(u)'
               PROVE  Underway(u)
    BY <1>9, <1>11, <1>12 DEF AuthorityInv, UnderwayInv
  <2>1. Source(u) \in Sites
    BY <1>2, TypeFacts
  <2>2. row[Source(u)][u].state \in Broken => row'[Source(u)][u].state \in Broken
    BY <1>9, <2>1 DEF RowsLast
  <2>3. row'[Source(u)][u].state \in Over => row[Source(u)][u].state \in Over
    <3>1. CASE Source(u) # s \/ u # e.t
      BY <1>9, <2>1, <3>1
    <3>2. CASE Source(u) = s /\ u = e.t
      <4>1. Follows(s, u, row[s][u], row'[s][u], e)
        BY <1>2, <1>9, <3>2
      <4>2. e.op # "snapshot-ready"
        BY <1>5, <3>2 DEF InSound
      <4> QED BY <3>2, <4>1, <4>2 DEF Follows
    <3> QED BY <3>1, <3>2
  <2>4. CASE row'[Source(u)][u].state \in Over
    BY <2>3, <2>4 DEF Underway
  <2>5. ASSUME row'[Source(u)][u].state \notin Broken,
               NEW w \in Workers, WorkerSite[w] = Source(u), job'[w].at = "recorded", job'[w].t = u
        PROVE  Underway(u)
    BY <1>9, <2>2, <2>5 DEF Underway, Recorded
  <2> QED BY <1>11, <2>4, <2>5 DEF Underway, Recorded
<1> QED BY <1>9, <1>13, <1>16, <1>17, <1>18, <1>19, <1>20 DEF AuthorityInv
-----------------------------------------------------------------------------
(* The specification keeps the invariant.                                  *)
LEMMA InitSound == AuthorityInit => AuthorityInv
<1> SUFFICES ASSUME AuthorityInit
             PROVE  AuthorityInv
  OBVIOUS
<1>1. /\ snapshots = << >> /\ transfers = << >> /\ Len(snapshots) = 0 /\ Len(transfers) = 0
      /\ DOMAIN transfers = {} /\ Top = 0 /\ 1..Top = {}
  BY DEF AuthorityInit, Top
<1>2. \A x \in Sites : known[x] = {} /\ writer[x] = Home /\ Latest(x) = 0
  BY DEF AuthorityInit, Latest
<1>3. \A x \in Sites, t \in Transfers : row[x][t] = NoRow
  BY DEF AuthorityInit
<1>4. Home \in Sites /\ Suitcases \subseteq Sites /\ Home \notin Suitcases
  BY HomeIsSite
<1>5. TypesInv
  <2>1. NoRow \in TransferRow
    BY DEF NoRow, TransferRow, States
  <2>2. row \in [Sites -> [Transfers -> TransferRow]]
    BY <2>1 DEF AuthorityInit
  <2>3. volume \in [Sites -> SUBSET Writes]
    <3>1. 0 \in Writes
      BY AuthorityBounds DEF Writes
    <3> QED BY <3>1 DEF AuthorityInit
  <2>4. job \in [Workers -> Job]
    BY NoJobIsJob DEF AuthorityInit
  <2>5. << >> \in Seq(Snapshot) /\ << >> \in Seq(Transfer) /\ << >> \in Seq(Events)
    OBVIOUS
  <2> QED BY <1>1, <1>4, <2>2, <2>3, <2>4, <2>5 DEF AuthorityInit, TypesInv
<1>6. LineInv
  BY <1>1 DEF LineInv
<1>7. TransfersInv
  BY <1>1, AuthorityBounds DEF TransfersInv
<1>8. RowsInv
  <2>1. \A x \in Sites, t \in Transfers : RowSound(x, t, NoRow)
    BY DEF RowSound, NoRow, Over
  <2> QED BY <1>3, <2>1 DEF RowsInv
<1>9. JobsInv
  <2>1. \A w \in Workers : job[w] = NoJob
    BY DEF AuthorityInit
  <2> QED BY <2>1 DEF JobsInv, JobSound, JobHasRow, NoJob
<1>10. EventsInv
  <2>1. \A s \in Suitcases : Outs(s) = {} /\ Ins(s) = {}
    BY DEF AuthorityInit, Outs, Ins
  <2> QED BY <2>1 DEF EventsInv
<1>11. HandoffInv /\ UnderwayInv
  BY <1>1 DEF HandoffInv, UnderwayInv
<1>12. OwnerInv
  BY <1>1, <1>2, <1>4 DEF OwnerInv, AuthorityOf
<1> QED BY <1>5, <1>6, <1>7, <1>8, <1>9, <1>10, <1>11, <1>12 DEF AuthorityInv

LEMMA AdvancesKeeps ==
  ASSUME AuthorityInv, OnePass, NEW w \in Workers, NEW how, Advances(w, how)
  PROVE  AuthorityInv'
<1>1. CASE AdvancesJob(w, how)
  <2>1. CASE RecordSnapshot(w, how)
    BY <2>1, RecordKeeps
  <2>2. CASE SnapshotReady(w, how)
    BY <2>2, SnapshotReadyKeeps
  <2>3. CASE RestoreVolume(w)
    BY <2>3, RestoreVolumeKeeps
  <2>4. CASE TargetReady(w, how)
    BY <2>4, TargetReadyKeeps
  <2>5. CASE RestoreFails(w, how)
    BY <2>5, RestoreFailsKeeps
  <2> QED BY <1>1, <2>1, <2>2, <2>3, <2>4, <2>5 DEF AdvancesJob
<1>2. ASSUME NEW t \in DOMAIN transfers, AdvancesTransfer(w, t, how)
      PROVE  AuthorityInv'
  <2>1. CASE TakeUp(w, t, how)
    BY <2>1, TakeUpKeeps
  <2>2. CASE CommitTransfer(w, t, how)
    BY <2>2, CommitKeeps
  <2>3. CASE BeginCapture(w, t)
    BY <2>3, BeginCaptureKeeps
  <2>4. CASE AcceptSnapshot(w, t)
    BY <2>4, AcceptKeeps
  <2>5. CASE BeginRestore(w, t)
    BY <2>5, BeginRestoreKeeps
  <2>6. CASE ResumeSource(w, t)
    BY <2>6, ResumeKeeps
  <2>7. ASSUME NEW resumed \in BOOLEAN, CaptureFails(w, t, resumed, how)
        PROVE  AuthorityInv'
    BY <2>7, CaptureFailsKeeps
  <2>8. ASSUME NEW op \in Owed(WorkerSite[w], t), EnsureEvent(w, t, op)
        PROVE  AuthorityInv'
    BY <2>8, EnsureKeeps
  <2> QED BY <1>2, <2>1, <2>2, <2>3, <2>4, <2>5, <2>6, <2>7, <2>8 DEF AdvancesTransfer
<1> QED BY <1>1, <1>2 DEF Advances

LEMMA NextSound ==
  ASSUME OnePass, AuthorityInv, [AuthorityNext]_authorityVars
  PROVE  AuthorityInv'
<1>1. ASSUME NEW how \in Outcomes, Administers(how)
      PROVE  AuthorityInv'
  BY <1>1, StartKeeps, AbortKeeps DEF Administers
<1>2. ASSUME NEW how \in Outcomes, NEW w \in Workers, Advances(w, how)
      PROVE  AuthorityInv'
  BY <1>2, AdvancesKeeps
<1>3. ASSUME NEW w \in Workers, Repeats(w)
      PROVE  AuthorityInv'
  BY <1>3, RepeatsKeeps
<1>4. ASSUME NEW s \in Suitcases, IngestAtHome(s)
      PROVE  AuthorityInv'
  BY <1>4, IngestKeeps
<1>5. ASSUME NEW s \in Suitcases, ProjectAtSuitcase(s)
      PROVE  AuthorityInv'
  BY <1>5, ProjectKeeps
<1>6. ASSUME NEW s \in Suitcases, Materialise(s)
      PROVE  AuthorityInv'
  BY <1>6, MaterialiseKeeps
<1>7. ASSUME NEW s \in Suitcases, SupervisorStarts(s)
      PROVE  AuthorityInv'
  BY <1>7, SupervisorKeeps
<1>8. ASSUME NEW s \in Suitcases, NEW how \in Outcomes, ScheduledCapture(s, how)
      PROVE  AuthorityInv'
  BY <1>8, ScheduledKeeps
<1>9. ASSUME NEW x \in Sites, Write(x) \/ Crash(x)
      PROVE  AuthorityInv'
  BY <1>9, WriteKeeps, CrashKeeps
<1>10. CASE UNCHANGED authorityVars
  <2>1. SameLine /\ UNCHANGED <<row, wireVars>> /\ job' = job
    BY <1>10 DEF authorityVars, durableVars, SameLine, SameSnapshots
  <2>2. SitesTyped'
    BY <1>10, SitesKept DEF authorityVars, AuthorityInv
  <2> QED BY <2>1, <2>2, QuietKeeps
<1> QED
  BY <1>1, <1>2, <1>3, <1>4, <1>5, <1>6, <1>7, <1>8, <1>9, <1>10 DEF AuthorityNext

-----------------------------------------------------------------------------
(* What the invariant says of the authority.                               *)
LEMMA InvIsSound == AuthorityInv => AuthoritySound
<1> SUFFICES ASSUME AuthorityInv
             PROVE  AuthoritySound
  OBVIOUS
<1>1. /\ TypesInv /\ LineInv /\ Len(snapshots) \in Nat /\ DOMAIN snapshots = 1..Len(snapshots)
      /\ DOMAIN transfers \subseteq Transfers
  BY TypeFacts, HandoffsAreTransfers DEF AuthorityInv
<1>2. \A n \in 1..Len(snapshots) :
        /\ snapshots[n].authority \in Sites /\ snapshots[n].data \subseteq Writes
        /\ snapshots[n].epoch \in Nat /\ snapshots[n].seq = n /\ snapshots[n].parent = n - 1
  <2>1. \A n \in 1..Len(snapshots) : snapshots[n] \in Snapshot
    BY <1>1, TypeFacts
  <2> QED BY <1>1, <2>1 DEF Snapshot, LineInv, Top
<1>3. AuthorityTypeOK
  <2>1. \A n \in DOMAIN snapshots : snapshots[n].parent \in 0..(n - 1)
    BY <1>1, <1>2
  <2>2. \A t \in DOMAIN transfers : transfers[t].source # transfers[t].target
    BY DEF AuthorityInv, TransfersInv, Source, Target
  <2>3. ASSUME NEW x \in Sites, NEW t \in Transfers
        PROVE  /\ row[x][t].state \in States
               /\ row[x][t].state # "none" => t \in DOMAIN transfers
               /\ row[x][t].snap \in {0} \cup known[x]
    BY <1>1, RowFacts DEF AuthorityInv, RowsInv, RowSound
  <2>4. \A w \in Workers : job[w].at \in {"idle", "exported", "recorded", "restoring", "probing"}
    BY <1>1 DEF TypesInv, Job, JobStates
  <2> QED BY <1>1, <1>2, <2>1, <2>2, <2>3, <2>4 DEF AuthorityTypeOK, TypesInv
<1>4. OneLineage
  <2>1. ASSUME NEW n \in 1..Len(snapshots), n > 1
        PROVE  Above(snapshots[n], snapshots[n - 1])
    <3>1. n - 1 \in 1..Len(snapshots) /\ n - 1 <= n
      BY <1>1, <2>1
    <3>2. snapshots[n - 1].epoch <= snapshots[n].epoch
      BY <1>1, <3>1 DEF LineInv, Top
    <3> QED BY <1>2, <3>1, <3>2 DEF Above
  <2> QED BY <1>1, <1>2, <2>1 DEF OneLineage
<1>5. StaleWriterWaits
  <2> SUFFICES ASSUME NEW s \in Suitcases, writer[s] = s, writer[Home] # s
               PROVE  \E t \in ActiveRows(s) : transfers[t].source = s
    BY DEF StaleWriterWaits
  <2>1. Latest(s) # 0 /\ AuthorityOf(Latest(s)) = s
    BY DEF AuthorityInv, OwnerInv
  <2>2. Latest(s) # Top
    BY <2>1, TopIsOfTheWriter
  <2>3. PICK t \in DOMAIN transfers : Source(t) = s /\ row[s][t].state \in Over
    BY <2>1, <2>2, OwnerHasTheNewest
  <2>4. t \in ActiveRows(s)
    BY <1>1, <2>3 DEF ActiveRows, Over, Active
  <2> QED BY <2>3, <2>4 DEF Source
<1> QED BY <1>3, <1>4, <1>5 DEF AuthoritySound

(* The authority over the volume of an application stays of one piece: the *)
(* rows, the snapshots and the writers of every site are of their types,   *)
(* the snapshots of all sites are one line, and a site that Home has taken *)
(* the authority from (commitTransfer) has the handoff open until it knows *)
(* it, so that neither the scheduled capture nor reconcileReplica works on *)
(* an authority it lost.  A suitcase runs one pass of                      *)
(* processLocalOpaqueVolumeAuthorityTransfers at a time, Home any number.  *)
THEOREM AuthorityIsSound == ASSUME OnePass PROVE AuthoritySpec => []AuthoritySound
<1>1. AuthorityInit => AuthorityInv
  BY InitSound
<1>2. AuthorityInv /\ [AuthorityNext]_authorityVars => AuthorityInv'
  BY NextSound
<1>3. AuthorityInv => AuthoritySound
  BY InvIsSound
<1> QED BY <1>1, <1>2, <1>3, PTL DEF AuthoritySpec

-----------------------------------------------------------------------------
(* What the volume of the writer holds.                                    *)

(* The site in authority was given it by the last commit; if it does not   *)
(* know that yet its row waits for it.                                     *)
LastCommit(t) ==
  /\ row[Home][t].state = "committed"
  /\ \A u \in DOMAIN transfers : t < u => row[Home][u].state # "committed"

Entitled(s, t) ==
  row[s][t].state \in Restored /\ (row[s][t].state = "committed" => writer[s] = s)

WriterInv ==
  \A s \in Suitcases : writer[Home] = s =>
    \E t \in DOMAIN transfers : LastCommit(t) /\ Target(t) = s /\ Entitled(s, t)

(* A restore is never under way for a row that has not come so far.        *)
RestoresInv ==
  \A w \in Workers : job[w].at \in {"restoring", "probing"} =>
    row[WorkerSite[w]][job[w].t].state \notin Early

(* What was handed over, exported or restored holds every write.           *)
HandedHolds(t) ==
  row[Source(t)][t].state \in Over /\ row[Source(t)][t].snap = Top =>
    0..writes \subseteq snapshots[Top].data

TargetHolds(t) ==
  row[Target(t)][t].state = "target-ready" =>
    snapshots[row[Target(t)][t].snap].data \subseteq volume[Target(t)]

JobHolds(x, j) ==
  /\ j.at = "recorded" /\ j.snap = Top => 0..writes \subseteq snapshots[Top].data
  /\ j.at = "exported" /\ Latest(x) = j.snap => 0..writes \subseteq j.data
  /\ j.at = "probing" /\ row[x][j.t].state = "target-restoring" =>
       snapshots[j.snap].data \subseteq volume[x]

HoldsInv ==
  /\ WritesHeld
  /\ \A t \in DOMAIN transfers : HandedHolds(t) /\ TargetHolds(t)
  /\ \A w \in Workers : JobHolds(WorkerSite[w], job[w])

KeptInv == WriterInv /\ RestoresInv /\ (~ undone => HoldsInv)

(* What a row says of its handoff, by itself and beside the one before.    *)
RowPlace ==
  \A x \in Sites, t \in DOMAIN transfers :
    row[x][t].snap \in 0..Top /\ (row[x][t].state \in Over => row[x][t].snap = Expected(t) + 1)

LEMMA RowsPlaced ==
  ASSUME AuthorityInv
  PROVE  RowPlace /\ Top \in Nat
<1>1. TypesInv /\ Top \in Nat /\ \A x \in Sites : known[x] \subseteq 1..Top
  BY TypeFacts DEF AuthorityInv, Top
<1>2. ASSUME NEW x \in Sites, NEW t \in DOMAIN transfers
      PROVE  row[x][t].snap \in 0..Top
             /\ (row[x][t].state \in Over => row[x][t].snap = Expected(t) + 1)
  <2>1. RowSound(x, t, row[x][t])
    BY HandoffsAreTransfers DEF AuthorityInv, RowsInv
  <2> QED BY <1>1, <2>1 DEF RowSound, Over, Handed
<1> QED BY <1>1, <1>2 DEF RowPlace

LEMMA JobsPlaced ==
  ASSUME AuthorityInv, NEW w \in Workers
  PROVE  /\ job[w].at # "idle" => job[w].t \in DOMAIN transfers
         /\ job[w].at = "exported" => job[w].snap \in 0..Latest(WorkerSite[w])
         /\ job[w].at \in {"recorded", "restoring", "probing"} =>
              job[w].snap \in 1..Top /\ job[w].snap = Expected(job[w].t) + 1
         /\ job[w].at = "recorded" =>
              Source(job[w].t) = WorkerSite[w] /\ AuthorityOf(job[w].snap) = WorkerSite[w]
         /\ job[w].at \in {"restoring", "probing"} => Target(job[w].t) = WorkerSite[w]
<1>1. PICK x \in Sites, j \in Job : x = WorkerSite[w] /\ j = job[w]
  BY JobFacts
<1>2. JobSound(x, j) /\ TypesInv /\ LineInv /\ j.snap \in Nat
  BY <1>1, JobFacts DEF AuthorityInv, Job
<1>3. IsLatest(Latest(x), known[x]) /\ Latest(x) \in Nat
  BY <1>2, LatestFacts
<1>4. j.at = "exported" => j.snap \in 0..Latest(x)
  BY <1>2, <1>3 DEF JobSound, IsLatest
<1> QED BY <1>1, <1>2, <1>4 DEF JobSound, Handed

LEMMA LatestRises ==
  ASSUME AuthorityInv, AuthorityInv', Grown, NEW x \in Sites
  PROVE  Latest(x) <= Latest(x)' /\ Latest(x) \in Nat /\ Latest(x)' \in Nat
<1>1. Latest(x) <= Latest(x)' /\ Latest(x) \in 0..Top /\ Latest(x)' \in 0..Top'
  BY LatestGrows DEF AuthorityInv
<1> QED BY <1>1

(* A job that goes on keeps what it holds, whatever else is made.          *)
LEMMA JobHoldsKept ==
  ASSUME AuthorityInv, AuthorityInv', Grown, NEW w \in Workers, job'[w] = job[w],
         JobHolds(WorkerSite[w], job[w]), writes' = writes,
         volume[WorkerSite[w]] \subseteq volume'[WorkerSite[w]],
         job[w].at = "probing" =>
           (row'[WorkerSite[w]][job[w].t].state = "target-restoring"
              => row[WorkerSite[w]][job[w].t].state = "target-restoring")
  PROVE  JobHolds(WorkerSite[w], job[w])'
<1>1. PICK x \in Sites, j \in Job : x = WorkerSite[w] /\ j = job[w]
  BY JobFacts
<1>2. /\ j.at = "exported" => j.snap \in 0..Latest(x)
      /\ j.at \in {"recorded", "probing"} => j.snap \in 1..Top
  BY <1>1, JobsPlaced
<1>3. /\ Latest(x) <= Latest(x)' /\ Latest(x) \in Nat /\ Latest(x)' \in Nat
      /\ Top \in Nat /\ Top' \in Nat /\ Top <= Top'
      /\ \A n \in 1..Top : snapshots'[n] = snapshots[n]
  BY LatestRises, RowsPlaced, GrownFacts DEF Grown, AuthorityInv, Top
<1>4. JobHolds(x, j)
  BY <1>1
<1>5. j.at = "recorded" /\ j.snap = Top' => 0..writes' \subseteq snapshots'[Top'].data
  <2> SUFFICES ASSUME j.at = "recorded", j.snap = Top'
               PROVE  0..writes \subseteq snapshots'[Top'].data
    OBVIOUS
  <2>1. Top' = Top /\ Top \in 1..Top
    BY <1>2, <1>3
  <2>2. snapshots'[Top'] = snapshots[Top]
    BY <1>3, <2>1
  <2> QED BY <1>4, <2>1, <2>2 DEF JobHolds
<1>6. j.at = "exported" /\ Latest(x)' = j.snap => 0..writes' \subseteq j.data
  BY <1>2, <1>3, <1>4 DEF JobHolds
<1>7. j.at = "probing" /\ row'[x][j.t].state = "target-restoring" =>
        snapshots'[j.snap].data \subseteq volume'[x]
  BY <1>1, <1>2, <1>3, <1>4 DEF JobHolds
<1>8. job'[w] = j
  BY <1>1
<1> QED BY <1>1, <1>5, <1>6, <1>7, <1>8 DEF JobHolds

(* A row that goes on too.                                                 *)
LEMMA HandedHoldsKept ==
  ASSUME AuthorityInv, AuthorityInv', Grown, NEW t \in DOMAIN transfers, HandedHolds(t),
         writes' = writes,
         row'[Source(t)][t].state \in Over /\ row'[Source(t)][t].snap <= Top =>
           row[Source(t)][t].state \in Over /\ row[Source(t)][t].snap = row'[Source(t)][t].snap,
         row'[Source(t)][t].state \in Over => row'[Source(t)][t].snap <= Top
  PROVE  HandedHolds(t)'
<1>1. PICK x \in Sites : x = Source(t)
  BY TypeFacts DEF AuthorityInv
<1>2. /\ Top \in Nat /\ Top' \in Nat /\ Top <= Top' /\ Source(t)' = x
      /\ \A n \in 1..Top : snapshots'[n] = snapshots[n]
      /\ row[x][t].state \in Over => row[x][t].snap \in 1..Top
  <2>1. RowSound(x, t, row[x][t])
    BY HandoffsAreTransfers DEF AuthorityInv, RowsInv
  <2> QED BY <1>1, <2>1, GrownFacts, RowsPlaced DEF Grown, AuthorityInv, Top, RowPlace, RowSound
<1> SUFFICES ASSUME row'[x][t].state \in Over, row'[x][t].snap = Top'
             PROVE  0..writes \subseteq snapshots'[Top'].data
  BY <1>2 DEF HandedHolds
<1>3. row[x][t].state \in Over /\ row[x][t].snap = Top' /\ Top' = Top /\ Top \in 1..Top
  BY <1>1, <1>2
<1>4. snapshots'[Top'] = snapshots[Top]
  BY <1>2, <1>3
<1> QED BY <1>1, <1>3, <1>4 DEF HandedHolds

LEMMA TargetHoldsKept ==
  ASSUME AuthorityInv, AuthorityInv', Grown, NEW t \in DOMAIN transfers, TargetHolds(t),
         volume[Target(t)] \subseteq volume'[Target(t)],
         row'[Target(t)][t].state = "target-ready" =>
           /\ row[Target(t)][t].state = "target-ready"
           /\ row[Target(t)][t].snap = row'[Target(t)][t].snap
  PROVE  TargetHolds(t)'
<1>1. PICK x \in Sites : x = Target(t)
  BY TypeFacts DEF AuthorityInv
<1>2. /\ Target(t)' = x /\ \A n \in 1..Top : snapshots'[n] = snapshots[n]
      /\ row[x][t].state = "target-ready" => row[x][t].snap \in 1..Top
  <2>1. RowSound(x, t, row[x][t])
    BY HandoffsAreTransfers DEF AuthorityInv, RowsInv
  <2> QED BY <1>1, <2>1, GrownFacts, RowsPlaced
        DEF Grown, AuthorityInv, Top, RowPlace, RowSound, Over
<1> SUFFICES ASSUME row'[x][t].state = "target-ready"
             PROVE  snapshots'[row'[x][t].snap].data \subseteq volume'[x]
  BY <1>2 DEF TargetHolds
<1>3. row[x][t].state = "target-ready" /\ row[x][t].snap = row'[x][t].snap
  BY <1>1
<1>4. snapshots[row[x][t].snap].data \subseteq volume[x]
  BY <1>1, <1>3 DEF TargetHolds
<1>5. snapshots'[row'[x][t].snap] = snapshots[row[x][t].snap]
  BY <1>2, <1>3
<1> QED BY <1>1, <1>4, <1>5

LEMMA WriterKept ==
  ASSUME AuthorityInv, AuthorityInv', Grown, WriterInv, writer'[Home] = writer[Home],
         \A u \in DOMAIN transfers' : row'[Home][u].state = "committed" =>
           u \in DOMAIN transfers /\ row[Home][u].state = "committed",
         \A u \in DOMAIN transfers :
           row[Home][u].state = "committed" => row'[Home][u].state = "committed",
         \A s \in Suitcases : \A u \in DOMAIN transfers :
           LastCommit(u) /\ Target(u) = s /\ Entitled(s, u) => Entitled(s, u)'
  PROVE  WriterInv'
<1> SUFFICES ASSUME NEW s \in Suitcases, writer[Home] = s
             PROVE  \E t \in DOMAIN transfers' :
                      LastCommit(t)' /\ Target(t)' = s /\ Entitled(s, t)'
  BY DEF WriterInv
<1>1. PICK t \in DOMAIN transfers : LastCommit(t) /\ Target(t) = s /\ Entitled(s, t)
  BY DEF WriterInv
<1>2. t \in DOMAIN transfers' /\ Target(t)' = s
  BY <1>1, GrownFacts DEF AuthorityInv
<1>3. Entitled(s, t)'
  BY <1>1
<1>4. LastCommit(t)'
  <2>1. row'[Home][t].state = "committed"
    BY <1>1 DEF LastCommit
  <2>2. ASSUME NEW u \in DOMAIN transfers', t < u, row'[Home][u].state = "committed"
        PROVE  FALSE
    BY <1>1, <2>2 DEF LastCommit
  <2> QED BY <2>1, <2>2 DEF LastCommit
<1> QED BY <1>2, <1>3, <1>4

LEMMA RestoresKept ==
  ASSUME AuthorityInv, RestoresInv,
         \A u \in DOMAIN transfers :
           row[Target(u)][u].state \notin Early => row'[Target(u)][u].state \notin Early,
         \A w \in Workers :
           \/ job'[w] \in {job[w], NoJob}
           \/ job'[w].at \in {"restoring", "probing"} =>
                row'[WorkerSite[w]][job'[w].t].state \notin Early
  PROVE  RestoresInv'
<1> SUFFICES ASSUME NEW w \in Workers, job'[w].at \in {"restoring", "probing"}
             PROVE  row'[WorkerSite[w]][job'[w].t].state \notin Early
  BY DEF RestoresInv
<1>1. CASE job'[w] = job[w]
  <2>1. job[w].t \in DOMAIN transfers /\ Target(job[w].t) = WorkerSite[w]
    BY <1>1, JobsPlaced
  <2>2. row[WorkerSite[w]][job[w].t].state \notin Early
    BY <1>1 DEF RestoresInv
  <2> QED BY <1>1, <2>1, <2>2
<1>2. CASE job'[w] = NoJob
  BY <1>2 DEF NoJob
<1> QED BY <1>1, <1>2

(* Everything but what writes, restores or commits.                        *)
LEMMA HoldsKept ==
  ASSUME AuthorityInv, AuthorityInv', Grown, HoldsInv, WritesHeld', writes' = writes,
         \A x \in Sites : volume[x] \subseteq volume'[x],
         \A u \in DOMAIN transfers' :
           \/ u \in DOMAIN transfers
           \/ /\ row'[transfers'[u].source][u].state \notin Over
              /\ row'[transfers'[u].target][u].state \notin Over,
         \A u \in DOMAIN transfers :
           \/ HandedHolds(u)'
           \/ row'[Source(u)][u].state \in Over =>
                /\ row[Source(u)][u].state \in Over
                /\ row[Source(u)][u].snap = row'[Source(u)][u].snap,
         \A u \in DOMAIN transfers :
           \/ TargetHolds(u)'
           \/ row'[Target(u)][u].state = "target-ready" =>
                /\ row[Target(u)][u].state = "target-ready"
                /\ row[Target(u)][u].snap = row'[Target(u)][u].snap,
         \A w \in Workers :
           \/ job'[w] = NoJob
           \/ /\ job'[w] = job[w]
              /\ job[w].at = "probing" =>
                   (row'[WorkerSite[w]][job[w].t].state = "target-restoring"
                      => row[WorkerSite[w]][job[w].t].state = "target-restoring")
           \/ JobHolds(WorkerSite[w], job[w])'
  PROVE  HoldsInv'
<1>1. /\ \A u \in DOMAIN transfers : Source(u) \in Sites /\ Target(u) \in Sites
      /\ \A x \in Sites, u \in DOMAIN transfers : row[x][u].snap <= Top
  BY TypeFacts, RowsPlaced DEF AuthorityInv, RowPlace
<1>2. ASSUME NEW u \in DOMAIN transfers
      PROVE  HandedHolds(u)' /\ TargetHolds(u)'
  <2>1. HandedHolds(u) /\ TargetHolds(u)
    BY DEF HoldsInv
  <2>2. HandedHolds(u)'
    <3> SUFFICES ASSUME row'[Source(u)][u].state \in Over =>
                          /\ row[Source(u)][u].state \in Over
                          /\ row[Source(u)][u].snap = row'[Source(u)][u].snap
                 PROVE  HandedHolds(u)'
      OBVIOUS
    <3>1. row'[Source(u)][u].state \in Over => row'[Source(u)][u].snap <= Top
      BY <1>1
    <3> QED BY <2>1, <3>1, HandedHoldsKept
  <2>3. TargetHolds(u)'
    <3> SUFFICES ASSUME row'[Target(u)][u].state = "target-ready" =>
                          /\ row[Target(u)][u].state = "target-ready"
                          /\ row[Target(u)][u].snap = row'[Target(u)][u].snap
                 PROVE  TargetHolds(u)'
      OBVIOUS
    <3>1. volume[Target(u)] \subseteq volume'[Target(u)]
      BY <1>1
    <3> QED BY <2>1, <3>1, TargetHoldsKept
  <2> QED BY <2>2, <2>3
<1>3. ASSUME NEW u \in DOMAIN transfers', u \notin DOMAIN transfers
      PROVE  HandedHolds(u)' /\ TargetHolds(u)'
  BY <1>3 DEF HandedHolds, TargetHolds, Over, Source, Target
<1>4. ASSUME NEW w \in Workers
      PROVE  JobHolds(WorkerSite[w], job[w])'
  <2>1. CASE job'[w] = NoJob
    BY <2>1 DEF JobHolds, NoJob
  <2>2. CASE /\ job'[w] = job[w]
             /\ job[w].at = "probing" =>
                  (row'[WorkerSite[w]][job[w].t].state = "target-restoring"
                     => row[WorkerSite[w]][job[w].t].state = "target-restoring")
    <3>1. JobHolds(WorkerSite[w], job[w]) /\ WorkerSite[w] \in Sites
      BY JobFacts DEF HoldsInv
    <3> QED BY <2>2, <3>1, JobHoldsKept
  <2> QED BY <2>1, <2>2
<1> QED BY <1>2, <1>3, <1>4 DEF HoldsInv

-----------------------------------------------------------------------------
(* A step that moves one row at its own site.                              *)
SameHoldings == SameLine /\ UNCHANGED <<volume, writes, undone>>

OthersStay(x, t) ==
  \A y \in Sites, u \in Transfers : y # x \/ u # t => row'[y][u] = row[y][u]

JobsGo == \A w \in Workers : job'[w] \in {job[w], NoJob}

(* What the row hands over was captured, what it restored is in place.     *)
Holds(x, t, q, r) ==
  /\ x = Target(t) /\ q.state \notin Early => r.state \notin Early
  /\ x = Source(t) /\ r.state \in Over =>
       \/ q.state \in Over /\ r.snap = q.snap
       \/ ~ undone /\ r.snap = Top => 0..writes \subseteq snapshots[Top].data
  /\ x = Target(t) /\ r.state = "target-ready" =>
       \/ q.state = "target-ready" /\ r.snap = q.snap
       \/ ~ undone => snapshots[r.snap].data \subseteq volume[x]
  /\ x = Target(t) /\ r.state = "target-restoring" =>
       \/ q.state = "target-restoring"
       \/ \A w \in Workers : WorkerSite[w] = x /\ job[w].t = t => job[w].at # "probing"

LEMMA TurnHolds ==
  ASSUME AuthorityInv, AuthorityInv', RestoresInv, ~ undone => HoldsInv, Grown,
         UNCHANGED <<snapshots, transfers, volume, writes, undone>>,
         writer'[Home] = writer[Home], NEW x \in Sites, NEW t,
         \A y \in Sites, u \in DOMAIN transfers : y # x \/ u # t => row'[y][u] = row[y][u],
         JobsGo, NEW q, NEW r, q = row[x][t], r = row'[x][t],
         t \in DOMAIN transfers => Holds(x, t, q, r)
  PROVE  RestoresInv' /\ (~ undone' => HoldsInv')
<1>0. /\ transfers' = transfers /\ snapshots' = snapshots
      /\ volume' = volume /\ writes' = writes /\ undone' = undone /\ Top' = Top
      /\ \A u \in DOMAIN transfers : /\ Source(u) \in Sites /\ Target(u) \in Sites
                                     /\ Source(u)' = Source(u) /\ Target(u)' = Target(u)
  BY TypeFacts DEF Top, Source, Target, AuthorityInv
<1>1. \A y \in Sites, u \in DOMAIN transfers : y # x \/ u # t => row'[y][u] = row[y][u]
  OBVIOUS
<1>3. RestoresInv'
  <2>1. ASSUME NEW u \in DOMAIN transfers, row[Target(u)][u].state \notin Early
        PROVE  row'[Target(u)][u].state \notin Early
    BY <1>0, <1>1, <2>1 DEF Holds
  <2> QED BY <2>1, RestoresKept DEF JobsGo
<1>4. ASSUME ~ undone
      PROVE  HoldsInv'
  <2>0. HoldsInv
    BY <1>4
  <2>1. WritesHeld'
    BY <1>0, <2>0 DEF HoldsInv, WritesHeld
  <2>2. ASSUME NEW u \in DOMAIN transfers
        PROVE  \/ HandedHolds(u)'
               \/ row'[Source(u)][u].state \in Over =>
                    /\ row[Source(u)][u].state \in Over
                    /\ row[Source(u)][u].snap = row'[Source(u)][u].snap
    <3>1. CASE Source(u) = x /\ u = t
      <4>1. CASE r.state \in Over /\ ~ (q.state \in Over /\ r.snap = q.snap)
        <5>1. r.snap = Top => 0..writes \subseteq snapshots[Top].data
          BY <1>4, <3>1, <4>1 DEF Holds
        <5> QED BY <1>0, <3>1, <5>1 DEF HandedHolds
      <4> QED BY <3>1, <4>1
    <3>2. CASE Source(u) # x \/ u # t
      BY <1>0, <1>1, <3>2
    <3> QED BY <3>1, <3>2
  <2>3. ASSUME NEW u \in DOMAIN transfers
        PROVE  \/ TargetHolds(u)'
               \/ row'[Target(u)][u].state = "target-ready" =>
                    /\ row[Target(u)][u].state = "target-ready"
                    /\ row[Target(u)][u].snap = row'[Target(u)][u].snap
    <3>1. CASE Target(u) = x /\ u = t
      <4>1. CASE r.state = "target-ready" /\ ~ (q.state = "target-ready" /\ r.snap = q.snap)
        <5>1. snapshots[r.snap].data \subseteq volume[x]
          BY <1>4, <3>1, <4>1 DEF Holds
        <5> QED BY <1>0, <3>1, <5>1 DEF TargetHolds
      <4> QED BY <3>1, <4>1
    <3>2. CASE Target(u) # x \/ u # t
      BY <1>0, <1>1, <3>2
    <3> QED BY <3>1, <3>2
  <2>4. ASSUME NEW w \in Workers
        PROVE  \/ job'[w] = NoJob
               \/ /\ job'[w] = job[w]
                  /\ job[w].at = "probing" =>
                       (row'[WorkerSite[w]][job[w].t].state = "target-restoring"
                          => row[WorkerSite[w]][job[w].t].state = "target-restoring")
    <3>1. job'[w] \in {job[w], NoJob} /\ WorkerSite[w] \in Sites
      BY JobFacts DEF JobsGo
    <3>2. ASSUME job[w].at = "probing",
                 row'[WorkerSite[w]][job[w].t].state = "target-restoring"
          PROVE  row[WorkerSite[w]][job[w].t].state = "target-restoring"
      <4>1. job[w].t \in DOMAIN transfers /\ Target(job[w].t) = WorkerSite[w]
        BY <3>2, JobsPlaced
      <4>2. CASE WorkerSite[w] = x /\ job[w].t = t
        BY <3>2, <4>1, <4>2 DEF Holds
      <4>3. CASE WorkerSite[w] # x \/ job[w].t # t
        BY <1>1, <3>1, <3>2, <4>1, <4>3
      <4> QED BY <4>2, <4>3
    <3> QED BY <3>1, <3>2
  <2>5. \A y \in Sites : volume[y] \subseteq volume'[y]
    BY <1>0
  <2>6. \A u \in DOMAIN transfers' : u \in DOMAIN transfers
    BY <1>0
  <2> QED BY <1>0, <2>0, <2>1, <2>2, <2>3, <2>4, <2>5, <2>6, HoldsKept
<1> QED BY <1>0, <1>3, <1>4

Turns(x, t, q, r) ==
  /\ x = Home => (r.state = "committed" <=> q.state = "committed")
  /\ x # Home /\ x = Target(t) /\ q.state \in Restored =>
       r.state \in Restored /\ (r.state = "committed" => q.state = "committed")
  /\ Holds(x, t, q, r)

LEMMA TurnKeeps ==
  ASSUME AuthorityInv, AuthorityInv', KeptInv, SameHoldings, NEW x \in Sites,
         NEW t \in DOMAIN transfers, OthersStay(x, t), JobsGo,
         NEW q, NEW r, q = row[x][t], r = row'[x][t], Turns(x, t, q, r)
  PROVE  KeptInv'
<1>0. /\ Grown /\ TypesInv /\ DOMAIN transfers \subseteq Transfers
      /\ transfers' = transfers /\ snapshots' = snapshots /\ writer' = writer
      /\ volume' = volume /\ writes' = writes /\ undone' = undone /\ Top' = Top
      /\ \A u \in DOMAIN transfers : /\ Source(u) \in Sites /\ Target(u) \in Sites
                                     /\ Source(u)' = Source(u) /\ Target(u)' = Target(u)
  <2>1. TypesInv /\ DOMAIN transfers \subseteq Transfers
    BY HandoffsAreTransfers DEF AuthorityInv
  <2>2. Grown
    BY <2>1 DEF SameHoldings, SameLine, SameSnapshots, Grown, TypesInv
  <2> QED BY <2>1, <2>2, TypeFacts
          DEF SameHoldings, SameLine, SameSnapshots, Top, Source, Target
<1>1. \A y \in Sites, u \in DOMAIN transfers : y # x \/ u # t => row'[y][u] = row[y][u]
  BY <1>0 DEF OthersStay
<1>2. WriterInv'
  <2>1. \A u \in DOMAIN transfers :
          row'[Home][u].state = "committed" <=> row[Home][u].state = "committed"
    BY <1>1, HomeIsSite DEF Turns
  <2>2. ASSUME NEW s \in Suitcases, NEW u \in DOMAIN transfers,
               LastCommit(u), Target(u) = s, Entitled(s, u)
        PROVE  Entitled(s, u)'
    <3>1. s \in Sites /\ s # Home
      BY HomeIsSite
    <3>2. CASE s = x /\ u = t
      BY <1>0, <2>2, <3>1, <3>2 DEF Entitled, Turns
    <3>3. CASE s # x \/ u # t
      BY <1>0, <1>1, <2>2, <3>1, <3>3 DEF Entitled
    <3> QED BY <3>2, <3>3
  <2> QED BY <1>0, <2>1, <2>2, WriterKept DEF KeptInv
<1>3. RestoresInv' /\ (~ undone' => HoldsInv')
  BY <1>0, <1>1, TurnHolds DEF KeptInv, Turns
<1> QED BY <1>2, <1>3 DEF KeptInv

LEMMA JobsEndGo ==
  ASSUME NEW x, JobsEnd(x)
  PROVE  JobsGo
BY DEF JobsEnd, JobsGo

LEMMA RowSet ==
  ASSUME TypesInv, NEW x \in Sites, NEW t \in Transfers, NEW r, row' = [row EXCEPT ![x][t] = r]
  PROVE  OthersStay(x, t) /\ row'[x][t] = r
BY DEF TypesInv, OthersStay

(* A handoff goes from one site to another.                                *)
LEMMA TwoEnds ==
  ASSUME AuthorityInv, NEW t \in DOMAIN transfers
  PROVE  Source(t) # Target(t)
<1>1. TransfersInv
  BY DEF AuthorityInv
<1> QED BY <1>1 DEF TransfersInv

LEMMA StateAndSent ==
  ASSUME NEW q \in TransferRow, NEW s, NEW e
  PROVE  [q EXCEPT !.state = s, !.sent = e].state = s
BY DEF TransferRow

(* An abort, a take-up, a resume or an event sent again, and a failure.    *)
LEMMA AbortKeepsWrites ==
  ASSUME AuthorityInv, AuthorityInv', KeptInv, NEW t \in DOMAIN transfers, NEW how,
         AbortTransfer(t, how)
  PROVE  KeptInv'
<1>1. PICK q, r : q = row[Home][t] /\ r = [q EXCEPT !.state = "aborted", !.resumed = FALSE]
  OBVIOUS
<1>2. TypesInv /\ Home \in Sites /\ t \in Transfers /\ q \in TransferRow
  BY <1>1, HomeIsSite, HandoffsAreTransfers, RowFacts DEF AuthorityInv
<1>3. row' = [row EXCEPT ![Home][t] = r]
  BY <1>1, <1>2 DEF AbortTransfer, TypesInv, TransferRow
<1>4. r.state = "aborted"
  BY <1>1, <1>2 DEF TransferRow
<1>5. OthersStay(Home, t) /\ row'[Home][t] = r
  BY <1>2, <1>3, RowSet
<1>6. Turns(Home, t, q, r)
  BY <1>1, <1>4 DEF Turns, Holds, AbortTransfer, Early, Over, Restored
<1>7. JobsGo /\ SameHoldings
  <2>1. JobsGo
    BY <1>2, IdleEnds, JobsEndGo DEF AbortTransfer, JobsGo
  <2> QED BY <2>1 DEF AbortTransfer, SameHoldings, SameLine, SameSnapshots, siteVars
<1> QED BY <1>1, <1>2, <1>5, <1>6, <1>7, TurnKeeps

LEMMA TakeUpKeepsWrites ==
  ASSUME AuthorityInv, AuthorityInv', KeptInv, OnePass, NEW w \in Workers,
         NEW t \in DOMAIN transfers, NEW how, TakeUp(w, t, how)
  PROVE  KeptInv'
<1>1. PICK x \in Sites, q \in TransferRow : x = WorkerSite[w] /\ q = row[x][t]
  BY JobFacts, HandoffsAreTransfers, RowFacts DEF AuthorityInv
<1>2. TypesInv /\ t \in Transfers /\ q \in TransferRow /\ q.state = "requested" /\ x = Source(t)
  BY <1>1, HandoffsAreTransfers, RowFacts, SourceTargetFields DEF AuthorityInv, TakeUp, MayTake
<1>3. PICK r : r = [q EXCEPT !.state = IF how = "done" THEN "source-capturing" ELSE q.state,
                             !.sent = q.sent \cup Noted(how, "requested")]
  OBVIOUS
<1>4. row' = [row EXCEPT ![x][t] = r]
  <2>1. row' = [row EXCEPT ![x][t].state = IF how = "done" THEN "source-capturing" ELSE @,
                           ![x][t].sent = @ \cup Noted(how, "requested")]
    BY <1>1 DEF TakeUp
  <2>2. row \in [Sites -> [Transfers -> TransferRow]] /\ x \in Sites /\ t \in Transfers
        /\ q = row[x][t]
    BY <1>1, <1>2 DEF TypesInv
  <2> QED BY <2>1, <2>2, <1>3 DEF TransferRow
<1>5. r.state \in {"requested", "source-capturing"}
  <2>1. r.state = IF how = "done" THEN "source-capturing" ELSE q.state
    BY <1>3, StateAndSent
  <2>2. q.state = "requested"
    BY <1>2
  <2> QED BY <2>1, <2>2
<1>6. OthersStay(x, t) /\ row'[x][t] = r
  <2>1. TypesInv /\ t \in Transfers
    BY <1>2
  <2> QED BY <1>4, <2>1, RowSet
<1>7. x # Target(t)
  BY <1>2, TwoEnds
<1>8. Turns(x, t, q, r)
  BY <1>2, <1>5, <1>7 DEF Turns, Holds, Over
<1>9. JobsGo /\ SameHoldings
  <2>1. JobsGo
    BY <1>2, JobAfterEnds, JobsEndGo DEF TakeUp
  <2> QED BY <2>1 DEF TakeUp, SameHoldings, SameLine, SameSnapshots, siteVars
<1> QED BY <1>1, <1>6, <1>8, <1>9, TurnKeeps

LEMMA AcceptKeepsWrites ==
  ASSUME AuthorityInv, AuthorityInv', KeptInv, OnePass, NEW w \in Workers,
         NEW t \in DOMAIN transfers, AcceptSnapshot(w, t)
  PROVE  KeptInv'
<1>1. PICK x \in Sites, q \in TransferRow : x = WorkerSite[w] /\ q = row[x][t]
  BY JobFacts, HandoffsAreTransfers, RowFacts DEF AuthorityInv
<1>2. /\ TypesInv /\ t \in Transfers /\ q \in TransferRow /\ q.state = "snapshot-ready"
      /\ x = Target(t)
  BY <1>1, HandoffsAreTransfers, RowFacts, SourceTargetFields
     DEF AuthorityInv, AcceptSnapshot, MayTake
<1>3. PICK r : r = [q EXCEPT !.state = "target-restoring"]
  OBVIOUS
<1>4. row' = [row EXCEPT ![x][t] = r]
  BY <1>1, <1>2, <1>3 DEF AcceptSnapshot, TypesInv, TransferRow
<1>5. r.state = "target-restoring"
  BY <1>2, <1>3 DEF TransferRow
<1>6. OthersStay(x, t) /\ row'[x][t] = r
  <2>1. TypesInv /\ t \in Transfers
    BY <1>2
  <2> QED BY <1>4, <2>1, RowSet
<1>7. x # Source(t)
  BY <1>2, TwoEnds
<1>8. \A v \in Workers : WorkerSite[v] = x /\ job[v].t = t => job[v].at # "probing"
  BY <1>1, <1>2 DEF KeptInv, RestoresInv, Early
<1>9. Turns(x, t, q, r)
  BY <1>2, <1>5, <1>7, <1>8 DEF Turns, Holds, Early, Restored
<1>10. JobsGo /\ SameHoldings
  BY DEF AcceptSnapshot, SameHoldings, SameLine, SameSnapshots, siteVars, JobsGo
<1> QED BY <1>1, <1>6, <1>9, <1>10, TurnKeeps

(* The state and the snapshot of a row stay.                               *)
LEMMA SameTurns ==
  ASSUME NEW x, NEW t, NEW q, NEW r, r.state = q.state, r.snap = q.snap
  PROVE  Turns(x, t, q, r)
BY DEF Turns, Holds

LEMMA ResumeKeepsWrites ==
  ASSUME AuthorityInv, AuthorityInv', KeptInv, OnePass, NEW w \in Workers,
         NEW t \in DOMAIN transfers, ResumeSource(w, t)
  PROVE  KeptInv'
<1>1. PICK x \in Sites, q \in TransferRow : x = WorkerSite[w] /\ q = row[x][t]
  BY JobFacts, HandoffsAreTransfers, RowFacts DEF AuthorityInv
<1>2. TypesInv /\ t \in Transfers /\ q \in TransferRow
  BY <1>1, HandoffsAreTransfers, RowFacts DEF AuthorityInv
<1>3. PICK r : r = [q EXCEPT !.resumed = TRUE]
  OBVIOUS
<1>4. row' = [row EXCEPT ![x][t] = r]
  BY <1>1, <1>2, <1>3 DEF ResumeSource, TypesInv, TransferRow
<1>5. r.state = q.state /\ r.snap = q.snap
  BY <1>2, <1>3 DEF TransferRow
<1>6. OthersStay(x, t) /\ row'[x][t] = r
  <2>1. TypesInv /\ x \in Sites /\ t \in Transfers
    BY <1>2
  <2> QED BY <1>4, <2>1, RowSet
<1>7. JobsGo /\ SameHoldings
  BY DEF ResumeSource, SameHoldings, SameLine, SameSnapshots, JobsGo
<1> QED BY <1>1, <1>5, <1>6, <1>7, SameTurns, TurnKeeps

LEMMA EnsureKeepsWrites ==
  ASSUME AuthorityInv, AuthorityInv', KeptInv, OnePass, NEW w \in Workers,
         NEW t \in DOMAIN transfers, NEW op, EnsureEvent(w, t, op)
  PROVE  KeptInv'
<1>1. PICK x \in Sites, q \in TransferRow : x = WorkerSite[w] /\ q = row[x][t]
  BY JobFacts, HandoffsAreTransfers, RowFacts DEF AuthorityInv
<1>2. TypesInv /\ t \in Transfers /\ q \in TransferRow
  BY <1>1, HandoffsAreTransfers, RowFacts DEF AuthorityInv
<1>3. PICK r : r = [q EXCEPT !.sent = q.sent \cup {op}]
  OBVIOUS
<1>4. row' = [row EXCEPT ![x][t] = r]
  BY <1>1, <1>2, <1>3 DEF EnsureEvent, TypesInv, TransferRow
<1>5. r.state = q.state /\ r.snap = q.snap
  BY <1>2, <1>3 DEF TransferRow
<1>6. OthersStay(x, t) /\ row'[x][t] = r
  <2>1. TypesInv /\ x \in Sites /\ t \in Transfers
    BY <1>2
  <2> QED BY <1>4, <2>1, RowSet
<1>7. JobsGo /\ SameHoldings
  BY DEF EnsureEvent, SameHoldings, SameLine, SameSnapshots, JobsGo, siteVars
<1> QED BY <1>1, <1>5, <1>6, <1>7, SameTurns, TurnKeeps

LEMMA FailKeepsWrites ==
  ASSUME AuthorityInv, AuthorityInv', KeptInv, NEW x \in Sites, NEW t \in DOMAIN transfers,
         NEW resumed, NEW how, FailTransfer(x, t, resumed, how),
         x # Home /\ x = Target(t) => row[x][t].state \notin Restored, JobsGo, SameHoldings
  PROVE  KeptInv'
<1>1. PICK q : q = row[x][t]
  OBVIOUS
<1>2. TypesInv /\ t \in Transfers /\ q \in TransferRow
  BY <1>1, HandoffsAreTransfers, RowFacts DEF AuthorityInv
<1>3. PICK r : r = FailedRow(q, resumed)
  OBVIOUS
<1>4. row' = [row EXCEPT ![x][t] = r]
  BY <1>1, <1>2, <1>3 DEF FailTransfer, TypesInv, FailedRow
<1>5. OthersStay(x, t) /\ row'[x][t] = r
  BY <1>2, <1>4, RowSet
<1>6. Turns(x, t, q, r)
  <2>1. CASE Fails(q)
    <3>1. r.state = "failed"
      BY <1>2, <1>3, <2>1 DEF FailedRow, TransferRow
    <3> QED BY <1>1, <2>1, <3>1 DEF Turns, Holds, Fails, Early, Over, Restored
  <2>2. CASE ~ Fails(q)
    BY <1>3, <2>2, SameTurns DEF FailedRow
  <2> QED BY <2>1, <2>2
<1> QED BY <1>1, <1>5, <1>6, TurnKeeps

LEMMA CaptureFailsKeepsWrites ==
  ASSUME AuthorityInv, AuthorityInv', KeptInv, OnePass, NEW w \in Workers,
         NEW t \in DOMAIN transfers, NEW resumed, NEW how, CaptureFails(w, t, resumed, how)
  PROVE  KeptInv'
<1>1. PICK x \in Sites : x = WorkerSite[w] /\ JobSound(x, job[w]) /\ TypesInv
  BY JobFacts DEF AuthorityInv
<1>2. x = Source(t)
  <2>1. CASE MayTake(w, t, "source", {"source-capturing"})
    BY <1>1, <2>1, SourceTargetFields DEF MayTake
  <2>2. CASE job[w].t = t /\ job[w].at \in {"exported", "recorded"}
    BY <1>1, <2>2 DEF JobSound
  <2> QED BY <2>1, <2>2 DEF CaptureFails, CaptureRefused
<1>3. x # Target(t)
  BY <1>2 DEF AuthorityInv, TransfersInv
<1>4. JobsGo /\ SameHoldings
  <2>1. JobsGo
    BY <1>1, JobAfterEnds, JobsEndGo DEF CaptureFails
  <2> QED BY <2>1 DEF CaptureFails, SameHoldings, SameLine, SameSnapshots
<1>5. FailTransfer(x, t, resumed, how)
  BY <1>1 DEF CaptureFails
<1> QED BY <1>3, <1>4, <1>5, FailKeepsWrites

LEMMA RestoreFailsKeepsWrites ==
  ASSUME AuthorityInv, AuthorityInv', KeptInv, OnePass, NEW w \in Workers, NEW how,
         RestoreFails(w, how)
  PROVE  KeptInv'
<1>1. PICK x, t : /\ x = WorkerSite[w] /\ t = job[w].t /\ TypesInv /\ x \in Sites
                  /\ x # Home => JobHasRow(job[w], row[x][t].state)
  BY JobFacts DEF AuthorityInv
<1>2. t \in DOMAIN transfers /\ job[w].at \in {"restoring", "probing"}
  BY <1>1, JobsPlaced DEF RestoreFails
<1>3. x # Home => row[x][t].state \notin Restored
  BY <1>1, <1>2 DEF JobHasRow, Broken, Restored
<1>4. JobsGo /\ SameHoldings
  <2>1. JobsGo
    BY <1>1, JobAfterEnds, JobsEndGo DEF RestoreFails
  <2> QED BY <2>1 DEF RestoreFails, SameHoldings, SameLine, SameSnapshots
<1>5. FailTransfer(x, t, FALSE, how)
  BY <1>1 DEF RestoreFails
<1> QED BY <1>1, <1>2, <1>3, <1>4, <1>5, FailKeepsWrites

(* What a pass recorded is handed over, what it restored is ready.         *)
LEMMA SnapshotReadyKeepsWrites ==
  ASSUME AuthorityInv, AuthorityInv', KeptInv, OnePass, NEW w \in Workers, NEW how,
         SnapshotReady(w, how)
  PROVE  KeptInv'
<1>1. PICK x \in Sites, j \in Job : x = WorkerSite[w] /\ j = job[w]
  BY JobFacts
<1>2. PICK t, q : t = j.t /\ q = row[x][t]
  OBVIOUS
<1>3. /\ j.at = "recorded" /\ t \in DOMAIN transfers /\ x = Source(t) /\ t \in Transfers
      /\ q.state = "source-capturing" /\ q \in TransferRow /\ TypesInv
  <2>1. j.at = "recorded" /\ q.state = "source-capturing"
    BY <1>1, <1>2 DEF SnapshotReady
  <2>2. t \in DOMAIN transfers /\ x = Source(t)
    BY <1>1, <1>2, <2>1, JobsPlaced
  <2>3. t \in Transfers /\ TypesInv
    BY <2>2, HandoffsAreTransfers DEF AuthorityInv
  <2>4. q \in TransferRow
    BY <1>2, <2>3, RowFacts
  <2> QED BY <2>1, <2>2, <2>3, <2>4
<1>4. PICK r : r = [q EXCEPT !.state = "snapshot-ready", !.snap = j.snap,
                             !.sent = q.sent \cup Noted(how, "snapshot-ready")]
  OBVIOUS
<1>5. row' = [row EXCEPT ![x][t] = r]
  <2>1. row' = [row EXCEPT ![x][t].state = "snapshot-ready", ![x][t].snap = j.snap,
                           ![x][t].sent = q.sent \cup Noted(how, "snapshot-ready")]
    BY <1>1, <1>2 DEF SnapshotReady
  <2>2. row \in [Sites -> [Transfers -> TransferRow]]
    BY <1>3 DEF TypesInv
  <2>3. row[x] \in [Transfers -> TransferRow] /\ q = row[x][t]
    BY <1>2, <2>2
  <2> QED BY <1>3, <1>4, <2>1, <2>2, <2>3 DEF TransferRow
<1>6. r.state = "snapshot-ready" /\ r.snap = j.snap
  BY <1>3, <1>4 DEF TransferRow
<1>7. OthersStay(x, t) /\ row'[x][t] = r
  <2>1. TypesInv /\ x \in Sites /\ t \in Transfers
    BY <1>3
  <2> QED BY <1>5, <2>1, RowSet
<1>8. x # Target(t)
  BY <1>3 DEF AuthorityInv, TransfersInv
<1>9. ~ undone /\ r.snap = Top => 0..writes \subseteq snapshots[Top].data
  <2> SUFFICES ASSUME ~ undone, j.snap = Top
               PROVE  0..writes \subseteq snapshots[Top].data
    BY <1>6
  <2>1. JobHolds(x, j)
    BY <1>1 DEF KeptInv, HoldsInv
  <2> QED BY <1>3, <2>1 DEF JobHolds
<1>10. Turns(x, t, q, r)
  BY <1>3, <1>6, <1>8, <1>9 DEF Turns, Holds
<1>11. JobsGo /\ SameHoldings
  <2>1. JobsGo
    BY <1>1, <1>3, JobAfterEnds, JobsEndGo DEF SnapshotReady
  <2> QED BY <2>1 DEF SnapshotReady, SameHoldings, SameLine, SameSnapshots, siteVars
<1> QED BY <1>2, <1>3, <1>7, <1>10, <1>11, TurnKeeps

LEMMA TargetReadyKeepsWrites ==
  ASSUME AuthorityInv, AuthorityInv', KeptInv, OnePass, NEW w \in Workers, NEW how,
         TargetReady(w, how)
  PROVE  KeptInv'
<1>1. PICK x \in Sites, j \in Job : x = WorkerSite[w] /\ j = job[w]
  BY JobFacts
<1>2. PICK t, q : t = j.t /\ q = row[x][t]
  OBVIOUS
<1>3. /\ j.at = "probing" /\ t \in DOMAIN transfers /\ x = Target(t) /\ t \in Transfers
      /\ q.state = "target-restoring" /\ q \in TransferRow /\ TypesInv
      /\ j.snap = Expected(t) + 1
  <2>1. j.at = "probing" /\ q.state = "target-restoring"
    BY <1>1, <1>2 DEF TargetReady
  <2>2. t \in DOMAIN transfers /\ x = Target(t) /\ j.snap = Expected(t) + 1
    BY <1>1, <1>2, <2>1, JobsPlaced
  <2>3. t \in Transfers /\ TypesInv
    BY <2>2, HandoffsAreTransfers DEF AuthorityInv
  <2>4. q \in TransferRow
    BY <1>2, <2>3, RowFacts
  <2> QED BY <2>1, <2>2, <2>3, <2>4
<1>4. PICK r : r = [q EXCEPT !.state = "target-ready",
                             !.sent = q.sent \cup Noted(how, "target-ready")]
  OBVIOUS
<1>5. row' = [row EXCEPT ![x][t] = r]
  <2>1. row' = [row EXCEPT ![x][t].state = "target-ready",
                           ![x][t].sent = q.sent \cup Noted(how, "target-ready")]
    BY <1>1, <1>2 DEF TargetReady
  <2>2. row \in [Sites -> [Transfers -> TransferRow]]
    BY <1>3 DEF TypesInv
  <2>3. row[x] \in [Transfers -> TransferRow] /\ q = row[x][t]
    BY <1>2, <2>2
  <2> QED BY <1>3, <1>4, <2>1, <2>2, <2>3 DEF TransferRow
<1>6. r.state = "target-ready" /\ r.snap = q.snap
  BY <1>3, <1>4 DEF TransferRow
<1>7. OthersStay(x, t) /\ row'[x][t] = r
  <2>1. TypesInv /\ x \in Sites /\ t \in Transfers
    BY <1>3
  <2> QED BY <1>5, <2>1, RowSet
<1>8. x # Source(t)
  BY <1>3 DEF AuthorityInv, TransfersInv
<1>9. ~ undone => snapshots[r.snap].data \subseteq volume[x]
  <2> SUFFICES ASSUME ~ undone
               PROVE  snapshots[r.snap].data \subseteq volume[x]
    OBVIOUS
  <2>1. JobHolds(x, j)
    BY <1>1 DEF KeptInv, HoldsInv
  <2>2. snapshots[j.snap].data \subseteq volume[x]
    BY <1>2, <1>3, <2>1 DEF JobHolds
  <2>3. q.snap = Expected(t) + 1
    BY <1>2, <1>3, RowsPlaced DEF RowPlace, Over
  <2> QED BY <1>3, <1>6, <2>2, <2>3
<1>10. Turns(x, t, q, r)
  BY <1>3, <1>6, <1>8, <1>9 DEF Turns, Holds, Restored, Early
<1>11. JobsGo /\ SameHoldings
  <2>1. JobsGo
    BY <1>1, <1>3, JobAfterEnds, JobsEndGo DEF TargetReady
  <2> QED BY <2>1 DEF TargetReady, SameHoldings, SameLine, SameSnapshots
<1> QED BY <1>2, <1>3, <1>7, <1>10, <1>11, TurnKeeps

-----------------------------------------------------------------------------
(* Steps that leave the rows alone.                                        *)
LEMMA SameLineGrown ==
  ASSUME AuthorityInv, SameLine
  PROVE  Grown /\ Top' = Top /\ \A n \in 0..Top : AuthorityOf(n)' = AuthorityOf(n)
BY DEF AuthorityInv, TypesInv, SameLine, SameSnapshots, Grown, Top, AuthorityOf

(* Without the rows, a suitcase is in authority as before.                 *)
LEMMA RowsStayWriter ==
  ASSUME AuthorityInv, AuthorityInv', WriterInv, SameLine, row' = row
  PROVE  WriterInv'
<1>1. Grown /\ writer' = writer /\ transfers' = transfers
  BY SameLineGrown DEF SameLine, SameSnapshots
<1>2. \A s, u : Entitled(s, u) => Entitled(s, u)'
  BY <1>1 DEF Entitled
<1> QED BY <1>1, <1>2, WriterKept

LEMMA RowsStayKeep ==
  ASSUME AuthorityInv, AuthorityInv', KeptInv, SameLine, row' = row, undone => undone',
         writes' = writes, ~ undone' => \A x \in Sites : volume[x] \subseteq volume'[x],
         \A w \in Workers :
           \/ job'[w] \in {job[w], NoJob}
           \/ /\ job'[w].at \in {"restoring", "probing"} =>
                   row[WorkerSite[w]][job'[w].t].state \notin Early
              /\ ~ undone' => JobHolds(WorkerSite[w], job[w])'
  PROVE  KeptInv'
<1>1. Grown /\ writer' = writer /\ transfers' = transfers
  BY SameLineGrown DEF SameLine, SameSnapshots
<1>2. WriterInv'
  BY RowsStayWriter DEF KeptInv
<1>3. RestoresInv'
  BY RestoresKept DEF KeptInv
<1>4. ASSUME ~ undone'
      PROVE  HoldsInv'
  <2>1. HoldsInv /\ \A x \in Sites : volume[x] \subseteq volume'[x]
    BY <1>4 DEF KeptInv
  <2>2. writer[Home] \in Sites
    BY HomeIsSite DEF AuthorityInv, TypesInv
  <2>3. WritesHeld'
    BY <1>1, <2>1, <2>2 DEF HoldsInv, WritesHeld
  <2>4. \A u \in DOMAIN transfers' : u \in DOMAIN transfers
    BY <1>1
  <2>5. \A w \in Workers :
           \/ job'[w] = NoJob
           \/ /\ job'[w] = job[w]
              /\ job[w].at = "probing" =>
                   (row'[WorkerSite[w]][job[w].t].state = "target-restoring"
                      => row[WorkerSite[w]][job[w].t].state = "target-restoring")
           \/ JobHolds(WorkerSite[w], job[w])'
    BY <1>4
  <2> QED BY <1>1, <2>1, <2>3, <2>4, <2>5, HoldsKept
<1> QED BY <1>2, <1>3, <1>4 DEF KeptInv

(* What every pass does again, the supervisor and a crash.                 *)
LEMMA QuietKeepsWrites ==
  ASSUME AuthorityInv, AuthorityInv', KeptInv, SameLine, row' = row, volume' = volume,
         writes' = writes, undone' = undone, JobsGo
  PROVE  KeptInv'
BY RowsStayKeep DEF JobsGo

LEMMA RepeatsKeepsWrites ==
  ASSUME AuthorityInv, AuthorityInv', KeptInv, NEW w \in Workers, Repeats(w)
  PROVE  KeptInv'
<1>1. PICK t \in DOMAIN transfers : StopTarget(w, t) \/ ActivateTarget(w, t) \/ StopSource(w, t)
  BY DEF Repeats
<1>2. /\ SameLine /\ row' = row /\ job' = job
      /\ volume' = volume /\ writes' = writes /\ undone' = undone
  BY <1>1 DEF StopTarget, ActivateTarget, StopSource, durableVars, SameLine, SameSnapshots
<1>3. JobsGo
  BY <1>2 DEF JobsGo
<1> QED BY <1>2, <1>3, QuietKeepsWrites

LEMMA SupervisorKeepsWrites ==
  ASSUME AuthorityInv, AuthorityInv', KeptInv, NEW s \in Suitcases, SupervisorStarts(s)
  PROVE  KeptInv'
<1>1. /\ SameLine /\ row' = row /\ JobsGo
      /\ volume' = volume /\ writes' = writes /\ undone' = undone
  BY DEF SupervisorStarts, durableVars, SameLine, SameSnapshots, JobsGo
<1> QED BY <1>1, QuietKeepsWrites

LEMMA CrashKeepsWrites ==
  ASSUME AuthorityInv, AuthorityInv', KeptInv, NEW x \in Sites, Crash(x)
  PROVE  KeptInv'
<1>1. /\ SameLine /\ row' = row
      /\ volume' = volume /\ writes' = writes /\ undone' = undone
  BY DEF Crash, durableVars, siteVars, SameLine, SameSnapshots
<1>2. JobsGo
  BY DEF Crash, Idle, JobsGo
<1> QED BY <1>1, <1>2, QuietKeepsWrites

LEMMA StutterKeepsWrites ==
  ASSUME AuthorityInv, AuthorityInv', KeptInv, UNCHANGED authorityVars
  PROVE  KeptInv'
<1>1. /\ SameLine /\ row' = row /\ JobsGo
      /\ volume' = volume /\ writes' = writes /\ undone' = undone
  BY DEF authorityVars, durableVars, siteVars, SameLine, SameSnapshots, JobsGo
<1> QED BY <1>1, QuietKeepsWrites

LEMMA BeginRestoreKeepsWrites ==
  ASSUME AuthorityInv, AuthorityInv', KeptInv, NEW w \in Workers, NEW t \in DOMAIN transfers,
         BeginRestore(w, t)
  PROVE  KeptInv'
<1>1. /\ SameLine /\ row' = row
      /\ volume' = volume /\ writes' = writes /\ undone' = undone
  BY DEF BeginRestore, durableVars, siteVars, SameLine, SameSnapshots
<1>2. PICK j : j = [NoJob EXCEPT !.at = "restoring", !.t = t,
                                 !.snap = row[WorkerSite[w]][t].snap]
  OBVIOUS
<1>3. j.at = "restoring" /\ j.t = t
  BY <1>2 DEF NoJob
<1>4. row[WorkerSite[w]][t].state = "target-restoring" /\ job' = [job EXCEPT ![w] = j]
  BY <1>2 DEF BeginRestore, MayTake
<1>5. job'[w] = j /\ \A v \in Workers : v # w => job'[v] = job[v]
  BY <1>4 DEF AuthorityInv, TypesInv
<1>6. JobHolds(WorkerSite[w], job[w])'
  BY <1>3, <1>5 DEF JobHolds
<1>7. ASSUME NEW v \in Workers
      PROVE  \/ job'[v] \in {job[v], NoJob}
             \/ /\ job'[v].at \in {"restoring", "probing"} =>
                     row[WorkerSite[v]][job'[v].t].state \notin Early
                /\ ~ undone' => JobHolds(WorkerSite[v], job[v])'
  BY <1>3, <1>4, <1>5, <1>6 DEF Early
<1> QED BY <1>1, <1>7, RowsStayKeep

LEMMA BeginCaptureKeepsWrites ==
  ASSUME AuthorityInv, AuthorityInv', KeptInv, NEW w \in Workers, NEW t \in DOMAIN transfers,
         BeginCapture(w, t)
  PROVE  KeptInv'
<1>1. PICK x \in Sites : x = WorkerSite[w]
  BY JobFacts
<1>2. PICK k : k = Latest(x)
  OBVIOUS
<1>3. SameLine /\ row' = row /\ volume' = volume /\ writes' = writes
  BY DEF BeginCapture, durableVars, SameLine, SameSnapshots
<1>4. Top' = Top /\ AuthorityOf(Top)' = AuthorityOf(Top) /\ snapshots' = snapshots
      /\ writer[Home] = AuthorityOf(Top) /\ Top \in Nat
      /\ (~ undone => 0..writes \subseteq volume[writer[Home]])
  <2>1. ~ undone => WritesHeld
    BY DEF KeptInv, HoldsInv
  <2>2. Top' = Top /\ snapshots' = snapshots
    BY <1>3, SameLineGrown DEF SameLine, SameSnapshots
  <2> QED BY <2>1, <2>2, TopIsOfTheWriter DEF WritesHeld, AuthorityOf
<1>5. CASE /\ Reusable(x, t)
           /\ job' = [job EXCEPT ![w] = [NoJob EXCEPT !.at = "recorded", !.t = t, !.snap = k]]
           /\ undone' = (undone \/ volume[x] # snapshots[k].data)
  <2>1. PICK j : j = [NoJob EXCEPT !.at = "recorded", !.t = t, !.snap = k]
    OBVIOUS
  <2>2. j.at = "recorded" /\ j.snap = k
    BY <2>1 DEF NoJob
  <2>3. job'[w] = j /\ \A v \in Workers : v # w => job'[v] = job[v]
    BY <1>5, <2>1 DEF AuthorityInv, TypesInv
  <2>4. AuthorityOf(k) = x
    BY <1>2, <1>5 DEF Reusable, AuthorityOf
  <2>5. ASSUME ~ undone', k = Top
        PROVE  0..writes \subseteq snapshots[Top].data
    BY <1>4, <1>5, <2>4, <2>5
  <2>6. ~ undone' => JobHolds(WorkerSite[w], job[w])'
    BY <1>3, <1>4, <2>2, <2>3, <2>5 DEF JobHolds
  <2>7. ASSUME NEW v \in Workers
        PROVE  \/ job'[v] \in {job[v], NoJob}
               \/ /\ job'[v].at \in {"restoring", "probing"} =>
                       row[WorkerSite[v]][job'[v].t].state \notin Early
                  /\ ~ undone' => JobHolds(WorkerSite[v], job[v])'
    BY <2>2, <2>3, <2>6
  <2> QED BY <1>3, <1>5, <2>7, RowsStayKeep
<1>6. CASE /\ undone' = undone
           /\ job' = [job EXCEPT ![w] = [at |-> "exported", t |-> t, snap |-> k,
                                         data |-> volume[x]]]
  <2>1. PICK j : j = [at |-> "exported", t |-> t, snap |-> k, data |-> volume[x]]
    OBVIOUS
  <2>2. j.at = "exported" /\ j.snap = k /\ j.data = volume[x]
    BY <2>1
  <2>3. job'[w] = j /\ \A v \in Workers : v # w => job'[v] = job[v]
    BY <1>6, <2>1 DEF AuthorityInv, TypesInv
  <2>4. JobSound(WorkerSite[w], job[w])'
    BY DEF AuthorityInv, JobsInv
  <2>5. Latest(x)' = k => AuthorityOf(Top)' = x
    BY <1>1, <2>2, <2>3, <2>4 DEF JobSound
  <2>6. ~ undone' => JobHolds(WorkerSite[w], job[w])'
    BY <1>1, <1>3, <1>4, <1>6, <2>2, <2>3, <2>5 DEF JobHolds
  <2>7. ASSUME NEW v \in Workers
        PROVE  \/ job'[v] \in {job[v], NoJob}
               \/ /\ job'[v].at \in {"restoring", "probing"} =>
                       row[WorkerSite[v]][job'[v].t].state \notin Early
                  /\ ~ undone' => JobHolds(WorkerSite[v], job[v])'
    BY <2>2, <2>3, <2>6
  <2> QED BY <1>3, <1>6, <2>7, RowsStayKeep
<1> QED BY <1>1, <1>2, <1>5, <1>6 DEF BeginCapture

(* A scheduled restore of the writer takes nothing back unless it is noted. *)
LEMMA MaterialiseKeepsWrites ==
  ASSUME AuthorityInv, AuthorityInv', KeptInv, NEW s \in Suitcases, Materialise(s)
  PROVE  KeptInv'
<1>1. /\ SameLine /\ row' = row /\ writes' = writes /\ job' = job
      /\ undone => undone'
  BY DEF Materialise, durableVars, SameLine, SameSnapshots
<1>2. ASSUME ~ undone', NEW x \in Sites
      PROVE  volume[x] \subseteq volume'[x]
  <2>1. volume \in [Sites -> SUBSET Writes] /\ s \in Sites
    BY HomeIsSite DEF AuthorityInv, TypesInv
  <2>2. CASE volume' = volume
    BY <2>2
  <2>3. CASE volume' = [volume EXCEPT ![s] = snapshots[Latest(s)].data] /\ volume' # volume
    <3>1. volume[s] \subseteq snapshots[Latest(s)].data
      BY <1>2, <2>3 DEF Materialise, TakesBack
    <3> QED BY <2>1, <2>3, <3>1
  <2> QED BY <2>2, <2>3 DEF Materialise
<1> QED BY <1>1, <1>2, RowsStayKeep

(* The application writes: nothing that stands for the volume of the       *)
(* writer is left open, as its graph would be stopped then.                *)
LEMMA WriteKeepsWrites ==
  ASSUME AuthorityInv, AuthorityInv', KeptInv, NEW x \in Sites, Write(x)
  PROVE  KeptInv'
<1>1. /\ SameLine /\ row' = row /\ job' = job /\ undone' = undone /\ writes' = writes + 1
      /\ x = writer[Home] /\ Rightful(x)
  BY DEF Write, Rightful, durableVars, SameLine, SameSnapshots
<1>2. /\ Grown /\ transfers' = transfers /\ writer' = writer /\ snapshots' = snapshots
      /\ Top' = Top /\ AuthorityOf(Top) = x /\ writes \in Nat /\ TypesInv
  BY <1>1, SameLineGrown, TopIsOfTheWriter DEF SameLine, SameSnapshots, AuthorityInv, TypesInv
<1>3. /\ volume'[x] = volume[x] \cup {writes + 1}
      /\ \A y \in Sites : volume[y] \subseteq volume'[y]
  BY <1>1, <1>2 DEF Write, TypesInv
<1>4. WriterInv' /\ RestoresInv'
  BY <1>1, <1>2, RowsStayWriter, RestoresKept DEF KeptInv
<1>5. ASSUME ~ undone
      PROVE  HoldsInv'
  <2>0. HoldsInv
    BY <1>5 DEF KeptInv
  <2>1. WritesHeld'
    <3>1. 0..writes \subseteq volume[x]
      BY <1>1, <2>0 DEF HoldsInv, WritesHeld
    <3>2. 0..(writes + 1) \subseteq volume[x] \cup {writes + 1}
      BY <1>2, <3>1
    <3> QED BY <1>1, <1>2, <1>3, <3>2 DEF WritesHeld
  <2>2. ASSUME NEW u \in DOMAIN transfers'
        PROVE  HandedHolds(u)' /\ TargetHolds(u)'
    <3>0. PICK y \in Sites, z \in Sites :
            /\ y = Source(u) /\ z = Target(u) /\ u \in DOMAIN transfers /\ u \in Transfers
            /\ Source(u)' = y /\ Target(u)' = z
      BY <1>2, TypeFacts, HandoffsAreTransfers DEF Source, Target
    <3>1. ASSUME row[y][u].state \in Over, row[y][u].snap = Top
          PROVE  FALSE
      <4>1. RowSound(y, u, row[y][u])
        BY <3>0 DEF AuthorityInv, RowsInv
      <4>2. AuthorityOf(Top) = y
        BY <3>0, <3>1, <4>1 DEF RowSound, Handed, Over
      <4>3. row[x][u].state \notin Active \ {"requested", "source-capturing"}
        BY <1>1, <1>2, <3>0, <4>2 DEF Rightful, Source
      <4> QED BY <1>2, <3>1, <4>2, <4>3 DEF Active, Over
    <3>2. HandedHolds(u)'
      BY <1>1, <1>2, <3>0, <3>1 DEF HandedHolds
    <3>3. TargetHolds(u)
      BY <2>0, <3>0 DEF HoldsInv
    <3>4. TargetHolds(u)'
      BY <1>1, <1>2, <1>3, <3>0, <3>3 DEF TargetHolds
    <3> QED BY <3>2, <3>4
  <2>3. ASSUME NEW w \in Workers
        PROVE  JobHolds(WorkerSite[w], job[w])'
    <3>1. PICK y \in Sites, j \in Job : y = WorkerSite[w] /\ j = job[w]
      BY JobFacts
    <3>2. /\ JobSound(y, j) /\ JobHolds(y, j)
          /\ y = x => j.at \notin {"exported", "recorded"}
      BY <1>1, <2>0, <3>1, JobFacts DEF HoldsInv, Rightful
    <3>3. Latest(y)' = Latest(y)
      BY <1>1 DEF SameLine, SameSnapshots, Latest
    <3>4. ~ (j.at = "recorded" /\ j.snap = Top)
      BY <1>2, <3>2 DEF JobSound, Handed
    <3>5. ~ (j.at = "exported" /\ Latest(y) = j.snap)
      BY <1>2, <3>2 DEF JobSound
    <3>6. j.at = "probing" /\ row[y][j.t].state = "target-restoring" =>
            snapshots[j.snap].data \subseteq volume'[y]
      BY <1>3, <3>2 DEF JobHolds
    <3>7. job'[w] = j
      BY <1>1, <3>1
    <3> QED BY <1>1, <1>2, <3>1, <3>3, <3>4, <3>5, <3>6, <3>7 DEF JobHolds
  <2> QED BY <2>1, <2>2, <2>3 DEF HoldsInv
<1> QED BY <1>1, <1>4, <1>5 DEF KeptInv

(* A restore at the writer that is not noted takes nothing from it, and    *)
(* none meets another handoff that has come as far at its site.            *)
LEMMA RestoreVolumeKeepsWrites ==
  ASSUME AuthorityInv, AuthorityInv', KeptInv, NEW w \in Workers, RestoreVolume(w)
  PROVE  KeptInv'
<1>1. PICK x \in Sites, q \in Job : x = WorkerSite[w] /\ q = job[w]
  BY JobFacts
<1>2. PICK D : D = snapshots[q.snap].data
  OBVIOUS
<1>3. /\ SameLine /\ row' = row /\ writes' = writes /\ q.at = "restoring"
      /\ job' = [job EXCEPT ![w].at = "probing"] /\ volume' = [volume EXCEPT ![x] = D]
      /\ undone' = (undone \/ TakesBack(x, q.snap) \/ Overtaken(w))
  BY <1>1, <1>2 DEF RestoreVolume, durableVars, SameLine, SameSnapshots
<1>4. /\ Grown /\ transfers' = transfers /\ writer' = writer /\ snapshots' = snapshots
      /\ Top' = Top /\ TypesInv
  BY <1>3, SameLineGrown DEF SameLine, SameSnapshots, AuthorityInv
<1>5. /\ job'[w].at = "probing" /\ job'[w].t = q.t /\ job'[w].snap = q.snap
      /\ \A v \in Workers : v # w => job'[v] = job[v]
      /\ volume'[x] = D /\ \A y \in Sites : y # x => volume'[y] = volume[y]
  <2>1. job \in [Workers -> Job] /\ volume \in [Sites -> SUBSET Writes]
    BY <1>4 DEF TypesInv
  <2> QED BY <1>1, <1>3, <2>1 DEF Job
<1>6. /\ q.t \in DOMAIN transfers /\ Target(q.t) = x /\ q.snap = Expected(q.t) + 1
      /\ q.t \in Transfers /\ q.snap \in 1..Top
  BY <1>1, <1>3, JobsPlaced, HandoffsAreTransfers
<1>7. WriterInv'
  BY <1>3, RowsStayWriter DEF KeptInv
<1>8. RestoresInv'
  <2>1. row[x][q.t].state \notin Early
    BY <1>1, <1>3 DEF KeptInv, RestoresInv
  <2>2. \A v \in Workers :
           \/ job'[v] \in {job[v], NoJob}
           \/ job'[v].at \in {"restoring", "probing"} =>
                row'[WorkerSite[v]][job'[v].t].state \notin Early
    BY <1>1, <1>3, <1>5, <2>1
  <2> QED BY <1>3, <2>2, RestoresKept DEF KeptInv
<1>9. ASSUME ~ undone'
      PROVE  HoldsInv'
  <2>0. HoldsInv /\ ~ TakesBack(x, q.snap) /\ ~ Overtaken(w)
    BY <1>3, <1>9 DEF KeptInv
  <2>1. ASSUME NEW u \in DOMAIN transfers, Target(u) = x,
               row[x][u].state \in {"target-restoring", "target-ready"}
        PROVE  u = q.t
    <3>1. u \in ActiveRows(x)
      BY <2>1, HandoffsAreTransfers DEF ActiveRows, Active
    <3> QED BY <1>1, <2>0, <2>1, <3>1 DEF Overtaken, Target
  <2>2. writer[Home] = x => volume[x] \subseteq D
    <3> SUFFICES ASSUME writer[Home] = x, ~ volume[x] \subseteq D
                 PROVE  FALSE
      OBVIOUS
    <3>1. writer[x] # x
      BY <1>2, <2>0 DEF TakesBack
    <3>2. x \in Suitcases /\ x # Home
      BY <3>1, HomeIsSite DEF Sites
    <3>3. PICK t \in DOMAIN transfers : LastCommit(t) /\ Target(t) = x /\ Entitled(x, t)
      BY <3>2 DEF KeptInv, WriterInv
    <3>4. row[x][t].state = "target-ready"
      BY <3>1, <3>3 DEF Entitled, Restored
    <3>5. t = q.t
      BY <2>1, <3>3, <3>4
    <3>6. JobHasRow(q, row[x][q.t].state)
      BY <1>1, <3>2, JobFacts
    <3> QED BY <1>3, <3>4, <3>5, <3>6 DEF JobHasRow, Broken
  <2>3. WritesHeld'
    <3>1. PICK y \in Sites : y = writer[Home]
      BY HomeIsSite, <1>4 DEF TypesInv
    <3>2. 0..writes \subseteq volume[y]
      BY <2>0, <3>1 DEF HoldsInv, WritesHeld
    <3>3. 0..writes \subseteq volume'[y]
      BY <1>5, <2>2, <3>1, <3>2
    <3> QED BY <1>3, <1>4, <3>1, <3>3 DEF WritesHeld
  <2>4. ASSUME NEW u \in DOMAIN transfers'
        PROVE  HandedHolds(u)' /\ TargetHolds(u)'
    <3>0. PICK y \in Sites, z \in Sites :
            /\ y = Source(u) /\ z = Target(u) /\ u \in DOMAIN transfers
            /\ Source(u)' = y /\ Target(u)' = z /\ HandedHolds(u) /\ TargetHolds(u)
      BY <1>4, <2>0, TypeFacts DEF Source, Target, HoldsInv
    <3>1. HandedHolds(u)'
      BY <1>3, <1>4, <3>0 DEF HandedHolds
    <3>2. row[z][u].state = "target-ready" => snapshots[row[z][u].snap].data \subseteq volume'[z]
      <4> SUFFICES ASSUME row[z][u].state = "target-ready"
                   PROVE  snapshots[row[z][u].snap].data \subseteq volume'[z]
        OBVIOUS
      <4>1. CASE z # x
        BY <1>5, <3>0, <4>1 DEF TargetHolds
      <4>2. CASE z = x
        <5>1. u = q.t
          BY <2>1, <3>0, <4>2
        <5>2. row[z][u].snap = q.snap
          BY <1>6, <3>0, <5>1, RowsPlaced DEF RowPlace, Over
        <5> QED BY <1>2, <1>5, <4>2, <5>2
      <4> QED BY <4>1, <4>2
    <3>3. TargetHolds(u)'
      BY <1>3, <1>4, <3>0, <3>2 DEF TargetHolds
    <3> QED BY <3>1, <3>3
  <2>5. ASSUME NEW v \in Workers
        PROVE  JobHolds(WorkerSite[v], job[v])'
    <3>1. CASE v = w
      BY <1>1, <1>2, <1>4, <1>5, <3>1 DEF JobHolds
    <3>2. CASE v # w
      <4>1. PICK y \in Sites, j \in Job : y = WorkerSite[v] /\ j = job[v] /\ job'[v] = j
        BY <1>5, <3>2, JobFacts
      <4>2. JobHolds(y, j) /\ Latest(y)' = Latest(y)
        BY <1>3, <2>0, <4>1 DEF HoldsInv, SameLine, SameSnapshots, Latest
      <4>3. j.at = "probing" /\ row[y][j.t].state = "target-restoring" =>
              snapshots[j.snap].data \subseteq volume'[y]
        <5> SUFFICES ASSUME j.at = "probing", row[y][j.t].state = "target-restoring"
                     PROVE  snapshots[j.snap].data \subseteq volume'[y]
          OBVIOUS
        <5>1. CASE y # x
          BY <1>5, <4>2, <5>1 DEF JobHolds
        <5>2. CASE y = x
          <6>1. /\ j.t \in DOMAIN transfers /\ Target(j.t) = x
                /\ j.snap = Expected(j.t) + 1
            BY <4>1, <5>2, JobsPlaced
          <6>2. j.t = q.t
            BY <2>1, <5>2, <6>1
          <6> QED BY <1>2, <1>5, <1>6, <5>2, <6>1, <6>2
        <5> QED BY <5>1, <5>2
      <4> QED BY <1>3, <1>4, <4>1, <4>2, <4>3 DEF JobHolds
    <3> QED BY <3>1, <3>2
  <2> QED BY <2>3, <2>4, <2>5 DEF HoldsInv
<1> QED BY <1>7, <1>8, <1>9 DEF KeptInv

-----------------------------------------------------------------------------
(* A capture of the writer.                                                *)
RecordsAll(w, m) == job'[w].at = "recorded" /\ (~ undone => 0..writes \subseteq m.data)

LEMMA CapturedKeepsWrites ==
  ASSUME AuthorityInv, AuthorityInv', KeptInv, NEW x \in Sites, NEW m, NEW p, Extends(m),
         m.authority = x, Made(x, m, p),
         UNCHANGED <<transfers, row, writer, volume, writes, undone>>,
         \A w \in Workers : job'[w] \in {job[w], NoJob} \/ RecordsAll(w, m)
  PROVE  KeptInv'
<1>1. /\ transfers' = transfers /\ row' = row /\ writer' = writer /\ volume' = volume
      /\ writes' = writes /\ undone' = undone /\ TypesInv /\ LineInv
  BY DEF AuthorityInv
<1>2. /\ Top \in Nat /\ Top' = Top + 1 /\ snapshots'[Top'] = m
      /\ \A n \in 1..Top : snapshots'[n] = snapshots[n]
      /\ \A y \in Sites : known[y] \subseteq known'[y]
  <2>1. p = Top + 1
    BY DEF Made
  <2> QED BY <1>1, <2>1, LineExtended
<1>3. Grown
  BY <1>1, <1>2 DEF Grown, Top, TypesInv
<1>4. \A s, u : Entitled(s, u) => Entitled(s, u)'
  BY <1>1 DEF Entitled
<1>5. WriterInv' /\ RestoresInv'
  <2>1. WriterInv'
    BY <1>1, <1>3, <1>4, WriterKept DEF KeptInv
  <2>2. \A w \in Workers : job'[w] \in {job[w], NoJob} \/ job'[w].at = "recorded"
    BY DEF RecordsAll
  <2> QED BY <1>1, <2>1, <2>2, RestoresKept DEF KeptInv
<1>6. ASSUME ~ undone
      PROVE  HoldsInv'
  <2>1. HoldsInv
    BY <1>6 DEF KeptInv
  <2>2. WritesHeld'
    BY <1>1, <2>1 DEF HoldsInv, WritesHeld
  <2>3. ASSUME NEW w \in Workers, RecordsAll(w, m)
        PROVE  JobHolds(WorkerSite[w], job[w])'
    BY <1>1, <1>2, <1>6, <2>3 DEF JobHolds, RecordsAll
  <2>4. ASSUME NEW w \in Workers
        PROVE  \/ job'[w] = NoJob
               \/ /\ job'[w] = job[w]
                  /\ job[w].at = "probing" =>
                       (row'[WorkerSite[w]][job[w].t].state = "target-restoring"
                          => row[WorkerSite[w]][job[w].t].state = "target-restoring")
               \/ JobHolds(WorkerSite[w], job[w])'
    BY <1>1, <2>3
  <2> QED BY <1>1, <1>3, <2>1, <2>2, <2>4, HoldsKept
<1> QED BY <1>1, <1>5, <1>6 DEF KeptInv

LEMMA RecordKeepsWrites ==
  ASSUME AuthorityInv, AuthorityInv', KeptInv, NEW w \in Workers, NEW how,
         RecordSnapshot(w, how)
  PROVE  KeptInv'
<1>1. PICK x \in Sites, j \in Job : x = WorkerSite[w] /\ j = job[w]
  BY JobFacts
<1>2. PICK p : p = Len(snapshots) + 1
  OBVIOUS
<1>3. /\ TypesInv /\ LineInv /\ JobSound(x, j) /\ j.at = "exported"
      /\ Top \in Nat /\ p = Top + 1 /\ Latest(x) \in 0..Top
  BY <1>1, <1>2, JobFacts, TypeFacts, LatestFacts DEF AuthorityInv, RecordSnapshot, Top
<1>4. j.snap = Latest(x)
  <2>1. Recordable(x, Manifest(x, j.snap, j.data), p, FALSE)
    BY <1>1, <1>2 DEF RecordSnapshot
  <2>2. Manifest(x, j.snap, j.data).parent = j.snap
    BY DEF Manifest
  <2> QED BY <1>3, <2>1, <2>2 DEF Recordable
<1>5. j.snap = Top /\ AuthorityOf(Top) = x
  BY <1>3, <1>4 DEF JobSound
<1>6. PICK m : m = Manifest(x, Top, j.data)
  OBVIOUS
<1>7. Extends(m) /\ m.authority = x /\ m.data = j.data
  <2>1. j.data \in SUBSET Writes
    BY DEF Job
  <2> QED BY <1>5, <1>6, <2>1, ManifestExtends DEF Manifest
<1>8. Made(x, m, p)
  BY <1>1, <1>2, <1>3, <1>5, <1>6 DEF RecordSnapshot, Made
<1>9. ~ undone => 0..writes \subseteq m.data
  <2>1. ~ undone => JobHolds(x, j)
    BY <1>1 DEF KeptInv, HoldsInv
  <2> QED BY <1>3, <1>4, <1>7, <2>1 DEF JobHolds
<1>10. PICK r : r = [NoJob EXCEPT !.at = "recorded", !.t = j.t, !.snap = p]
  OBVIOUS
<1>11. r.at = "recorded" /\ JobAfter(w, how, r)
  BY <1>1, <1>2, <1>10 DEF NoJob, RecordSnapshot
<1>12. \A v \in Workers : job'[v] \in {job[v], NoJob} \/ RecordsAll(v, m)
  <2>1. CASE how = "done"
    <3>1. job \in [Workers -> Job] /\ job' = [job EXCEPT ![w] = r]
      BY <1>3, <1>11, <2>1 DEF TypesInv, JobAfter
    <3>2. job'[w] = r /\ \A v \in Workers : v # w => job'[v] = job[v]
      BY <3>1
    <3>3. RecordsAll(w, m)
      BY <1>9, <1>11, <3>2 DEF RecordsAll
    <3> QED BY <3>2, <3>3
  <2>2. CASE how # "done"
    BY <1>11, <2>2 DEF JobAfter, Idle
  <2> QED BY <2>1, <2>2
<1>13. UNCHANGED <<transfers, row, writer, volume, writes, undone>>
  BY DEF RecordSnapshot, siteVars
<1> QED BY <1>7, <1>8, <1>12, <1>13, CapturedKeepsWrites

LEMMA ScheduledKeepsWrites ==
  ASSUME AuthorityInv, AuthorityInv', KeptInv, NEW s \in Suitcases, NEW how,
         ScheduledCapture(s, how)
  PROVE  KeptInv'
<1>1. PICK p : p = Len(snapshots) + 1
  OBVIOUS
<1>2. /\ TypesInv /\ LineInv /\ s \in Sites /\ s # Home /\ Top \in Nat /\ p = Top + 1
      /\ Latest(s) # 0 /\ AuthorityOf(Latest(s)) = s
  BY <1>1, HomeIsSite, TypeFacts, AuthoritySiteFacts DEF AuthorityInv, ScheduledCapture, Top
<1>3. ASSUME NEW u \in DOMAIN transfers
      PROVE  row[s][u].state \notin Active
  <2>1. u \in Transfers
    BY HandoffsAreTransfers
  <2> QED BY <2>1 DEF ScheduledCapture, ActiveRows
<1>4. Latest(s) = Top
  BY <1>2, <1>3, OwnerHasTheNewest DEF Over, Active
<1>5. PICK m : m = Manifest(s, Top, volume[s])
  OBVIOUS
<1>6. Extends(m) /\ m.authority = s
  <2>1. volume[s] \in SUBSET Writes
    BY <1>2 DEF TypesInv
  <2> QED BY <1>2, <1>4, <1>5, <2>1, ManifestExtends
<1>7. Made(s, m, p)
  BY <1>1, <1>2, <1>4, <1>5 DEF ScheduledCapture, Made
<1>8. \A v \in Workers : job'[v] \in {job[v], NoJob}
  BY DEF ScheduledCapture, Idle
<1>9. UNCHANGED <<transfers, row, writer, volume, writes, undone>>
  BY DEF ScheduledCapture
<1> QED BY <1>2, <1>6, <1>7, <1>8, <1>9, CapturedKeepsWrites

-----------------------------------------------------------------------------
(* Home commits: the newest snapshot holds every write, and the target     *)
(* has it in place.                                                        *)
LEMMA RestoredAtCommit ==
  ASSUME AuthorityInv, NEW t \in DOMAIN transfers, row[Home][t].state = "target-ready",
         MayCommit(t)
  PROVE  /\ row[Source(t)][t].state \in Over /\ row[Source(t)][t].snap = Top
         /\ row[Target(t)][t].state = "target-ready" /\ row[Target(t)][t].snap = Top
<1>1. PICK y \in Sites, z \in Sites : y = Source(t) /\ z = Target(t)
  BY TypeFacts DEF AuthorityInv
<1>2. /\ Top = Expected(t) + 1 /\ Top \in Nat /\ HandoffAt(t) /\ row[Home][t].snap # 0
  BY CommitsTheNewest, RowsPlaced
<1>3. ASSUME NEW x \in Sites, row[x][t].state = "committed"
      PROVE  FALSE
  <2>1. RowSound(x, t, row[x][t])
    BY HandoffsAreTransfers DEF AuthorityInv, RowsInv
  <2>2. row[x][t].snap = Top + 1 /\ row[x][t].snap \in 0..Top
    BY <1>2, <1>3, <2>1, RowsPlaced, TypeFacts DEF RowSound, RowPlace, AuthorityInv
  <2> QED BY <1>2, <2>2
<1>4. row[y][t].state \in Over
  <2>1. CASE y = Home
    BY <2>1 DEF Over
  <2>2. CASE y # Home
    BY <1>1, <1>2, <1>3, <2>2 DEF HandoffAt
  <2> QED BY <2>1, <2>2
<1>5. row[z][t].state = "target-ready"
  <2>1. CASE z # Home
    BY <1>1, <1>2, <1>3, <2>1 DEF HandoffAt, Restored
  <2> QED BY <2>1
<1> QED BY <1>1, <1>2, <1>4, <1>5, RowsPlaced DEF RowPlace, Over

LEMMA CommittedKeepsWrites ==
  ASSUME AuthorityInv, AuthorityInv', KeptInv, NEW t \in DOMAIN transfers,
         row[Home][t].state = "target-ready", MayCommit(t), NEW m, NEW p, NEW r,
         Extends(m), Made(Home, m, p), r.state = "committed", row' = [row EXCEPT ![Home][t] = r],
         writer' = [writer EXCEPT ![Home] = Target(t)],
         UNCHANGED <<transfers, volume, writes, undone>>, JobsGo
  PROVE  KeptInv'
<1>1. /\ transfers' = transfers /\ volume' = volume /\ writes' = writes /\ undone' = undone
      /\ TypesInv /\ LineInv /\ Home \in Sites /\ t \in Transfers
      /\ DOMAIN transfers \subseteq Transfers
  BY HomeIsSite, HandoffsAreTransfers DEF AuthorityInv
<1>2. /\ row[Source(t)][t].state \in Over /\ row[Source(t)][t].snap = Top
      /\ row[Target(t)][t].state = "target-ready" /\ row[Target(t)][t].snap = Top
      /\ t = Len(transfers)
  BY RestoredAtCommit, CommitsTheNewest
<1>3. Grown
  <2>1. p = Top + 1
    BY DEF Made
  <2>2. /\ Top \in Nat /\ Top' = Top + 1 /\ \A n \in 1..Top : snapshots'[n] = snapshots[n]
        /\ \A y \in Sites : known[y] \subseteq known'[y]
    BY <1>1, <2>1, LineExtended
  <2> QED BY <1>1, <2>2 DEF Grown, Top, TypesInv
<1>4. /\ row'[Home][t].state = "committed" /\ writer'[Home] = Target(t)
      /\ \A y \in Sites, u \in DOMAIN transfers : y # Home \/ u # t => row'[y][u] = row[y][u]
  <2>1. OthersStay(Home, t) /\ row'[Home][t] = r
    BY <1>1, RowSet
  <2>2. writer'[Home] = Target(t)
    BY <1>1 DEF TypesInv
  <2> QED BY <1>1, <2>1, <2>2 DEF OthersStay
<1>5. WriterInv'
  <2> SUFFICES ASSUME NEW s \in Suitcases, Target(t) = s
               PROVE  LastCommit(t)' /\ Target(t)' = s /\ Entitled(s, t)'
    BY <1>1, <1>4 DEF WriterInv
  <2>1. s \in Sites /\ s # Home /\ Target(t)' = s
    BY <1>1, HomeIsSite DEF Target
  <2>2. row'[s][t].state = "target-ready"
    BY <1>2, <1>4, <2>1
  <2>3. \A u \in DOMAIN transfers' : ~ (t < u)
    BY <1>1, <1>2, TypeFacts
  <2> QED BY <1>4, <2>1, <2>2, <2>3 DEF LastCommit, Entitled, Restored
<1>6. \A u \in DOMAIN transfers : Source(u) \in Sites /\ Target(u) \in Sites
  BY <1>1, TypeFacts
<1>7. RestoresInv'
  <2>1. \A u \in DOMAIN transfers :
          row[Target(u)][u].state \notin Early => row'[Target(u)][u].state \notin Early
    BY <1>4, <1>6 DEF Early
  <2> QED BY <2>1, RestoresKept DEF KeptInv, JobsGo
<1>8. ASSUME ~ undone
      PROVE  HoldsInv'
  <2>0. HoldsInv
    BY <1>8 DEF KeptInv
  <2>1. WritesHeld'
    <3>1. HandedHolds(t) /\ TargetHolds(t)
      BY <2>0 DEF HoldsInv
    <3>2. 0..writes \subseteq snapshots[Top].data /\ snapshots[Top].data \subseteq volume[Target(t)]
      BY <1>2, <3>1 DEF HandedHolds, TargetHolds
    <3> QED BY <1>1, <1>4, <3>2 DEF WritesHeld
  <2>2. \A u \in DOMAIN transfers :
          row'[Source(u)][u].state \in Over =>
                /\ row[Source(u)][u].state \in Over
                /\ row[Source(u)][u].snap = row'[Source(u)][u].snap
    BY <1>4, <1>6 DEF Over
  <2>3. \A u \in DOMAIN transfers :
          row'[Target(u)][u].state = "target-ready" =>
                /\ row[Target(u)][u].state = "target-ready"
                /\ row[Target(u)][u].snap = row'[Target(u)][u].snap
    BY <1>4, <1>6
  <2>4. ASSUME NEW w \in Workers
        PROVE  \/ job'[w] = NoJob
               \/ /\ job'[w] = job[w]
                  /\ job[w].at = "probing" =>
                       (row'[WorkerSite[w]][job[w].t].state = "target-restoring"
                          => row[WorkerSite[w]][job[w].t].state = "target-restoring")
    <3>1. job'[w] \in {job[w], NoJob} /\ WorkerSite[w] \in Sites
      BY JobFacts DEF JobsGo
    <3>2. job[w].at = "probing" => job[w].t \in DOMAIN transfers
      BY JobsPlaced
    <3> QED BY <1>4, <3>1, <3>2
  <2> QED BY <1>1, <1>3, <2>0, <2>1, <2>2, <2>3, <2>4, HoldsKept
<1> QED BY <1>1, <1>5, <1>7, <1>8 DEF KeptInv

LEMMA CommitKeepsWrites ==
  ASSUME AuthorityInv, AuthorityInv', KeptInv, OnePass, NEW w \in Workers,
         NEW t \in DOMAIN transfers, NEW how, CommitTransfer(w, t, how)
  PROVE  KeptInv'
<1>1. /\ TypesInv /\ LineInv /\ Home \in Sites /\ t \in Transfers /\ Top \in Nat
      /\ WorkerSite[w] = Home /\ row[Home][t].state = "target-ready"
  BY HomeIsSite, HandoffsAreTransfers, TypeFacts
  DEF AuthorityInv, CommitTransfer, AtCommit, Committable, Top
<1>2. JobsGo /\ UNCHANGED <<transfers, volume, writes, undone>>
  <2>1. JobsGo
    BY <1>1, JobAfterEnds, JobsEndGo DEF CommitTransfer
  <2> QED BY <2>1 DEF CommitTransfer, siteVars
<1>3. CASE ~ MayCommit(t)
  <2>1. FailTransfer(Home, t, FALSE, how) /\ SameHoldings
    BY <1>2, <1>3 DEF CommitTransfer, SameHoldings, SameLine, SameSnapshots
  <2> QED BY <1>1, <1>2, <2>1, FailKeepsWrites
<1>4. CASE MayCommit(t)
  <2>1. PICK k, p, q : k = row[Home][t].snap /\ p = Len(snapshots) + 1 /\ q = row[Home][t]
    OBVIOUS
  <2>2. k = Top /\ k \in 1..Top /\ k # 0 /\ p = Top + 1
    BY <1>1, <1>4, <2>1, CommitsTheNewest DEF Top
  <2>3. snapshots[k].seq = k /\ snapshots[k].epoch \in Nat /\ snapshots[k].data \in SUBSET Writes
        /\ EpochOf(Top) = snapshots[k].epoch /\ Target(t) \in Sites
    BY <1>1, <2>2, KnownData, TypeFacts DEF LineInv, EpochOf, Top
  <2>4. PICK m : m = [authority |-> Target(t), epoch |-> snapshots[k].epoch + 1,
                      seq |-> snapshots[k].seq + 1, parent |-> k, data |-> snapshots[k].data]
    OBVIOUS
  <2>5. Extends(m)
    BY <1>1, <2>2, <2>3, <2>4 DEF Extends, Snapshot
  <2>6. PICK r : r = [state |-> "committed", snap |-> p, resumed |-> FALSE,
                      sent |-> q.sent \cup Noted(how, "committed")]
    OBVIOUS
  <2>7. /\ snapshots' = Append(snapshots, m) /\ known' = [known EXCEPT ![Home] = @ \cup {p}]
        /\ row' = [row EXCEPT ![Home][t] = r]
        /\ writer' = [writer EXCEPT ![Home] = Target(t)]
    BY <1>4, <2>1, <2>4, <2>6 DEF CommitTransfer, Target
  <2>8. Made(Home, m, p) /\ r.state = "committed"
    BY <2>2, <2>6, <2>7 DEF Made
  <2> QED BY <1>1, <1>2, <1>4, <2>5, <2>7, <2>8, CommittedKeepsWrites
<1> QED BY <1>3, <1>4

(* A new handoff has nothing to hand over yet.                             *)
LEMMA StartKeepsWrites ==
  ASSUME AuthorityInv, AuthorityInv', KeptInv, NEW target \in Sites, NEW how,
         StartTransfer(target, how)
  PROVE  KeptInv'
<1>1. PICK t, r, m :
        /\ t = Len(transfers) + 1
        /\ m = [source |-> AuthoritySite(Home), target |-> target, expected |-> Latest(Home)]
        /\ r = [NoRow EXCEPT !.state = "requested", !.sent = Noted(how, "requested")]
  OBVIOUS
<1>2. /\ TypesInv /\ Home \in Sites /\ t \in Transfers /\ t \notin DOMAIN transfers
      /\ Len(transfers) \in Nat /\ DOMAIN transfers = 1..Len(transfers)
      /\ DOMAIN transfers \subseteq Transfers
  <2>1. /\ Len(transfers) \in Nat /\ MaxTransfers \in Nat /\ Len(transfers) < MaxTransfers
        /\ DOMAIN transfers = 1..Len(transfers)
    BY TypeFacts, AuthorityBounds DEF AuthorityInv, StartTransfer
  <2>2. t \in Transfers /\ t \notin DOMAIN transfers
    BY <1>1, <2>1 DEF Transfers
  <2> QED BY <2>1, <2>2, HomeIsSite, HandoffsAreTransfers DEF AuthorityInv
<1>3. /\ SameSnapshots /\ volume' = volume /\ writes' = writes /\ undone' = undone
      /\ row' = [row EXCEPT ![Home][t] = r] /\ transfers' = Append(transfers, m)
      /\ job' \in {job, Idle(Home)} /\ writer' = writer
  BY <1>1 DEF StartTransfer, SameSnapshots, siteVars
<1>4. /\ DOMAIN transfers' = DOMAIN transfers \cup {t} /\ Len(transfers) <= Len(transfers')
      /\ \A u \in DOMAIN transfers : transfers'[u] = transfers[u]
  <2>1. transfers \in Seq(Transfer) /\ transfers' \in Seq(Transfer)
    BY DEF AuthorityInv, TypesInv
  <2> QED BY <1>1, <1>2, <1>3, <2>1
<1>5. Grown
  BY <1>2, <1>3, <1>4 DEF Grown, SameSnapshots, TypesInv
<1>6. /\ r.state = "requested" /\ row'[Home][t] = r
      /\ \A y \in Sites, u \in DOMAIN transfers : row'[y][u] = row[y][u]
      /\ \A y \in Sites : row'[y][t].state \in {"none", "requested"}
  <2>1. OthersStay(Home, t) /\ row'[Home][t] = r
    BY <1>2, <1>3, RowSet
  <2>2. r.state = "requested"
    BY <1>1 DEF NoRow
  <2>3. ASSUME NEW y \in Sites
        PROVE  row[y][t].state = "none"
    <3>1. RowSound(y, t, row[y][t])
      BY <1>2 DEF AuthorityInv, RowsInv
    <3> QED BY <1>2, <3>1 DEF RowSound
  <2> QED BY <1>2, <2>1, <2>2, <2>3 DEF OthersStay
<1>7. JobsGo
  BY <1>3 DEF JobsGo, Idle
<1>8. /\ \A u \in DOMAIN transfers : Source(u) \in Sites /\ Target(u) \in Sites
      /\ transfers'[t].source \in Sites /\ transfers'[t].target \in Sites
  <2>1. TypesInv' /\ t \in DOMAIN transfers'
    BY <1>4 DEF AuthorityInv
  <2>2. transfers'[t] \in Transfer
    BY <2>1 DEF TypesInv
  <2> QED BY <1>2, <2>2, TypeFacts DEF Transfer
<1>9. WriterInv'
  <2>1. \A u \in DOMAIN transfers' : row'[Home][u].state = "committed" =>
           u \in DOMAIN transfers /\ row[Home][u].state = "committed"
    BY <1>2, <1>4, <1>6
  <2>2. \A s \in Suitcases : \A u \in DOMAIN transfers :
           LastCommit(u) /\ Target(u) = s /\ Entitled(s, u) => Entitled(s, u)'
    BY <1>3, <1>6, HomeIsSite DEF Entitled
  <2> QED BY <1>2, <1>3, <1>5, <1>6, <2>1, <2>2, WriterKept DEF KeptInv
<1>10. RestoresInv'
  BY <1>6, <1>7, <1>8, RestoresKept DEF KeptInv, JobsGo
<1>11. ASSUME ~ undone
       PROVE  HoldsInv'
  <2>0. HoldsInv
    BY <1>11 DEF KeptInv
  <2>1. WritesHeld'
    BY <1>3, <2>0 DEF HoldsInv, WritesHeld
  <2>2. \A u \in DOMAIN transfers' :
           \/ u \in DOMAIN transfers
           \/ /\ row'[transfers'[u].source][u].state \notin Over
              /\ row'[transfers'[u].target][u].state \notin Over
    BY <1>4, <1>6, <1>8 DEF Over
  <2>3. \A u \in DOMAIN transfers :
          row'[Source(u)][u] = row[Source(u)][u] /\ row'[Target(u)][u] = row[Target(u)][u]
    BY <1>6, <1>8
  <2>4. ASSUME NEW w \in Workers
        PROVE  \/ job'[w] = NoJob
               \/ /\ job'[w] = job[w]
                  /\ job[w].at = "probing" =>
                       (row'[WorkerSite[w]][job[w].t].state = "target-restoring"
                          => row[WorkerSite[w]][job[w].t].state = "target-restoring")
    <3>1. job'[w] \in {job[w], NoJob} /\ WorkerSite[w] \in Sites
      BY <1>7, JobFacts DEF JobsGo
    <3>2. job[w].at = "probing" => job[w].t \in DOMAIN transfers
      BY JobsPlaced
    <3> QED BY <1>6, <3>1, <3>2
  <2> QED BY <1>3, <1>5, <2>0, <2>1, <2>2, <2>3, <2>4, HoldsKept
<1> QED BY <1>3, <1>9, <1>10, <1>11 DEF KeptInv

-----------------------------------------------------------------------------
(* The projection of an event: no site hands over, or is ready, by what it *)
(* is told.                                                                *)
Inward(y, e) ==
  /\ EventSound(e) /\ (y = Home => e.op # "committed")
  /\ e.op = "snapshot-ready" => y # Source(e.t)
  /\ e.op = "target-ready" => y # Target(e.t)

LEMMA ProjectedHolds ==
  ASSUME AuthorityInv, AuthorityInv', KeptInv, NEW y \in Sites, NEW e \in Events, Inward(y, e),
         Projects(y, e)
  PROVE  /\ Grown /\ transfers' = transfers
         /\ \A x \in Sites, u \in DOMAIN transfers :
              x # y \/ u # e.t => row'[x][u] = row[x][u]
         /\ e.t # 0 => Follows(y, e.t, row[y][e.t], row'[y][e.t], e)
         /\ writer' = IF e.op = "committed" THEN [writer EXCEPT ![y] = Target(e.t)] ELSE writer
         /\ writer'[Home] = writer[Home]
         /\ RestoresInv' /\ (~ undone' => HoldsInv')
<1>1. /\ TypesInv /\ EventSound(e) /\ (y = Home => e.op # "committed") /\ Home \in Sites
      /\ outgoing' \in [Suitcases -> Seq(Events)] /\ incoming' \in [Suitcases -> Seq(Events)]
      /\ 0 \notin DOMAIN transfers
  BY HomeIsSite, HandoffsAreTransfers DEF AuthorityInv, TypesInv, Inward
<1>2. /\ Grown /\ transfers' = transfers /\ job' = job
      /\ \A x \in Sites, u \in DOMAIN transfers :
           x # y \/ u # e.t => row'[x][u] = row[x][u]
      /\ e.t # 0 => Follows(y, e.t, row[y][e.t], row'[y][e.t], e)
  BY <1>1, ProjectFrame
<1>3. /\ writer' = IF e.op = "committed" THEN [writer EXCEPT ![y] = Target(e.t)] ELSE writer
      /\ UNCHANGED <<snapshots, transfers, volume, writes, undone>>
  BY DEF Projects, Target, siteVars
<1>4. writer'[Home] = writer[Home]
  BY <1>1, <1>3 DEF TypesInv
<1>5. PICK t, q, r : t = e.t /\ q = row[y][t] /\ r = row'[y][t]
  OBVIOUS
<1>6. ASSUME t \in DOMAIN transfers
      PROVE  Holds(y, t, q, r)
  <2>1. Follows(y, t, q, r, e)
    BY <1>1, <1>2, <1>5, <1>6
  <2>2. y = Target(t) /\ q.state \notin Early => r.state \notin Early
    BY <2>1 DEF Follows
  <2>3. ASSUME y = Source(t), r.state \in Over
        PROVE  q.state \in Over /\ r.snap = q.snap
    <3>1. e.op # "snapshot-ready" /\ r.state # "committed"
      BY <1>5, <2>3 DEF Inward, Over
    <3> QED BY <2>1, <2>3, <3>1 DEF Follows
  <2>4. ASSUME y = Target(t), r.state = "target-ready"
        PROVE  q.state = "target-ready" /\ r.snap = q.snap
    <3>1. e.op # "target-ready"
      BY <1>5, <2>4 DEF Inward
    <3>2. q.state = "target-ready"
      BY <2>1, <2>4, <3>1 DEF Follows
    <3>3. r.snap = q.snap \/ (e.op = "snapshot-ready" /\ r.snap = e.snap)
      BY <2>1, <2>4 DEF Follows
    <3>4. e.op = "snapshot-ready" => e.snap = Expected(t) + 1
      BY <1>1, <1>5 DEF EventSound, Handed
    <3>5. q.snap = Expected(t) + 1
      BY <1>5, <1>6, <3>2, RowsPlaced DEF RowPlace, Over
    <3> QED BY <3>2, <3>3, <3>4, <3>5
  <2>5. r.state = "target-restoring" => q.state = "target-restoring"
    BY <2>1 DEF Follows
  <2> QED BY <2>2, <2>3, <2>4, <2>5 DEF Holds
<1>7. JobsGo
  BY <1>2 DEF JobsGo
<1>8. RestoresInv' /\ (~ undone' => HoldsInv')
  <2>1. \A x \in Sites, u \in DOMAIN transfers : x # y \/ u # t => row'[x][u] = row[x][u]
    BY <1>2, <1>5
  <2> QED BY <1>2, <1>3, <1>4, <1>5, <1>6, <1>7, <2>1, TurnHolds DEF KeptInv
<1> QED BY <1>2, <1>3, <1>4, <1>8

LEMMA IngestKeepsWrites ==
  ASSUME AuthorityInv, AuthorityInv', KeptInv, NEW s \in Suitcases, IngestAtHome(s)
  PROVE  KeptInv'
<1>1. PICK e : e = Head(outgoing[s])
  OBVIOUS
<1>2. e \in Events /\ e \in Outs(s)
  <2>1. outgoing[s] \in Seq(Events) /\ outgoing[s] # << >> /\ Outs(s) = Elements(outgoing[s])
    BY DEF AuthorityInv, TypesInv, IngestAtHome, Outs, Elements
  <2> QED BY <1>1, <2>1, HeadAndTail
<1>3. OutSound(s, e)
  BY <1>2 DEF AuthorityInv, EventsInv
<1>4. Home \in Sites /\ s # Home /\ 0 \notin DOMAIN transfers
  BY HomeIsSite, HandoffsAreTransfers
<1>5. Inward(Home, e) /\ e.op # "committed" /\ Projects(Home, e)
  BY <1>1, <1>3, <1>4 DEF IngestAtHome, Inward, OutSound
<1>6. /\ Grown /\ transfers' = transfers /\ writer' = writer
      /\ \A x \in Sites, u \in DOMAIN transfers :
           x # Home \/ u # e.t => row'[x][u] = row[x][u]
      /\ e.t # 0 => Follows(Home, e.t, row[Home][e.t], row'[Home][e.t], e)
      /\ RestoresInv' /\ (~ undone' => HoldsInv')
  BY <1>2, <1>4, <1>5, ProjectedHolds
<1>7. ASSUME NEW u \in DOMAIN transfers
      PROVE  row'[Home][u].state = "committed" <=> row[Home][u].state = "committed"
  <2>1. CASE u = e.t
    BY <1>4, <1>5, <1>6, <2>1 DEF Follows
  <2>2. CASE u # e.t
    BY <1>4, <1>6, <2>2
  <2> QED BY <2>1, <2>2
<1>8. \A z \in Suitcases : \A u \in DOMAIN transfers :
        LastCommit(u) /\ Target(u) = z /\ Entitled(z, u) => Entitled(z, u)'
  BY <1>6, HomeIsSite DEF Entitled
<1>9. WriterInv'
  BY <1>6, <1>7, <1>8, WriterKept DEF KeptInv
<1> QED BY <1>6, <1>9 DEF KeptInv

LEMMA ProjectKeepsWrites ==
  ASSUME AuthorityInv, AuthorityInv', KeptInv, NEW s \in Suitcases, ProjectAtSuitcase(s)
  PROVE  KeptInv'
<1>1. PICK e : e = Head(incoming[s])
  OBVIOUS
<1>2. e \in Events /\ e \in Ins(s)
  <2>1. incoming[s] \in Seq(Events) /\ incoming[s] # << >> /\ Ins(s) = Elements(incoming[s])
    BY DEF AuthorityInv, TypesInv, ProjectAtSuitcase, Ins, Elements
  <2> QED BY <1>1, <2>1, HeadAndTail
<1>3. InSound(s, e)
  BY <1>2 DEF AuthorityInv, EventsInv
<1>4. s \in Sites /\ s # Home /\ Home \in Sites /\ 0 \notin DOMAIN transfers /\ TypesInv
  BY HomeIsSite, HandoffsAreTransfers DEF AuthorityInv
<1>5. Inward(s, e) /\ EventSound(e) /\ Projects(s, e)
  BY <1>1, <1>3, <1>4 DEF ProjectAtSuitcase, Inward, InSound
<1>6. /\ Grown /\ transfers' = transfers /\ writer'[Home] = writer[Home]
      /\ \A x \in Sites, u \in DOMAIN transfers :
           x # s \/ u # e.t => row'[x][u] = row[x][u]
      /\ e.t # 0 => Follows(s, e.t, row[s][e.t], row'[s][e.t], e)
      /\ writer' = IF e.op = "committed" THEN [writer EXCEPT ![s] = Target(e.t)] ELSE writer
      /\ RestoresInv' /\ (~ undone' => HoldsInv')
  BY <1>2, <1>4, <1>5, ProjectedHolds
<1>7. /\ \A z \in Sites : z # s => writer'[z] = writer[z]
      /\ writer'[s] = IF e.op = "committed" THEN Target(e.t) ELSE writer[s]
  BY <1>4, <1>6 DEF TypesInv
<1>8. ASSUME NEW u \in DOMAIN transfers, LastCommit(u), Target(u) = s, Entitled(s, u)
      PROVE  Entitled(s, u)'
  <2>1. row[Home][u].state = "committed" /\ row[s][u].state \in Restored
    BY <1>8 DEF LastCommit, Entitled
  <2>2. CASE e.t = u
    <3>1. Follows(s, u, row[s][u], row'[s][u], e)
      BY <1>4, <1>6, <2>2
    <3>2. e.op \notin Broken
      BY <1>3, <2>1, <2>2 DEF InSound, Broken
    <3>3. row'[s][u].state \in Restored
      BY <2>1, <3>1, <3>2 DEF Follows
    <3>4. ASSUME row'[s][u].state = "committed"
          PROVE  writer'[s] = s
      <4>1. CASE e.op = "committed"
        BY <1>7, <1>8, <2>2, <4>1
      <4>2. CASE e.op # "committed"
        <5>1. row[s][u].state = "committed"
          BY <3>1, <3>4, <4>2 DEF Follows
        <5> QED BY <1>7, <1>8, <4>2, <5>1 DEF Entitled
      <4> QED BY <4>1, <4>2
    <3> QED BY <3>3, <3>4 DEF Entitled
  <2>3. CASE e.t # u
    <3>1. row'[s][u] = row[s][u]
      BY <1>4, <1>6, <2>3
    <3>2. ASSUME row[s][u].state = "committed", e.op = "committed"
          PROVE  FALSE
      <4>1. PICK v : v = e.t
        OBVIOUS
      <4>2. /\ v \in DOMAIN transfers /\ row[Home][v].state = "committed"
            /\ e.snap = row[Home][v].snap /\ v # u
        BY <1>2, <1>5, <2>3, <3>2, <4>1, EventFacts
      <4>3. v < u
        BY <1>8, <4>2, TypeFacts, <1>4 DEF LastCommit
      <4>4. e.snap <= Expected(u)
        BY <4>2, <4>3 DEF AuthorityInv, TransfersInv
      <4>5. Latest(s) <= e.snap
        BY <1>2, <1>3, <1>5, <3>2, CommittedIsLatest
      <4>6. RowSound(s, u, row[s][u])
        BY <1>4, HandoffsAreTransfers DEF AuthorityInv, RowsInv
      <4>7. row[s][u].snap = Expected(u) + 2 /\ row[s][u].snap \in known[s]
        BY <3>2, <4>6 DEF RowSound
      <4>8. IsLatest(Latest(s), known[s]) /\ Latest(s) \in Nat /\ Expected(u) \in Nat
        BY <1>4, LatestFacts, TypeFacts DEF AuthorityInv
      <4>9. Expected(u) + 2 <= Latest(s)
        BY <4>7, <4>8 DEF IsLatest
      <4>10. e.snap \in Nat
        BY <1>2 DEF Events
      <4> QED BY <4>4, <4>5, <4>8, <4>9, <4>10
    <3> QED BY <1>7, <1>8, <3>1, <3>2 DEF Entitled
  <2> QED BY <2>2, <2>3
<1>9. WriterInv'
  <2>1. \A u \in DOMAIN transfers : row'[Home][u] = row[Home][u]
    BY <1>4, <1>6
  <2>2. \A z \in Suitcases : \A u \in DOMAIN transfers :
          LastCommit(u) /\ Target(u) = z /\ Entitled(z, u) => Entitled(z, u)'
    <3>1. ASSUME NEW z \in Suitcases, NEW u \in DOMAIN transfers, z # s, Entitled(z, u)
          PROVE  Entitled(z, u)'
      BY <1>6, <1>7, <3>1, HomeIsSite DEF Entitled
    <3> QED BY <1>8, <3>1
  <2> QED BY <1>6, <2>1, <2>2, WriterKept DEF KeptInv
<1> QED BY <1>6, <1>9 DEF KeptInv

-----------------------------------------------------------------------------
LEMMA InitKept == AuthorityInit => KeptInv
<1> SUFFICES ASSUME AuthorityInit
             PROVE  KeptInv
  OBVIOUS
<1>1. DOMAIN transfers = {}
  BY DEF AuthorityInit
<1>2. writer[Home] = Home /\ Home \in Sites /\ Home \notin Suitcases
  BY HomeIsSite DEF AuthorityInit
<1>3. WriterInv
  BY <1>2 DEF WriterInv
<1>4. \A w \in Workers : job[w].at = "idle"
  BY DEF AuthorityInit, NoJob
<1>5. RestoresInv /\ \A w \in Workers : JobHolds(WorkerSite[w], job[w])
  BY <1>4 DEF RestoresInv, JobHolds
<1>6. WritesHeld
  <2>1. volume[Home] = {0} /\ writes = 0
    BY <1>2 DEF AuthorityInit
  <2> QED BY <1>2, <2>1 DEF WritesHeld
<1> QED BY <1>1, <1>3, <1>5, <1>6 DEF KeptInv, HoldsInv

LEMMA AdvancesKeepsWrites ==
  ASSUME AuthorityInv, AuthorityInv', KeptInv, OnePass, NEW w \in Workers, NEW how,
         Advances(w, how)
  PROVE  KeptInv'
<1>1. CASE AdvancesJob(w, how)
  <2>1. CASE RecordSnapshot(w, how)
    BY <2>1, RecordKeepsWrites
  <2>2. CASE SnapshotReady(w, how)
    BY <2>2, SnapshotReadyKeepsWrites
  <2>3. CASE RestoreVolume(w)
    BY <2>3, RestoreVolumeKeepsWrites
  <2>4. CASE TargetReady(w, how)
    BY <2>4, TargetReadyKeepsWrites
  <2>5. CASE RestoreFails(w, how)
    BY <2>5, RestoreFailsKeepsWrites
  <2> QED BY <1>1, <2>1, <2>2, <2>3, <2>4, <2>5 DEF AdvancesJob
<1>2. ASSUME NEW t \in DOMAIN transfers, AdvancesTransfer(w, t, how)
      PROVE  KeptInv'
  <2>1. CASE TakeUp(w, t, how)
    BY <2>1, TakeUpKeepsWrites
  <2>2. CASE CommitTransfer(w, t, how)
    BY <2>2, CommitKeepsWrites
  <2>3. CASE BeginCapture(w, t)
    BY <2>3, BeginCaptureKeepsWrites
  <2>4. CASE AcceptSnapshot(w, t)
    BY <2>4, AcceptKeepsWrites
  <2>5. CASE BeginRestore(w, t)
    BY <2>5, BeginRestoreKeepsWrites
  <2>6. CASE ResumeSource(w, t)
    BY <2>6, ResumeKeepsWrites
  <2>7. ASSUME NEW resumed \in BOOLEAN, CaptureFails(w, t, resumed, how)
        PROVE  KeptInv'
    BY <2>7, CaptureFailsKeepsWrites
  <2>8. ASSUME NEW op \in Owed(WorkerSite[w], t), EnsureEvent(w, t, op)
        PROVE  KeptInv'
    BY <2>8, EnsureKeepsWrites
  <2> QED BY <1>2, <2>1, <2>2, <2>3, <2>4, <2>5, <2>6, <2>7, <2>8 DEF AdvancesTransfer
<1> QED BY <1>1, <1>2 DEF Advances

LEMMA NextKeepsWrites ==
  ASSUME OnePass, AuthorityInv, AuthorityInv', KeptInv, [AuthorityNext]_authorityVars
  PROVE  KeptInv'
<1>1. ASSUME NEW how \in Outcomes, Administers(how)
      PROVE  KeptInv'
  <2>1. ASSUME NEW target \in Sites, StartTransfer(target, how)
        PROVE  KeptInv'
    BY <2>1, StartKeepsWrites
  <2>2. ASSUME NEW t \in DOMAIN transfers, AbortTransfer(t, how)
        PROVE  KeptInv'
    BY <2>2, AbortKeepsWrites
  <2> QED BY <1>1, <2>1, <2>2 DEF Administers
<1>2. ASSUME NEW how \in Outcomes, NEW w \in Workers, Advances(w, how)
      PROVE  KeptInv'
  BY <1>2, AdvancesKeepsWrites
<1>3. ASSUME NEW w \in Workers, Repeats(w)
      PROVE  KeptInv'
  BY <1>3, RepeatsKeepsWrites
<1>4. ASSUME NEW s \in Suitcases, IngestAtHome(s)
      PROVE  KeptInv'
  BY <1>4, IngestKeepsWrites
<1>5. ASSUME NEW s \in Suitcases, ProjectAtSuitcase(s)
      PROVE  KeptInv'
  BY <1>5, ProjectKeepsWrites
<1>6. ASSUME NEW s \in Suitcases, Materialise(s)
      PROVE  KeptInv'
  BY <1>6, MaterialiseKeepsWrites
<1>7. ASSUME NEW s \in Suitcases, SupervisorStarts(s)
      PROVE  KeptInv'
  BY <1>7, SupervisorKeepsWrites
<1>8. ASSUME NEW s \in Suitcases, NEW how \in Outcomes, ScheduledCapture(s, how)
      PROVE  KeptInv'
  BY <1>8, ScheduledKeepsWrites
<1>9. ASSUME NEW x \in Sites, Write(x)
      PROVE  KeptInv'
  BY <1>9, WriteKeepsWrites
<1>10. ASSUME NEW x \in Sites, Crash(x)
       PROVE  KeptInv'
  BY <1>10, CrashKeepsWrites
<1>11. CASE UNCHANGED authorityVars
  BY <1>11, StutterKeepsWrites
<1> QED
  BY <1>1, <1>2, <1>3, <1>4, <1>5, <1>6, <1>7, <1>8, <1>9, <1>10, <1>11 DEF AuthorityNext

(* The volume of the site in authority holds every write that the writer   *)
(* of its time made, through any handoffs, aborts, crashes and lost        *)
(* events, until processLocalOpaqueVolumeAuthorityTransfers or             *)
(* reconcileReplica restores a snapshot over writes of the authority it    *)
(* still has, restores for an earlier handoff beside a later one, or hands *)
(* over a snapshot older than its volume.                                  *)
THEOREM WritesAreKept == ASSUME OnePass PROVE AuthoritySpec => []KeptUnlessUndone
<1>1. AuthorityInit => AuthorityInv /\ KeptInv
  BY InitSound, InitKept
<1>2. AuthorityInv /\ KeptInv /\ [AuthorityNext]_authorityVars => AuthorityInv' /\ KeptInv'
  BY NextSound, NextKeepsWrites
<1>3. KeptInv => KeptUnlessUndone
  BY DEF KeptInv, HoldsInv, KeptUnlessUndone
<1> QED BY <1>1, <1>2, <1>3, PTL DEF AuthoritySpec

=============================================================================
