------------------------ MODULE FleetMutationProofs ------------------------
(***************************************************************************)
(* The safety of the gate before a destructive change, for every set of    *)
(* applications and suitcases and any number of selections, requests, data *)
(* and faults.  A token is never given twice, so an answer to a request    *)
(* that still matches was given since the replica got its token.           *)
(***************************************************************************)
EXTENDS FleetMutation, WellFoundedInduction, FiniteSetTheorems, TLAPS

-----------------------------------------------------------------------------
(* Numbers: a set of them has a least one, a bounded one a greatest one.   *)
LEMMA Least ==
  ASSUME NEW T \in SUBSET Nat, T # {}
  PROVE  \E x \in T : \A y \in T : x <= y
<1> DEFINE R == OpToRel(<, Nat)
<1>1. \E x \in T : \A y \in T : ~ (<<y, x>> \in R)
  BY NatLessThanWellFounded, WFMin
<1>2. \A x, y \in Nat : <<y, x>> \in R <=> y < x
  BY DEF OpToRel
<1> HIDE DEF R
<1>3. PICK x \in T : \A y \in T : ~ (<<y, x>> \in R)
  BY <1>1
<1>4. \A y \in T : ~ (y < x)
  BY <1>2, <1>3, Zenon
<1>5. \A y \in T : x <= y
  BY <1>4, SMT
<1> QED BY <1>5

LEMMA Greatest ==
  ASSUME NEW n \in Nat, NEW T \in SUBSET (1..n), T # {}
  PROVE  \E x \in T : \A y \in T : y <= x
<1> DEFINE D == {d \in Nat : \E x \in T : x + d = n}
<1>1. D # {}
  <2>1. PICK x \in T : TRUE
    OBVIOUS
  <2>2. n - x \in D
    BY <2>1
  <2> QED BY <2>2
<1>2. PICK d \in D : \A e \in D : d <= e
  <2> HIDE DEF D
  <2>1. D \in SUBSET Nat
    BY DEF D
  <2> QED BY <1>1, <2>1, Least
<1>3. PICK x \in T : x + d = n
  BY <1>2
<1>4. ASSUME NEW y \in T
      PROVE  y <= x
  <2>1. n - y \in D
    OBVIOUS
  <2>2. d <= n - y
    BY <1>2, <2>1
  <2> QED BY <1>2, <1>3, <2>2
<1> QED BY <1>4

(* Sequences of what is known, and of what a pass captured.                *)
LEMMA MoreInSeq ==
  ASSUME NEW S, NEW T, S \subseteq T, NEW q \in Seq(S)
  PROVE  q \in Seq(T)
OBVIOUS

LEMMA AppendedSeq ==
  ASSUME NEW S, NEW q \in Seq(S), NEW e \in S
  PROVE  /\ Append(q, e) \in Seq(S) /\ Len(Append(q, e)) = Len(q) + 1 /\ Len(q) \in Nat
         /\ DOMAIN q = 1..Len(q) /\ DOMAIN Append(q, e) = 1..(Len(q) + 1)
         /\ Append(q, e)[Len(q) + 1] = e
         /\ \A i \in 1..Len(q) : Append(q, e)[i] = q[i]
OBVIOUS

LEMMA JoinedSeq ==
  ASSUME NEW S, NEW q \in Seq(S), NEW e \in Seq(S)
  PROVE  /\ q \o e \in Seq(S) /\ Len(q \o e) = Len(q) + Len(e)
         /\ Len(q) \in Nat /\ Len(e) \in Nat
         /\ DOMAIN q = 1..Len(q) /\ DOMAIN (q \o e) = 1..(Len(q) + Len(e))
         /\ \A i \in 1..Len(q) : (q \o e)[i] = q[i]
         /\ \A i \in 1..(Len(q) + Len(e)) :
              i > Len(q) => i - Len(q) \in 1..Len(e) /\ (q \o e)[i] = e[i - Len(q)]
OBVIOUS

LEMMA RestOfSeq ==
  ASSUME NEW S, NEW q \in Seq(S), NEW n \in 0..Len(q)
  PROVE  SubSeq(q, n + 1, Len(q)) \in Seq(S)
OBVIOUS

LEMMA SetToSeqFacts ==
  ASSUME NEW S, IsFiniteSet(S)
  PROVE  SetToSeq(S) \in Seq(S)
<1>1. PICK f \in Bijection(1..Cardinality(S), S) : TRUE
  BY FS_CardinalityType DEF ExistsBijection
<1>2. f \in [1..Cardinality(S) -> S] /\ IsInjective(f)
  BY <1>1 DEF Bijection, Injection, IsInjective
<1>3. SetToSeq(S) \in [1..Cardinality(S) -> S]
  BY <1>2 DEF SetToSeq
<1> QED BY <1>3, FS_CardinalityType

(* A table by application and suitcase, changed in one place.              *)
LEMMA TableUpdate ==
  ASSUME NEW T, NEW f \in [Apps -> [Suitcases -> T]], NEW a \in Apps, NEW s \in Suitcases,
         NEW v \in T, NEW g, g = [f EXCEPT ![a][s] = v]
  PROVE  /\ g \in [Apps -> [Suitcases -> T]] /\ g[a][s] = v
         /\ \A b \in Apps, t \in Suitcases : b # a \/ t # s => g[b][t] = f[b][t]
OBVIOUS

-----------------------------------------------------------------------------
(* The inductive invariant.  A token that is given is a new one.           *)
TokensPast ==
  /\ \A r \in DOMAIN requests, s \in Suitcases : requests[r].tokens[s] <= tokens
  /\ \A a \in Apps, s \in Suitcases : replica[a][s].token <= tokens

(* An answer to a request for the token that the replica still has was     *)
(* given since it has it.                                                  *)
Answered(s, r) == \E i \in DOMAIN log[s] : log[s][i] = Ack(r)

AnswersAgree ==
  \A s \in Suitcases, r \in DOMAIN requests, a \in Apps :
    /\ Answered(s, r) /\ a = requests[r].app
    /\ requests[r].tokens[s] = replica[a][s].token /\ s \notin cut[a]
    => requests[r].m \in agreed[a][s]

MutationInv == MutationTypeOK /\ AskedAndAnsweredOnce /\ TokensPast /\ AnswersAgree

Replica == [active : BOOLEAN, token : 0..MaxTokens]

LEMMA TypeParts ==
  ASSUME MutationTypeOK
  PROVE  /\ replica \in [Apps -> [Suitcases -> Replica]]
         /\ requests \in Seq(Request) /\ Len(requests) \in Nat
         /\ DOMAIN requests = 1..Len(requests)
         /\ stream \in [Suitcases -> Seq(Notices)]
         /\ local \in [Suitcases -> SUBSET Apps]
         /\ known \in [Suitcases -> SUBSET (1..Len(requests))]
         /\ log \in [Suitcases -> Seq(Events)]
         /\ queued \in [Suitcases -> Nat] /\ received \in [Suitcases -> Nat]
         /\ pass \in [Suitcases -> {"idle", "exchange", "answer", "flush"}]
         /\ tokens \in 0..MaxTokens /\ tokens \in Nat
         /\ agreed \in [Apps -> [Suitcases -> SUBSET Mutations]]
         /\ cut \in [Apps -> SUBSET Suitcases]
         /\ count \in [data : 0..MaxData, faults : 0..MaxFaults]
BY BoundAssumption DEF MutationTypeOK, Replica

(* What is logged, and that answers and data are told apart.               *)
LEMMA EventFacts ==
  ASSUME MutationTypeOK, NEW s \in Suitcases
  PROVE  /\ log[s] \in Seq(Events) /\ Len(log[s]) \in Nat /\ DOMAIN log[s] = 1..Len(log[s])
         /\ \A i \in 1..Len(log[s]) : log[s][i] \in Events
         /\ \A e \in Events : e.t = "ack" => \E r \in 1..Len(requests) : e = Ack(r)
         /\ \A a : Data(a).t = "data"
         /\ \A r : Ack(r).t = "ack" /\ Ack(r).r = r
<1>1. log[s] \in Seq(Events) /\ DOMAIN requests = 1..Len(requests)
  BY TypeParts
<1>2. \A e \in Events : e.t = "ack" => \E r \in 1..Len(requests) : e = Ack(r)
  BY <1>1 DEF Events, Data, Ack
<1>3. (\A a : Data(a).t = "data") /\ (\A r : Ack(r).t = "ack" /\ Ack(r).r = r)
  BY DEF Data, Ack
<1> HIDE DEF Events
<1> QED BY <1>1, <1>2, <1>3

(* The latest request that matches is one, if any does.                    *)
LEMMA CurrentRequestMatches ==
  ASSUME MutationTypeOK, NEW a \in Apps, NEW m \in Mutations
  PROVE  /\ CurrentRequest(a, m) # 0 =>
              /\ CurrentRequest(a, m) \in 1..Len(requests)
              /\ RequestMatches(CurrentRequest(a, m), a, m)
         /\ CurrentRequest(a, m) = 0 =>
              \A r \in 1..Len(requests) : ~ RequestMatches(r, a, m)
<1> DEFINE matching == {r \in DOMAIN requests : RequestMatches(r, a, m)}
<1>1. Len(requests) \in Nat /\ DOMAIN requests = 1..Len(requests)
  BY TypeParts
<1>2. matching \in SUBSET (1..Len(requests))
  BY <1>1
<1>3. matching # {} => \E x \in matching : \A y \in matching : y <= x
  BY <1>1, <1>2, Greatest
<1>4. CurrentRequest(a, m) = IF matching = {} THEN 0
                             ELSE CHOOSE r \in matching : \A q \in matching : q <= r
  BY DEF CurrentRequest
<1>5. \A r \in matching : RequestMatches(r, a, m)
  OBVIOUS
<1>6. \A r \in 1..Len(requests) : RequestMatches(r, a, m) => r \in matching
  BY <1>1
<1> HIDE DEF matching
<1>7. CASE matching = {}
  BY <1>4, <1>6, <1>7
<1>8. CASE matching # {}
  <2>1. CurrentRequest(a, m) \in matching
    BY <1>3, <1>4, <1>8
  <2>2. CurrentRequest(a, m) \in 1..Len(requests)
    BY <1>2, <2>1
  <2>3. CurrentRequest(a, m) # 0
    BY <1>1, <2>2
  <2> QED BY <1>5, <2>1, <2>2, <2>3, Zenon
<1> QED BY <1>7, <1>8

(* What Home does to a replica: it gets a new token, or is selected and    *)
(* cut off with the one it has, or keeps its token and its answers.        *)
Administered(a, s) ==
  /\ replica' \in [Apps -> [Suitcases -> Replica]]
  /\ agreed' \in [Apps -> [Suitcases -> SUBSET Mutations]]
  /\ cut' \in [Apps -> SUBSET Suitcases] /\ tokens' \in 0..MaxTokens
  /\ \A b \in Apps, t \in Suitcases : b # a \/ t # s =>
       /\ replica'[b][t] = replica[b][t] /\ agreed'[b][t] = agreed[b][t]
       /\ t \in cut'[b] <=> t \in cut[b]
  /\ \/ tokens' = tokens + 1 /\ replica'[a][s].token = tokens + 1
     \/ tokens' = tokens + 1 /\ replica'[a][s].token = replica[a][s].token /\ s \in cut'[a]
     \/ /\ tokens' = tokens /\ replica'[a][s].token = replica[a][s].token
        /\ UNCHANGED <<agreed, cut>>

LEMMA AdministersEffects ==
  ASSUME MutationTypeOK, NEW a \in Apps, NEW s \in Suitcases, Administers(a, s)
  PROVE  /\ Administered(a, s)
         /\ stream' \in [Suitcases -> Seq(Notices)]
         /\ count' \in [data : 0..MaxData, faults : 0..MaxFaults]
         /\ UNCHANGED <<requests, received, suitcaseVars>>
<1>0. /\ replica \in [Apps -> [Suitcases -> Replica]] /\ tokens \in Nat /\ MaxTokens \in Nat
      /\ stream \in [Suitcases -> Seq(Notices)] /\ cut \in [Apps -> SUBSET Suitcases]
      /\ agreed \in [Apps -> [Suitcases -> SUBSET Mutations]] /\ tokens \in 0..MaxTokens
      /\ count \in [data : 0..MaxData, faults : 0..MaxFaults] /\ replica[a][s] \in Replica
  BY TypeParts, BoundAssumption
<1>1. \A how \in Outcomes : Costs(how) => count' \in [data : 0..MaxData, faults : 0..MaxFaults]
  BY <1>0, BoundAssumption DEF Costs, Fault
<1>2. ASSUME NEW op \in {"selected", "removed"}, NEW how, Tells(a, s, op, how)
      PROVE  stream' \in [Suitcases -> Seq(Notices)]
  <2>1. Told(a, op) \in Notices
    BY DEF Told, Notices
  <2>2. Append(stream[s], Told(a, op)) \in Seq(Notices)
    BY <1>0, <2>1, AppendedSeq
  <2> QED BY <1>0, <1>2, <2>2 DEF Tells
<1>3. ASSUME NEW how \in Outcomes, SelectReplica(a, s, how)
      PROVE  Administered(a, s)
  <2> DEFINE fresh == how = "done" \/ replica[a][s].token = 0
             it == [active |-> TRUE, token |-> IF fresh THEN tokens + 1
                                               ELSE replica[a][s].token]
             them == IF fresh THEN cut[a] \ {s} ELSE cut[a] \cup {s}
  <2>1. /\ tokens' = tokens + 1 /\ tokens' \in 0..MaxTokens
        /\ replica' = [replica EXCEPT ![a][s] = it] /\ cut' = [cut EXCEPT ![a] = them]
        /\ agreed' = [agreed EXCEPT ![a][s] = {}]
    BY <1>0, <1>3 DEF SelectReplica
  <2>2. it \in Replica /\ it.token = (IF fresh THEN tokens + 1 ELSE replica[a][s].token)
    BY <1>0, <2>1 DEF Replica
  <2>3. /\ them \subseteq Suitcases /\ (fresh \/ s \in them)
        /\ \A t \in Suitcases : t # s => (t \in them <=> t \in cut[a])
    BY <1>0
  <2> HIDE DEF fresh, it, them
  <2>4. /\ replica' \in [Apps -> [Suitcases -> Replica]] /\ replica'[a][s] = it
        /\ \A b \in Apps, t \in Suitcases : b # a \/ t # s => replica'[b][t] = replica[b][t]
    BY <1>0, <2>1, <2>2, TableUpdate
  <2>5. /\ agreed' \in [Apps -> [Suitcases -> SUBSET Mutations]]
        /\ \A b \in Apps, t \in Suitcases : b # a \/ t # s => agreed'[b][t] = agreed[b][t]
    BY <1>0, <2>1, TableUpdate
  <2>6. /\ cut' \in [Apps -> SUBSET Suitcases] /\ cut'[a] = them
        /\ \A b \in Apps : b # a => cut'[b] = cut[b]
    BY <1>0, <2>1, <2>3
  <2> QED BY <2>1, <2>2, <2>3, <2>4, <2>5, <2>6 DEF Administered
<1>4. ASSUME NEW how \in Outcomes, RemoveReplica(a, s, how)
      PROVE  Administered(a, s)
  <2> DEFINE it == [replica[a][s] EXCEPT !.active = FALSE]
  <2>1. replica' = [replica EXCEPT ![a][s] = it] /\ UNCHANGED <<tokens, agreed, cut>>
    BY <1>4 DEF RemoveReplica
  <2>2. it \in Replica /\ it.token = replica[a][s].token
    BY <1>0 DEF Replica
  <2> HIDE DEF it
  <2>3. /\ replica' \in [Apps -> [Suitcases -> Replica]] /\ replica'[a][s] = it
        /\ \A b \in Apps, t \in Suitcases : b # a \/ t # s => replica'[b][t] = replica[b][t]
    BY <1>0, <2>1, <2>2, TableUpdate
  <2> QED BY <1>0, <2>1, <2>2, <2>3 DEF Administered
<1>5. ASSUME ChangePolicy(a, s)
      PROVE  Administered(a, s)
  <2> DEFINE it == [replica[a][s] EXCEPT !.token = tokens + 1]
  <2>1. /\ tokens' = tokens + 1 /\ tokens' \in 0..MaxTokens
        /\ replica' = [replica EXCEPT ![a][s] = it]
        /\ cut' = [cut EXCEPT ![a] = cut[a] \ {s}]
        /\ agreed' = [agreed EXCEPT ![a][s] = {}]
    BY <1>0, <1>5 DEF ChangePolicy
  <2>2. it \in Replica /\ it.token = tokens + 1
    BY <1>0, <2>1 DEF Replica
  <2> HIDE DEF it
  <2>3. /\ replica' \in [Apps -> [Suitcases -> Replica]] /\ replica'[a][s] = it
        /\ \A b \in Apps, t \in Suitcases : b # a \/ t # s => replica'[b][t] = replica[b][t]
    BY <1>0, <2>1, <2>2, TableUpdate
  <2>4. /\ agreed' \in [Apps -> [Suitcases -> SUBSET Mutations]]
        /\ \A b \in Apps, t \in Suitcases : b # a \/ t # s => agreed'[b][t] = agreed[b][t]
    BY <1>0, <2>1, TableUpdate
  <2> QED BY <1>0, <2>1, <2>2, <2>3, <2>4 DEF Administered
<1> QED BY <1>0, <1>1, <1>2, <1>3, <1>4, <1>5 DEF Administers, SelectReplica, RemoveReplica,
       ChangePolicy

(* A request is made once: nothing that matches was there.                 *)
LEMMA PrepareEffects ==
  ASSUME MutationInv, NEW a \in Apps, NEW m \in Mutations, PrepareMutation(a, m)
  PROVE  /\ requests' \in Seq(Request) /\ Len(requests') = Len(requests) + 1
         /\ DOMAIN requests' = 1..(Len(requests) + 1)
         /\ \A r \in 1..Len(requests) :
              requests'[r] = requests[r] /\ requests'[Len(requests) + 1] # requests[r]
         /\ \A s \in Suitcases : requests'[Len(requests) + 1].tokens[s] <= tokens
         /\ UNCHANGED <<replica, tokens, cut, stream, received, agreed, count, suitcaseVars>>
<1>0. /\ MutationTypeOK /\ replica \in [Apps -> [Suitcases -> Replica]]
      /\ requests \in Seq(Request) /\ Len(requests) \in Nat /\ tokens \in Nat
      /\ \A s \in Suitcases : replica[a][s] \in Replica
  BY TypeParts DEF MutationInv
<1> DEFINE given == [s \in Suitcases |-> IF replica[a][s].active THEN replica[a][s].token ELSE 0]
           it == [app |-> a, m |-> m, tokens |-> given]
<1>1. requests' = Append(requests, it)
  BY DEF PrepareMutation
<1>2. given \in [Suitcases -> 0..MaxTokens] /\ \A s \in Suitcases : given[s] <= tokens
  <2>1. \A s \in Suitcases : replica[a][s].token \in 0..MaxTokens
    BY <1>0 DEF Replica
  <2>2. \A s \in Suitcases : replica[a][s].token <= tokens
    BY DEF MutationInv, TokensPast
  <2> QED BY <1>0, <2>1, <2>2, BoundAssumption
<1>3. \A s \in ActiveReplicas(a) : given[s] = replica[a][s].token
  BY DEF ActiveReplicas
<1> HIDE DEF given
<1>4. it \in Request /\ it.app = a /\ it.m = m /\ it.tokens = given
  BY <1>2 DEF Request
<1> HIDE DEF it
<1>5. /\ requests' \in Seq(Request) /\ Len(requests') = Len(requests) + 1
      /\ DOMAIN requests' = 1..(Len(requests) + 1) /\ requests'[Len(requests) + 1] = it
      /\ \A r \in 1..Len(requests) : requests'[r] = requests[r]
  BY <1>0, <1>1, <1>4, AppendedSeq
<1>6. ASSUME NEW r \in 1..Len(requests)
      PROVE  requests[r] # it
  <2>1. CurrentRequest(a, m) = 0
    BY DEF PrepareMutation
  <2>2. ~ RequestMatches(r, a, m)
    BY <1>0, <2>1, CurrentRequestMatches
  <2> QED BY <1>3, <1>4, <2>2 DEF RequestMatches
<1> QED BY <1>2, <1>4, <1>5, <1>6 DEF PrepareMutation

(* The events a suitcase has grow by what its pass adds; answers among     *)
(* them are new.                                                           *)
Logged(s) ==
  /\ log' \in [Suitcases -> Seq(Events)]
  /\ \A t \in Suitcases \ {s} : log'[t] = log[t]
  /\ Len(log[s]) <= Len(log'[s])
  /\ \A i \in 1..Len(log[s]) : log'[s][i] = log[s][i]

LEMMA BeginPassEffects ==
  ASSUME MutationTypeOK, NEW s \in Suitcases, NEW captured \in SUBSET Apps,
         BeginPass(s, captured)
  PROVE  /\ Logged(s)
         /\ \A i \in 1..Len(log'[s]) : i > Len(log[s]) => log'[s][i].t = "data"
         /\ queued' \in [Suitcases -> Nat] /\ queued'[s] = Len(log'[s])
         /\ \A t \in Suitcases \ {s} : queued'[t] = queued[t]
         /\ count' \in [data : 0..MaxData, faults : 0..MaxFaults]
<1>0. /\ log \in [Suitcases -> Seq(Events)] /\ log[s] \in Seq(Events) /\ Len(log[s]) \in Nat
      /\ queued \in [Suitcases -> Nat] /\ count \in [data : 0..MaxData, faults : 0..MaxFaults]
  BY TypeParts
<1>1. IsFiniteSet(captured) /\ Cardinality(captured) \in Nat
  BY AppsAssumption, FS_Subset, FS_CardinalityType
<1> DEFINE data == {Data(a) : a \in captured}
           events == SetToSeq(data)
<1>2. IsFiniteSet(data)
  <2> DEFINE f == [a \in captured |-> Data(a)]
  <2>1. f \in Surjection(captured, data)
    BY DEF Surjection
  <2> QED BY <1>1, <2>1, FS_Surjection
<1>3. data \subseteq Events /\ \A e \in data : e.t = "data"
  BY DEF Events, Data
<1>4. log' = [log EXCEPT ![s] = log[s] \o events]
      /\ queued' = [queued EXCEPT ![s] = Len(log[s]) + Len(events)]
  BY DEF BeginPass
<1>5. count' \in [data : 0..MaxData, faults : 0..MaxFaults]
  <2>1. count.data + Cardinality(captured) \in 0..MaxData
    BY <1>0, <1>1, BoundAssumption DEF BeginPass
  <2> QED BY <1>0, <2>1 DEF BeginPass
<1>6. events \in Seq(data)
  BY <1>2, SetToSeqFacts
<1> HIDE DEF events, data
<1>7. events \in Seq(Events) /\ \A i \in 1..Len(events) : events[i].t = "data"
  BY <1>3, <1>6, MoreInSeq
<1>8. /\ log'[s] = log[s] \o events /\ log[s] \o events \in Seq(Events)
      /\ Len(log'[s]) = Len(log[s]) + Len(events) /\ Len(events) \in Nat
      /\ \A i \in 1..Len(log[s]) : log'[s][i] = log[s][i]
      /\ \A i \in 1..(Len(log[s]) + Len(events)) :
           i > Len(log[s]) => i - Len(log[s]) \in 1..Len(events)
                                /\ log'[s][i] = events[i - Len(log[s])]
  BY <1>0, <1>4, <1>7, JoinedSeq
<1>9. Logged(s)
  BY <1>0, <1>4, <1>8 DEF Logged
<1> QED BY <1>0, <1>4, <1>5, <1>7, <1>8, <1>9

(* One request is answered that was not, and its suitcase has now agreed.  *)
LEMMA AcknowledgeEffects ==
  ASSUME MutationTypeOK, NEW s \in Suitcases, Acknowledge(s)
  PROVE  \E r \in 1..Len(requests) :
           /\ Logged(s) /\ Len(log'[s]) = Len(log[s]) + 1
           /\ log'[s][Len(log[s]) + 1] = Ack(r)
           /\ \A i \in 1..Len(log[s]) : log[s][i] # Ack(r)
           /\ agreed' \in [Apps -> [Suitcases -> SUBSET Mutations]]
           /\ requests[r].m \in agreed'[requests[r].app][s]
           /\ \A a \in Apps, t \in Suitcases : agreed[a][t] \subseteq agreed'[a][t]
<1>0. /\ requests \in Seq(Request) /\ Len(requests) \in Nat /\ DOMAIN requests = 1..Len(requests)
      /\ known[s] \subseteq 1..Len(requests) /\ log \in [Suitcases -> Seq(Events)]
      /\ log[s] \in Seq(Events) /\ agreed \in [Apps -> [Suitcases -> SUBSET Mutations]]
  BY TypeParts
<1> DEFINE Picks == PendingRequests(s)
           r == CHOOSE q \in Picks : \A p \in Picks : q <= p
<1>1. Picks \in SUBSET Nat /\ Picks \subseteq 1..Len(requests) /\ Picks # {}
  <2>1. Picks \subseteq known[s]
    BY DEF PendingRequests
  <2>2. Picks # {}
    BY DEF Acknowledge
  <2> HIDE DEF Picks
  <2> QED BY <1>0, <2>1, <2>2
<1>2. /\ log' = [log EXCEPT ![s] = Append(log[s], Ack(r))]
      /\ agreed' = [agreed EXCEPT ![requests[r].app][s] =
                      agreed[requests[r].app][s] \cup {requests[r].m}]
  BY DEF Acknowledge
<1>3. \E q \in Picks : \A p \in Picks : q <= p
  BY <1>1, Least
<1>4. \A q \in Picks : ~ AcknowledgedIn(s, Len(log[s]), q)
  BY DEF PendingRequests
<1> HIDE DEF Picks
<1>5. r \in Picks
  BY <1>3
<1> HIDE DEF r
<1>6. r \in 1..Len(requests) /\ requests[r] \in Request
  BY <1>0, <1>1, <1>5
<1>7. Ack(r) \in Events
  BY <1>0, <1>6 DEF Events
<1>8. \A i \in 1..Len(log[s]) : log[s][i] # Ack(r)
  BY <1>4, <1>5 DEF AcknowledgedIn
<1>9. /\ log'[s] = Append(log[s], Ack(r)) /\ Append(log[s], Ack(r)) \in Seq(Events)
      /\ Len(log'[s]) = Len(log[s]) + 1 /\ Len(log[s]) \in Nat
      /\ log'[s][Len(log[s]) + 1] = Ack(r)
      /\ \A i \in 1..Len(log[s]) : log'[s][i] = log[s][i]
  BY <1>0, <1>2, <1>7, AppendedSeq
<1>10. Logged(s)
  BY <1>0, <1>2, <1>9 DEF Logged
<1>11. requests[r].app \in Apps /\ requests[r].m \in Mutations
  BY <1>6 DEF Request
<1>12. agreed[requests[r].app][s] \cup {requests[r].m} \in SUBSET Mutations
  BY <1>0, <1>11
<1>13. /\ agreed' \in [Apps -> [Suitcases -> SUBSET Mutations]]
       /\ agreed'[requests[r].app][s] = agreed[requests[r].app][s] \cup {requests[r].m}
       /\ \A b \in Apps, t \in Suitcases : b # requests[r].app \/ t # s =>
            agreed'[b][t] = agreed[b][t]
  BY <1>0, <1>2, <1>11, <1>12, TableUpdate
<1> QED BY <1>6, <1>8, <1>9, <1>10, <1>13

(* A faultless or lossy exchange, a refusal and a crash change nothing     *)
(* that answers are about.                                                 *)
QuietStep(s) ==
  \/ ExchangeFirst(s) \/ ExchangeFlush(s) \/ ExchangeRefused(s) \/ AcknowledgeDone(s)
  \/ AnswerLost(s) \/ Crash(s)

LEMMA QuietEffects ==
  ASSUME MutationTypeOK, NEW s \in Suitcases, QuietStep(s)
  PROVE  MutationTypeOK' /\ UNCHANGED <<homeVars, log, agreed>>
<1>0. /\ stream \in [Suitcases -> Seq(Notices)] /\ local \in [Suitcases -> SUBSET Apps]
      /\ known \in [Suitcases -> SUBSET DOMAIN requests]
      /\ queued \in [Suitcases -> Nat] /\ received \in [Suitcases -> Nat]
      /\ pass \in [Suitcases -> {"idle", "exchange", "answer", "flush"}]
      /\ count \in [data : 0..MaxData, faults : 0..MaxFaults]
      /\ log \in [Suitcases -> Seq(Events)] /\ Len(log[s]) \in Nat
      /\ \A t \in Suitcases : received[t] <= queued[t] /\ queued[t] <= Len(log[t])
  BY TypeParts DEF MutationTypeOK
<1>1. UNCHANGED <<homeVars, log, agreed>>
  BY DEF QuietStep, ExchangeFirst, ExchangeFlush, Exchange, ExchangeRefused, AcknowledgeDone,
     AnswerLost, Crash, homeVars
<1>2. Events' = Events
  BY <1>1 DEF Events, homeVars
<1>3. /\ pass' \in [Suitcases -> {"idle", "exchange", "answer", "flush"}]
      /\ count' \in [data : 0..MaxData, faults : 0..MaxFaults]
  <2>1. count' = count \/ Fault
    BY DEF QuietStep, ExchangeFirst, ExchangeFlush, Exchange, ExchangeRefused, AcknowledgeDone,
       AnswerLost, Crash
  <2>2. count' \in [data : 0..MaxData, faults : 0..MaxFaults]
    BY <1>0, <2>1, BoundAssumption DEF Fault
  <2>3. \E p \in {"idle", "answer", "flush"} : pass' = [pass EXCEPT ![s] = p]
    BY DEF QuietStep, ExchangeFirst, ExchangeFlush, Exchange, ExchangeRefused, AcknowledgeDone,
       AnswerLost, Crash
  <2> QED BY <1>0, <2>2, <2>3
<1>4. /\ queued' \in [Suitcases -> Nat] /\ received' \in [Suitcases -> Nat]
      /\ \A t \in Suitcases : received'[t] <= queued'[t] /\ queued'[t] <= Len(log[t])
  <2>1. \/ UNCHANGED <<queued, received>>
        \/ queued' = queued /\ received' = [received EXCEPT ![s] = queued[s]]
        \/ received' = received /\ queued' = [queued EXCEPT ![s] = Len(log[s])]
    BY <1>0 DEF QuietStep, ExchangeFirst, ExchangeFlush, Exchange, ExchangeRefused,
       AcknowledgeDone, AnswerLost, Crash
  <2>2. ASSUME NEW t \in Suitcases
        PROVE  /\ queued'[t] \in Nat /\ received'[t] \in Nat
               /\ received'[t] <= queued'[t] /\ queued'[t] <= Len(log[t])
    <3>1. /\ received[t] <= queued[t] /\ queued[t] <= Len(log[t]) /\ received[t] \in Nat
          /\ queued[t] \in Nat /\ Len(log[t]) \in Nat
      BY <1>0
    <3>2. CASE t = s
      BY <1>0, <2>1, <3>1, <3>2
    <3>3. CASE t # s
      BY <1>0, <2>1, <3>1, <3>3
    <3> QED BY <3>2, <3>3
  <2>3. queued' \in [Suitcases -> Nat] /\ received' \in [Suitcases -> Nat]
    BY <1>0, <2>1
  <2> QED BY <2>2, <2>3
<1>5. /\ stream' \in [Suitcases -> Seq(Notices)] /\ local' \in [Suitcases -> SUBSET Apps]
      /\ known' \in [Suitcases -> SUBSET DOMAIN requests]
  <2>1. CASE ExchangeFirst(s) \/ ExchangeFlush(s)
    <3>1. PICK n \in 0..Len(stream[s]) :
            /\ local' = [local EXCEPT ![s] = Projected(local[s], SubSeq(stream[s], 1, n))]
            /\ stream' = [stream EXCEPT ![s] = SubSeq(stream[s], n + 1, Len(stream[s]))]
      BY <2>1 DEF ExchangeFirst, ExchangeFlush, Exchange
    <3>2. SubSeq(stream[s], n + 1, Len(stream[s])) \in Seq(Notices)
      BY <1>0, RestOfSeq
    <3>3. \A events : Projected(local[s], events) \subseteq Apps
      BY DEF Projected
    <3>4. known' = [known EXCEPT ![s] = known[s] \cup OpenRequests(s)]
      BY <2>1 DEF ExchangeFirst, ExchangeFlush, Exchange
    <3>5. OpenRequests(s) \subseteq DOMAIN requests
      BY DEF OpenRequests
    <3> QED BY <1>0, <3>1, <3>2, <3>3, <3>4, <3>5
  <2>2. CASE ~ (ExchangeFirst(s) \/ ExchangeFlush(s))
    BY <1>0, <2>2 DEF QuietStep, ExchangeRefused, AcknowledgeDone, AnswerLost, Crash
  <2> QED BY <2>1, <2>2
<1> QED BY <1>1, <1>2, <1>3, <1>4, <1>5 DEF MutationTypeOK, homeVars

-----------------------------------------------------------------------------
(* Each kind of step keeps the invariant.                                  *)
LEMMA QuietKeeps ==
  ASSUME MutationInv, NEW s \in Suitcases, QuietStep(s)
  PROVE  MutationInv'
<1>1. MutationTypeOK' /\ UNCHANGED <<homeVars, log, agreed>>
  BY QuietEffects DEF MutationInv
<1>2. AskedAndAnsweredOnce' /\ TokensPast' /\ AnswersAgree'
  BY <1>1 DEF MutationInv, AskedAndAnsweredOnce, TokensPast, AnswersAgree, Answered, homeVars
<1> QED BY <1>1, <1>2 DEF MutationInv

LEMMA BeginPassKeeps ==
  ASSUME MutationInv, NEW s \in Suitcases, NEW captured \in SUBSET Apps, BeginPass(s, captured)
  PROVE  MutationInv'
<1>0. MutationTypeOK
  BY DEF MutationInv
<1>1. UNCHANGED <<homeVars, stream, received, agreed, local, known>>
      /\ pass' = [pass EXCEPT ![s] = "exchange"]
  BY DEF BeginPass
<1>2. /\ Logged(s) /\ \A i \in 1..Len(log'[s]) : i > Len(log[s]) => log'[s][i].t = "data"
      /\ queued' \in [Suitcases -> Nat] /\ queued'[s] = Len(log'[s])
      /\ \A t \in Suitcases \ {s} : queued'[t] = queued[t]
      /\ count' \in [data : 0..MaxData, faults : 0..MaxFaults]
  BY <1>0, BeginPassEffects
<1>3. \A t \in Suitcases : /\ log[t] \in Seq(Events) /\ Len(log[t]) \in Nat
                           /\ log'[t] \in Seq(Events) /\ Len(log'[t]) \in Nat
                           /\ DOMAIN log[t] = 1..Len(log[t]) /\ DOMAIN log'[t] = 1..Len(log'[t])
  BY <1>0, <1>2, TypeParts DEF Logged
<1>4. MutationTypeOK'
  <2>1. \A t \in Suitcases : received'[t] <= queued'[t] /\ queued'[t] <= Len(log'[t])
    <3>1. received[s] <= queued[s] /\ queued[s] <= Len(log[s]) /\ Len(log[s]) <= Len(log'[s])
      BY <1>2, <1>0 DEF MutationTypeOK, Logged
    <3>2. received[s] \in Nat /\ queued[s] \in Nat
      BY <1>0, TypeParts
    <3>3. received[s] <= Len(log'[s])
      BY <1>3, <3>1, <3>2
    <3>4. ASSUME NEW t \in Suitcases, t # s
          PROVE  received'[t] <= queued'[t] /\ queued'[t] <= Len(log'[t])
      <4>1. log'[t] = log[t] /\ queued'[t] = queued[t] /\ received'[t] = received[t]
        BY <1>1, <1>2, <3>4 DEF Logged
      <4>2. received[t] <= queued[t] /\ queued[t] <= Len(log[t])
        BY <1>0 DEF MutationTypeOK
      <4> QED BY <4>1, <4>2
    <3>5. received'[s] <= queued'[s] /\ queued'[s] <= Len(log'[s])
      BY <1>1, <1>2, <1>3, <3>3
    <3> QED BY <3>4, <3>5
  <2>2. Events' = Events
    BY <1>1 DEF Events, homeVars
  <2> QED BY <1>0, <1>1, <1>2, <2>1, <2>2 DEF MutationTypeOK, Logged, homeVars
(* Only data was added.                                                    *)
<1>5. ASSUME NEW t \in Suitcases, NEW i \in 1..Len(log'[t]), log'[t][i].t = "ack"
      PROVE  i \in 1..Len(log[t]) /\ log[t][i] = log'[t][i]
  <2>1. CASE t = s
    BY <1>2, <1>3, <1>5, <2>1 DEF Logged
  <2>2. CASE t # s
    BY <1>2, <1>5, <2>2 DEF Logged
  <2> QED BY <2>1, <2>2
<1>6. AskedAndAnsweredOnce'
  <2>1. \A q, r \in DOMAIN requests' : requests'[q] = requests'[r] => q = r
    BY <1>1 DEF MutationInv, AskedAndAnsweredOnce, homeVars
  <2>2. ASSUME NEW t \in Suitcases, NEW i \in 1..Len(log'[t]), NEW j \in 1..Len(log'[t]),
               log'[t][i].t = "ack", log'[t][i] = log'[t][j]
        PROVE  i = j
    <3>1. /\ i \in 1..Len(log[t]) /\ log[t][i] = log'[t][i]
          /\ j \in 1..Len(log[t]) /\ log[t][j] = log'[t][j]
      BY <1>5, <2>2
    <3> QED BY <1>3, <2>2, <3>1 DEF MutationInv, AskedAndAnsweredOnce
  <2> QED BY <1>3, <2>1, <2>2 DEF AskedAndAnsweredOnce
<1>7. AnswersAgree'
  <2>1. \A r : \A t \in Suitcases : Answered(t, r)' => Answered(t, r)
    <3> SUFFICES ASSUME NEW t \in Suitcases, NEW r, NEW i \in 1..Len(log'[t]),
                        log'[t][i] = Ack(r)
                 PROVE  Answered(t, r)
      BY <1>3 DEF Answered
    <3> QED BY <1>0, <1>3, <1>5, EventFacts DEF Answered
  <2> QED BY <1>1, <2>1 DEF MutationInv, AnswersAgree, homeVars
<1> QED BY <1>1, <1>4, <1>6, <1>7 DEF MutationInv, TokensPast, homeVars

LEMMA AcknowledgeKeeps ==
  ASSUME MutationInv, NEW s \in Suitcases, Acknowledge(s)
  PROVE  MutationInv'
<1>0. MutationTypeOK
  BY DEF MutationInv
<1>1. UNCHANGED <<homeVars, stream, received, count, local, known, queued, pass>>
  BY DEF Acknowledge
<1>2. PICK r \in 1..Len(requests) :
           /\ Logged(s) /\ Len(log'[s]) = Len(log[s]) + 1
           /\ log'[s][Len(log[s]) + 1] = Ack(r)
           /\ \A i \in 1..Len(log[s]) : log[s][i] # Ack(r)
           /\ agreed' \in [Apps -> [Suitcases -> SUBSET Mutations]]
           /\ requests[r].m \in agreed'[requests[r].app][s]
           /\ \A a \in Apps, t \in Suitcases : agreed[a][t] \subseteq agreed'[a][t]
  BY <1>0, AcknowledgeEffects
<1>3. \A t \in Suitcases : /\ log[t] \in Seq(Events) /\ Len(log[t]) \in Nat
                           /\ log'[t] \in Seq(Events) /\ Len(log'[t]) \in Nat
                           /\ DOMAIN log[t] = 1..Len(log[t]) /\ DOMAIN log'[t] = 1..Len(log'[t])
  BY <1>0, <1>2, TypeParts DEF Logged
<1>4. MutationTypeOK'
  <2>1. ASSUME NEW t \in Suitcases
        PROVE  received'[t] <= queued'[t] /\ queued'[t] <= Len(log'[t])
    <3>1. received[t] <= queued[t] /\ queued[t] <= Len(log[t])
      BY <1>0 DEF MutationTypeOK
    <3>3. Len(log[t]) <= Len(log'[t])
      <4>1. CASE t = s
        BY <1>2, <4>1 DEF Logged
      <4>2. CASE t # s
        <5>1. log'[t] = log[t]
          BY <1>2, <4>2 DEF Logged
        <5> QED BY <1>3, <5>1
      <4> QED BY <4>1, <4>2
    <3>2. received[t] \in Nat /\ queued[t] \in Nat
      BY <1>0, TypeParts
    <3> QED BY <1>1, <1>3, <3>1, <3>2, <3>3
  <2>2. Events' = Events
    BY <1>1 DEF Events, homeVars
  <2> QED BY <1>0, <1>1, <1>2, <2>1, <2>2 DEF MutationTypeOK, Logged, homeVars
<1>5. ASSUME NEW t \in Suitcases, NEW i \in 1..Len(log'[t])
      PROVE  \/ i \in 1..Len(log[t]) /\ log[t][i] = log'[t][i]
             \/ t = s /\ i = Len(log[t]) + 1 /\ log'[t][i] = Ack(r)
  BY <1>2, <1>3, <1>5 DEF Logged
<1>6. AskedAndAnsweredOnce'
  <2>1. \A p, q \in DOMAIN requests' : requests'[p] = requests'[q] => p = q
    BY <1>1 DEF MutationInv, AskedAndAnsweredOnce, homeVars
  <2>2. ASSUME NEW t \in Suitcases, NEW i \in 1..Len(log'[t]), NEW j \in 1..Len(log'[t]),
               log'[t][i].t = "ack", log'[t][i] = log'[t][j]
        PROVE  i = j
    <3>1. \/ i \in 1..Len(log[t]) /\ log[t][i] = log'[t][i]
          \/ t = s /\ i = Len(log[t]) + 1 /\ log'[t][i] = Ack(r)
      BY <1>5
    <3>2. \/ j \in 1..Len(log[t]) /\ log[t][j] = log'[t][j]
          \/ t = s /\ j = Len(log[t]) + 1 /\ log'[t][j] = Ack(r)
      BY <1>5
    <3>3. \A k \in 1..Len(log[s]) : log[s][k] # Ack(r)
      BY <1>2
    <3>4. \A k, l \in 1..Len(log[t]) : log[t][k].t = "ack" /\ log[t][k] = log[t][l] => k = l
      BY <1>3 DEF MutationInv, AskedAndAnsweredOnce
    <3> QED BY <2>2, <3>1, <3>2, <3>3, <3>4
  <2> QED BY <1>3, <2>1, <2>2 DEF AskedAndAnsweredOnce
<1>7. AnswersAgree'
  <2> SUFFICES ASSUME NEW t \in Suitcases, NEW q \in DOMAIN requests, NEW a \in Apps,
                      Answered(t, q)', a = requests[q].app,
                      requests[q].tokens[t] = replica[a][t].token, t \notin cut[a]
               PROVE  requests[q].m \in agreed'[a][t]
    BY <1>1 DEF AnswersAgree, homeVars
  <2>1. PICK i \in 1..Len(log'[t]) : log'[t][i] = Ack(q)
    BY <1>3 DEF Answered
  <2>2. CASE i \in 1..Len(log[t]) /\ log[t][i] = log'[t][i]
    <3>1. Answered(t, q)
      BY <1>3, <2>1, <2>2 DEF Answered
    <3> QED BY <1>2, <3>1 DEF MutationInv, AnswersAgree
  <2>3. CASE t = s /\ log'[t][i] = Ack(r)
    <3>1. q = r
      BY <2>1, <2>3 DEF Ack
    <3> QED BY <1>2, <2>3, <3>1
  <2> QED BY <1>5, <2>2, <2>3
<1> QED BY <1>1, <1>4, <1>6, <1>7 DEF MutationInv, TokensPast, homeVars

LEMMA AdministersKeeps ==
  ASSUME MutationInv, NEW a \in Apps, NEW s \in Suitcases, Administers(a, s)
  PROVE  MutationInv'
<1>0. MutationTypeOK
  BY DEF MutationInv
<1>1. /\ Administered(a, s) /\ UNCHANGED <<requests, received, suitcaseVars>>
      /\ stream' \in [Suitcases -> Seq(Notices)]
      /\ count' \in [data : 0..MaxData, faults : 0..MaxFaults]
  BY <1>0, AdministersEffects
<1>2. /\ \A b \in Apps, t \in Suitcases : replica[b][t] \in Replica /\ replica'[b][t] \in Replica
      /\ tokens \in Nat /\ tokens' \in Nat /\ requests \in Seq(Request)
      /\ DOMAIN requests = 1..Len(requests)
      /\ \A b \in Apps, t \in Suitcases : replica[b][t].token \in Nat
  <2>1. replica' \in [Apps -> [Suitcases -> Replica]] /\ tokens' \in 0..MaxTokens
    BY <1>1 DEF Administered
  <2>2. replica \in [Apps -> [Suitcases -> Replica]]
    BY <1>0, TypeParts
  <2>3. \A x \in Replica : x.token \in Nat
    BY BoundAssumption DEF Replica
  <2>4. \A b \in Apps, t \in Suitcases : replica[b][t] \in Replica /\ replica'[b][t] \in Replica
    BY <2>1, <2>2
  <2>5. \A b \in Apps, t \in Suitcases : replica[b][t].token \in Nat
    BY <2>3, <2>4
  <2>6. tokens \in Nat /\ requests \in Seq(Request) /\ DOMAIN requests = 1..Len(requests)
    BY <1>0, TypeParts
  <2>7. tokens' \in Nat
    BY <2>1, BoundAssumption
  <2> QED BY <2>4, <2>5, <2>6, <2>7
<1>3. ASSUME NEW r \in DOMAIN requests, NEW t \in Suitcases
      PROVE  requests[r].tokens[t] \in Nat
  <2>1. requests[r] \in Request
    BY <1>2
  <2>2. requests[r].tokens \in [Suitcases -> 0..MaxTokens]
    BY <2>1 DEF Request
  <2> QED BY <2>2, BoundAssumption
<1>4. MutationTypeOK'
  <2>1. Events' = Events
    BY <1>1 DEF Events
  <2> QED BY <1>0, <1>1, <2>1 DEF MutationTypeOK, Administered, Replica, suitcaseVars
<1>5. AskedAndAnsweredOnce'
  BY <1>1 DEF MutationInv, AskedAndAnsweredOnce, suitcaseVars
<1>6. TokensPast'
  <2>1. tokens <= tokens'
    BY <1>1, <1>2 DEF Administered
  <2>2. ASSUME NEW r \in DOMAIN requests, NEW t \in Suitcases
        PROVE  requests[r].tokens[t] <= tokens'
    <3>1. requests[r].tokens[t] <= tokens
      BY DEF MutationInv, TokensPast
    <3> QED BY <1>2, <1>3, <2>1, <3>1
  <2>3. ASSUME NEW b \in Apps, NEW t \in Suitcases
        PROVE  replica'[b][t].token <= tokens'
    <3>1. replica[b][t].token <= tokens /\ replica[b][t].token \in Nat
      BY <1>2 DEF MutationInv, TokensPast
    <3>2. \/ replica'[b][t].token = replica[b][t].token
          \/ tokens' = tokens + 1 /\ replica'[b][t].token = tokens + 1
      <4>1. CASE b = a /\ t = s
        BY <1>1, <4>1 DEF Administered
      <4>2. CASE b # a \/ t # s
        BY <1>1, <4>2 DEF Administered
      <4> QED BY <4>1, <4>2
    <3> QED BY <1>2, <2>1, <3>1, <3>2
  <2> QED BY <1>1, <2>2, <2>3 DEF TokensPast
(* A token just given is in no request; one that stays keeps its answers,  *)
(* unless the selection was cut off.                                       *)
<1>7. AnswersAgree'
  <2> SUFFICES ASSUME NEW t \in Suitcases, NEW r \in DOMAIN requests, NEW b \in Apps,
                      Answered(t, r), b = requests[r].app,
                      requests[r].tokens[t] = replica'[b][t].token, t \notin cut'[b]
               PROVE  requests[r].m \in agreed'[b][t]
    BY <1>1 DEF AnswersAgree, Answered, suitcaseVars
  <2>1. requests[r].tokens[t] = replica[b][t].token /\ t \notin cut[b] =>
          requests[r].m \in agreed[b][t]
    BY DEF MutationInv, AnswersAgree
  <2>2. CASE b # a \/ t # s
    BY <1>1, <2>1, <2>2 DEF Administered
  <2>3. CASE b = a /\ t = s
    <3>1. requests[r].tokens[t] <= tokens
      BY DEF MutationInv, TokensPast
    <3>2. replica'[a][s].token # tokens + 1
      BY <1>2, <1>3, <2>3, <3>1
    <3>3. replica'[a][s].token = replica[a][s].token /\ UNCHANGED <<agreed, cut>>
      BY <1>1, <2>3, <3>2 DEF Administered
    <3> QED BY <2>1, <2>3, <3>3
  <2> QED BY <2>2, <2>3
<1> QED BY <1>4, <1>5, <1>6, <1>7 DEF MutationInv

LEMMA PrepareKeeps ==
  ASSUME MutationInv, NEW a \in Apps, NEW m \in Mutations, PrepareMutation(a, m)
  PROVE  MutationInv'
<1>0. MutationTypeOK
  BY DEF MutationInv
<1>1. /\ requests' \in Seq(Request) /\ Len(requests') = Len(requests) + 1
      /\ DOMAIN requests' = 1..(Len(requests) + 1)
      /\ \A r \in 1..Len(requests) :
           requests'[r] = requests[r] /\ requests'[Len(requests) + 1] # requests[r]
      /\ \A s \in Suitcases : requests'[Len(requests) + 1].tokens[s] <= tokens
      /\ UNCHANGED <<replica, tokens, cut, stream, received, agreed, count, suitcaseVars>>
  BY PrepareEffects
<1>2. /\ Len(requests) \in Nat /\ DOMAIN requests = 1..Len(requests)
      /\ log \in [Suitcases -> Seq(Events)]
  BY <1>0, TypeParts
<1>3. \A r \in DOMAIN requests' : r \in 1..Len(requests) \/ r = Len(requests) + 1
  BY <1>1, <1>2
<1>4. MutationTypeOK'
  <2>1. Events \subseteq Events'
    BY <1>1, <1>2 DEF Events
  <2>2. ASSUME NEW s \in Suitcases
        PROVE  log[s] \in Seq(Events')
    BY <1>2, <2>1, MoreInSeq
  <2>3. log' \in [Suitcases -> Seq(Events')]
    BY <1>1, <1>2, <2>2 DEF suitcaseVars
  <2>4. known' \in [Suitcases -> SUBSET DOMAIN requests']
    <3>1. DOMAIN requests \subseteq DOMAIN requests'
      BY <1>1, <1>2
    <3> QED BY <1>0, <1>1, <3>1 DEF MutationTypeOK, suitcaseVars
  <2> QED BY <1>0, <1>1, <2>3, <2>4 DEF MutationTypeOK, suitcaseVars
<1>5. AskedAndAnsweredOnce'
  <2>1. ASSUME NEW q \in DOMAIN requests', NEW r \in DOMAIN requests', requests'[q] = requests'[r]
        PROVE  q = r
    <3>1. \A k, l \in 1..Len(requests) : requests[k] = requests[l] => k = l
      BY <1>2 DEF MutationInv, AskedAndAnsweredOnce
    <3> QED BY <1>1, <1>3, <2>1, <3>1
  <2>2. log' = log
    BY <1>1 DEF suitcaseVars
  <2> QED BY <2>1, <2>2 DEF MutationInv, AskedAndAnsweredOnce
<1>6. TokensPast'
  <2>1. ASSUME NEW r \in DOMAIN requests', NEW s \in Suitcases
        PROVE  requests'[r].tokens[s] <= tokens
    BY <1>1, <1>2, <1>3 DEF MutationInv, TokensPast
  <2> QED BY <1>1, <2>1 DEF MutationInv, TokensPast
(* The new request has no answer yet.                                      *)
<1>7. AnswersAgree'
  <2> SUFFICES ASSUME NEW s \in Suitcases, NEW r \in DOMAIN requests', NEW b \in Apps,
                      Answered(s, r), b = requests'[r].app,
                      requests'[r].tokens[s] = replica[b][s].token, s \notin cut[b]
               PROVE  requests'[r].m \in agreed[b][s]
    BY <1>1 DEF AnswersAgree, Answered, suitcaseVars
  <2>1. PICK i \in 1..Len(log[s]) : log[s][i] = Ack(r)
    BY <1>0, EventFacts DEF Answered
  <2>2. log[s][i] \in Events /\ log[s][i].t = "ack" /\ log[s][i].r = r
    BY <1>0, <2>1, EventFacts
  <2>3. r \in 1..Len(requests)
    BY <1>0, <2>2, EventFacts
  <2> QED BY <1>1, <1>2, <2>3 DEF MutationInv, AnswersAgree
<1> QED BY <1>4, <1>5, <1>6, <1>7 DEF MutationInv

-----------------------------------------------------------------------------
(* The theorems.                                                           *)
LEMMA MutationInvInit == MutationInit => MutationInv
<1> SUFFICES ASSUME MutationInit
             PROVE  MutationInv
  OBVIOUS
<1>1. /\ requests = <<>> /\ tokens = 0 /\ DOMAIN requests = {}
      /\ \A a \in Apps, s \in Suitcases : replica[a][s].token = 0
      /\ \A s \in Suitcases : DOMAIN log[s] = {}
  BY DEF MutationInit, NoReplica
<1>2. MutationTypeOK
  <2>1. <<>> \in Seq(Request) /\ <<>> \in Seq(Notices) /\ <<>> \in Seq(Events) /\ Len(<<>>) = 0
    OBVIOUS
  <2>2. 0 \in 0..MaxTokens /\ count \in [data : 0..MaxData, faults : 0..MaxFaults]
    BY BoundAssumption DEF MutationInit
  <2> QED BY <2>1, <2>2 DEF MutationInit, MutationTypeOK, NoReplica
<1>3. AskedAndAnsweredOnce /\ TokensPast /\ AnswersAgree
  BY <1>1 DEF AskedAndAnsweredOnce, TokensPast, AnswersAgree
<1> QED BY <1>2, <1>3 DEF MutationInv

LEMMA MutationInvStep == MutationInv /\ [MutationNext]_mutationVars => MutationInv'
<1> SUFFICES ASSUME MutationInv, [MutationNext]_mutationVars
             PROVE  MutationInv'
  OBVIOUS
<1>1. ASSUME NEW s \in Suitcases, Passes(s) \/ AnswerLost(s) \/ Crash(s)
      PROVE  MutationInv'
  <2>1. CASE \E captured \in SUBSET Apps : BeginPass(s, captured)
    BY <2>1, BeginPassKeeps
  <2>2. CASE Acknowledge(s)
    BY <2>2, AcknowledgeKeeps
  <2>3. CASE QuietStep(s)
    BY <2>3, QuietKeeps
  <2> QED BY <1>1, <2>1, <2>2, <2>3 DEF Passes, QuietStep
<1>2. ASSUME NEW a \in Apps, NEW s \in Suitcases, Administers(a, s)
      PROVE  MutationInv'
  BY <1>2, AdministersKeeps
<1>3. ASSUME NEW a \in Apps, NEW m \in Mutations, PrepareMutation(a, m)
      PROVE  MutationInv'
  BY <1>3, PrepareKeeps
<1>4. CASE UNCHANGED mutationVars
  BY <1>4, ZenonT(40) DEF mutationVars, homeVars, suitcaseVars, MutationInv, MutationTypeOK, Events,
     AskedAndAnsweredOnce, TokensPast, AnswersAgree, Answered
<1> QED BY <1>1, <1>2, <1>3, <1>4 DEF MutationNext

LEMMA MutationInvAlways == MutationSpec => []MutationInv
BY MutationInvInit, MutationInvStep, PTL DEF MutationSpec

(* A blocked change is asked for once and a request is answered once by    *)
(* each suitcase, for any number of them, of retries, of lost answers and  *)
(* of crashes (fleet-mutation-guard.ts 277, 330).                          *)
THEOREM RequestsAreSound == MutationSpec => []RequestsSound
<1>1. MutationInv => RequestsSound
  BY DEF MutationInv, RequestsSound
<1> QED BY <1>1, MutationInvAlways, PTL

(* What the gate promises: a change it lets pass has been acknowledged by  *)
(* every replica active now since Home selected it or changed its policy,  *)
(* but for selections that a crash of Home cut off (fleet-mutation-guard   *)
(* .ts 118-150, fleet-replicas.ts 340).                                    *)
THEOREM EveryReplicaHasAgreed == MutationSpec => []EveryReplicaAgreed
<1>1. MutationInv => EveryReplicaAgreed
  <2> SUFFICES ASSUME MutationInv, NEW a \in Apps, NEW m \in Mutations, GateReady(a, m),
                      NEW s \in ActiveReplicas(a) \ cut[a]
               PROVE  m \in agreed[a][s]
    BY DEF EveryReplicaAgreed
  <2> DEFINE r == CurrentRequest(a, m)
  <2>1. MutationTypeOK /\ s \in Suitcases
    BY DEF MutationInv, ActiveReplicas
  <2>2. r # 0 /\ AcknowledgedIn(s, received[s], r)
    BY DEF GateReady
  <2>3. r \in 1..Len(requests) /\ RequestMatches(r, a, m)
    BY <2>1, <2>2, CurrentRequestMatches
  <2> HIDE DEF r
  <2>4. /\ received[s] \in Nat /\ queued[s] \in Nat /\ Len(log[s]) \in Nat
        /\ received[s] <= queued[s] /\ queued[s] <= Len(log[s])
        /\ DOMAIN log[s] = 1..Len(log[s]) /\ DOMAIN requests = 1..Len(requests)
    BY <2>1, TypeParts, EventFacts DEF MutationTypeOK
  <2>5. Answered(s, r)
    BY <2>2, <2>4 DEF AcknowledgedIn, Answered
  <2>6. requests[r].app = a /\ requests[r].m = m /\ requests[r].tokens[s] = replica[a][s].token
    BY <2>3 DEF RequestMatches
  <2> QED BY <2>1, <2>3, <2>4, <2>5, <2>6 DEF MutationInv, AnswersAgree
<1> QED BY <1>1, MutationInvAlways, PTL
=============================================================================
