--------------------------- MODULE AdmissionProofs ---------------------------
(***************************************************************************)
(* The safety of the two gates a deploy passes, each for every value of    *)
(* its own constants: the admission queue of DeployAdmission and the       *)
(* handlers of RevisionAdmission that change an application's revision.    *)
(* The two specifications share nothing; only their proofs sit together.   *)
(***************************************************************************)
EXTENDS DeployAdmission, RevisionAdmission, FiniteSetTheorems, SequenceTheorems, TLAPS

-----------------------------------------------------------------------------
(* The deploy admission queue.  All of it hangs on one lemma about         *)
(* dispatch(): run on a state whose active names are those of its leases,  *)
(* it leaves such a state, within the limit, with nothing left to grant.   *)

ActiveWithinLimit == Cardinality(active) =< MaxConcurrent

(* What every operation of the queue preserves. *)
AdmissionInv ==
  /\ AdmissionTypeOK
  /\ ActiveIsHeld
  /\ OneLeasePerApp
  /\ ActiveWithinLimit
  /\ WorkConserving

LeasedIn(st) == {r \in Requests : st[r] = "leased"}

(* dispatch() on any settled state st whose leases exclude each other and  *)
(* are exactly the active names A re-establishes the whole invariant.      *)
LEMMA DispatchSound ==
  ASSUME NEW st \in [Requests -> RequestStatuses],
         NEW before \in [Requests -> SUBSET Requests],
         NEW A \in SUBSET Apps,
         A = AppsOf(LeasedIn(st)),
         \A r, s \in LeasedIn(st) : AppOf[r] = AppOf[s] => r = s,
         DispatchFrom(st, before, A)
  PROVE  AdmissionInv'
<1> DEFINE Q == {r \in Requests : st[r] = "queued"}
<1>1. PICK G \in SUBSET Q :
        /\ Dispatches(G, Q, before, A)
        /\ status' = [r \in Requests |-> IF r \in G THEN "leased" ELSE st[r]]
        /\ ahead' = [r \in Requests |-> IF r \in G THEN {} ELSE before[r] \ G]
        /\ active' = A \cup AppsOf(G)
  BY DEF DispatchFrom
<1>2. G \subseteq Requests /\ \A r \in G : st[r] = "queued"
  OBVIOUS
<1>3. AdmissionTypeOK'
  <2>1. status' \in [Requests -> RequestStatuses]
    BY <1>1 DEF RequestStatuses
  <2>2. ahead' \in [Requests -> SUBSET Requests]
    BY <1>1
  <2>3. active' \in SUBSET Apps
    BY <1>1, <1>2, AppOfAssumption DEF AppsOf
  <2> QED BY <2>1, <2>2, <2>3 DEF AdmissionTypeOK
<1>4. LeasedRequests' = LeasedIn(st) \cup G
  BY <1>1, <1>2 DEF LeasedRequests, LeasedIn
<1>5. ActiveIsHeld'
  <2>1. active' = AppsOf(LeasedIn(st) \cup G)
    BY <1>1 DEF AppsOf
  <2> QED BY <2>1, <1>4 DEF ActiveIsHeld, AppsOf
<1>6. OneLeasePerApp'
  <2> SUFFICES ASSUME NEW r \in LeasedIn(st) \cup G, NEW s \in LeasedIn(st) \cup G,
                      AppOf[r] = AppOf[s]
               PROVE  r = s
    BY <1>4 DEF OneLeasePerApp
  <2>1. \A x \in G, y \in LeasedIn(st) : AppOf[x] # AppOf[y]
    BY <1>1 DEF Dispatches, DispatchesSome, AppsOf
  <2>2. \A x, y \in G : AppOf[x] = AppOf[y] => x = y
    BY <1>1 DEF Dispatches, DispatchesSome
  <2> QED BY <2>1, <2>2
<1>7. ActiveWithinLimit'
  BY <1>1 DEF ActiveWithinLimit, Dispatches, DispatchesSome
<1>8. WorkConserving'
  <2> SUFFICES ASSUME NEW r \in Requests, status'[r] = "queued"
               PROVE  AppOf[r] \in active' \/ Cardinality(active') = MaxConcurrent
    BY DEF WorkConserving, Queued
  <2>1. r \in Q \ G
    BY <1>1
  <2> QED BY <1>1, <2>1 DEF Dispatches, DispatchesSome
<1> QED BY <1>3, <1>5, <1>6, <1>7, <1>8 DEF AdmissionInv

(* The invariant holds of the empty queue. *)
LEMMA AdmissionInvInit == AdmissionInit => AdmissionInv
<1> SUFFICES ASSUME AdmissionInit PROVE AdmissionInv
  OBVIOUS
<1>1. LeasedRequests = {} /\ Queued = {}
  BY DEF AdmissionInit, LeasedRequests, Queued
<1>2. Cardinality(active) = 0
  BY FS_EmptySet DEF AdmissionInit
<1>3. AdmissionTypeOK
  BY DEF AdmissionInit, AdmissionTypeOK, RequestStatuses
<1> QED BY <1>1, <1>2, <1>3, MaxConcurrentAssumption
        DEF AdmissionInit, AdmissionInv, ActiveIsHeld, AppsOf, OneLeasePerApp,
            ActiveWithinLimit, WorkConserving

(* Acquiring and cancelling leave the leases as they were; the dispatch    *)
(* that ends them does the rest.                                           *)
LEMMA AdmissionInvStep ==
  AdmissionInv /\ [AdmissionNext]_admissionVars => AdmissionInv'
<1> SUFFICES ASSUME AdmissionInv, [AdmissionNext]_admissionVars
             PROVE  AdmissionInv'
  OBVIOUS
<1> USE DEF AdmissionInv
<1>1. /\ status \in [Requests -> RequestStatuses]
      /\ ahead \in [Requests -> SUBSET Requests]
      /\ active \in SUBSET Apps
      /\ active = AppsOf(LeasedIn(status))
      /\ \A r, s \in LeasedIn(status) : AppOf[r] = AppOf[s] => r = s
  BY DEF AdmissionTypeOK, ActiveIsHeld, OneLeasePerApp, LeasedRequests, LeasedIn
<1>2. ASSUME NEW r \in Requests, Acquire(r) PROVE AdmissionInv'
  <2> DEFINE st == [status EXCEPT ![r] = "queued"]
             before == [ahead EXCEPT ![r] = Queued]
  <2>1. st \in [Requests -> RequestStatuses] /\ before \in [Requests -> SUBSET Requests]
    BY <1>1 DEF RequestStatuses, Queued
  <2>2. LeasedIn(st) = LeasedIn(status)
    BY <1>1, <1>2 DEF Acquire, LeasedIn
  <2>3. DispatchFrom(st, before, active)
    BY <1>2 DEF Acquire
  <2> HIDE DEF st, before
  <2> QED BY <1>1, <2>1, <2>2, <2>3, DispatchSound
<1>3. ASSUME NEW r \in Requests, Release(r) PROVE AdmissionInv'
  <2> DEFINE st == [status EXCEPT ![r] = "released"]
             A == active \ {AppOf[r]}
  <2>1. st \in [Requests -> RequestStatuses] /\ A \in SUBSET Apps
    BY <1>1 DEF RequestStatuses
  <2>2. LeasedIn(st) = LeasedIn(status) \ {r} /\ r \in LeasedIn(status)
    BY <1>1, <1>3 DEF Release, LeasedIn
  <2>3. A = AppsOf(LeasedIn(st))
    BY <1>1, <2>2 DEF AppsOf
  <2>4. DispatchFrom(st, ahead, A)
    BY <1>3 DEF Release
  <2> HIDE DEF st, A
  <2> QED BY <1>1, <2>1, <2>2, <2>3, <2>4, DispatchSound
<1>4. ASSUME NEW a \in Apps, NEW u \in Users, CancelQueued(a, u) PROVE AdmissionInv'
  <2>1. PICK r \in Queued :
          DispatchFrom([status EXCEPT ![r] = "cancelled"],
                       [q \in Requests |-> IF q = r THEN {} ELSE ahead[q] \ {r}],
                       active)
    BY <1>4 DEF CancelQueued
  <2> DEFINE st == [status EXCEPT ![r] = "cancelled"]
             before == [q \in Requests |-> IF q = r THEN {} ELSE ahead[q] \ {r}]
  <2>2. st \in [Requests -> RequestStatuses] /\ before \in [Requests -> SUBSET Requests]
    BY <1>1 DEF RequestStatuses
  <2>3. LeasedIn(st) = LeasedIn(status)
    BY <1>1 DEF LeasedIn, Queued
  <2>4. DispatchFrom(st, before, active)
    BY <2>1
  <2> HIDE DEF st, before
  <2> QED BY <1>1, <2>2, <2>3, <2>4, DispatchSound
<1>5. CASE UNCHANGED admissionVars
  BY <1>5 DEF admissionVars, AdmissionTypeOK, ActiveIsHeld, OneLeasePerApp,
              ActiveWithinLimit, WorkConserving, LeasedRequests, Queued
<1> QED BY <1>2, <1>3, <1>4, <1>5 DEF AdmissionNext, ReleaseAgain

(* The invariant holds always. *)
LEMMA AdmissionInvAlways == AdmissionSpec => []AdmissionInv
BY AdmissionInvInit, AdmissionInvStep, PTL DEF AdmissionSpec

(* The queue's state keeps its type. *)
THEOREM AdmissionTypeCorrect == AdmissionSpec => []AdmissionTypeOK
<1>1. AdmissionInv => AdmissionTypeOK
  BY DEF AdmissionInv
<1> QED BY <1>1, AdmissionInvAlways, PTL

(* No two leases ever name one application: deploys of an app serialize. *)
THEOREM LeasesExclude == AdmissionSpec => []OneLeasePerApp
<1>1. AdmissionInv => OneLeasePerApp
  BY DEF AdmissionInv
<1> QED BY <1>1, AdmissionInvAlways, PTL

(* The leases never outnumber MAX_CONCURRENT, although the code counts     *)
(* names and not leases: the names of the leases are a set of their size.  *)
THEOREM LeasesWithinLimit == AdmissionSpec => []WithinLimit
<1>1. AdmissionInv => WithinLimit
  <2> SUFFICES ASSUME AdmissionInv PROVE Cardinality(LeasedRequests) =< MaxConcurrent
    BY DEF WithinLimit
  <2> DEFINE f == [r \in LeasedRequests |-> AppOf[r]]
  <2>1. f \in Injection(LeasedRequests, active)
    BY DEF AdmissionInv, ActiveIsHeld, OneLeasePerApp, AppsOf, Injection, IsInjective
  <2>2. IsFiniteSet(active)
    BY RequestsAssumption, FS_Subset DEF AdmissionInv, AdmissionTypeOK
  <2>3. Cardinality(LeasedRequests) =< Cardinality(active) /\ IsFiniteSet(LeasedRequests)
    BY <2>1, <2>2, FS_Injection
  <2>4. Cardinality(LeasedRequests) \in Nat /\ Cardinality(active) \in Nat
    BY <2>2, <2>3, FS_CardinalityType
  <2> QED BY <2>3, <2>4, MaxConcurrentAssumption DEF AdmissionInv, ActiveWithinLimit
<1> QED BY <1>1, AdmissionInvAlways, PTL

(* The three together, with what the scheduler takes for active: releases  *)
(* in any order and number, of leases that are out or long gone, never let *)
(* two deploys of an application or too many at all into a build.          *)
THEOREM LeasesAreSound == AdmissionSpec => []LeasesSound
<1>1. AdmissionInv => ActiveIsHeld
  BY DEF AdmissionInv
<1> QED
  BY <1>1, AdmissionInvAlways, AdmissionTypeCorrect, LeasesExclude, LeasesWithinLimit, PTL
     DEF LeasesSound

(* A waiter waits only for its own application or for a slot: arrival,     *)
(* release and cancellation never leave a usable slot idle.                *)
THEOREM NoIdleSlot == AdmissionSpec => []WorkConserving
<1>1. AdmissionInv => WorkConserving
  BY DEF AdmissionInv
<1> QED BY <1>1, AdmissionInvAlways, PTL

-----------------------------------------------------------------------------
(* THE ORDER OF THE QUEUE                                                  *)

(* No request stands in front of itself: what is pushed is not queued.     *)
AheadOfOthers == \A r \in Requests : r \notin ahead[r]

LEMMA AheadInit == AdmissionInit => AheadOfOthers
BY DEF AdmissionInit, AheadOfOthers

LEMMA DispatchKeepsAhead ==
  ASSUME NEW st, NEW before, NEW A, DispatchFrom(st, before, A),
         \A r \in Requests : r \notin before[r]
  PROVE  AheadOfOthers'
BY DEF DispatchFrom, AheadOfOthers

LEMMA AheadStep ==
  AdmissionInv /\ AheadOfOthers /\ [AdmissionNext]_admissionVars => AheadOfOthers'
<1> SUFFICES ASSUME AdmissionInv, AheadOfOthers, [AdmissionNext]_admissionVars
             PROVE  AheadOfOthers'
  OBVIOUS
<1>1. ahead \in [Requests -> SUBSET Requests]
  BY DEF AdmissionInv, AdmissionTypeOK
<1>2. ASSUME NEW r \in Requests, Acquire(r) PROVE AheadOfOthers'
  <2> DEFINE before == [ahead EXCEPT ![r] = Queued]
  <2>1. \A q \in Requests : q \notin before[q]
    BY <1>1, <1>2 DEF Acquire, AheadOfOthers, Queued
  <2>2. DispatchFrom([status EXCEPT ![r] = "queued"], before, active)
    BY <1>2 DEF Acquire
  <2> HIDE DEF before
  <2> QED BY <2>1, <2>2, DispatchKeepsAhead
<1>3. ASSUME NEW r \in Requests, Release(r) PROVE AheadOfOthers'
  BY <1>3, DispatchKeepsAhead DEF Release, AheadOfOthers
<1>4. ASSUME NEW a \in Apps, NEW u \in Users, CancelQueued(a, u) PROVE AheadOfOthers'
  <2>1. PICK r \in Queued :
          DispatchFrom([status EXCEPT ![r] = "cancelled"],
                       [q \in Requests |-> IF q = r THEN {} ELSE ahead[q] \ {r}], active)
    BY <1>4 DEF CancelQueued
  <2> DEFINE before == [q \in Requests |-> IF q = r THEN {} ELSE ahead[q] \ {r}]
  <2>2. \A q \in Requests : q \notin before[q]
    BY DEF AheadOfOthers
  <2>3. DispatchFrom([status EXCEPT ![r] = "cancelled"], before, active)
    BY <2>1
  <2> HIDE DEF before
  <2> QED BY <2>2, <2>3, DispatchKeepsAhead
<1>5. CASE UNCHANGED admissionVars
  BY <1>5 DEF admissionVars, AheadOfOthers
<1> QED BY <1>2, <1>3, <1>4, <1>5 DEF AdmissionNext, ReleaseAgain

(* dispatch() passes over a waiter only for one whose application is not   *)
(* the same: of two waiters for one application the front one goes first.  *)
LEMMA DispatchInOrder ==
  ASSUME NEW st, NEW before, NEW A, DispatchFrom(st, before, A),
         NEW r \in Requests, NEW q \in before[r], q \in Requests, r \notin before[r],
         st[r] = "queued", AppOf[q] = AppOf[r]
  PROVE  status'[r] # "leased"
<1> DEFINE Q == {x \in Requests : st[x] = "queued"}
<1>1. PICK G \in SUBSET Q :
        /\ Dispatches(G, Q, before, A)
        /\ status' = [x \in Requests |-> IF x \in G THEN "leased" ELSE st[x]]
  BY DEF DispatchFrom
<1>2. ASSUME r \in G
      PROVE  FALSE
  <2>1. AppOf[r] \notin A /\ \A x \in G : AppOf[x] = AppOf[r] => x = r
    BY <1>1, <1>2 DEF Dispatches, DispatchesSome
  <2>2. q \notin G
    BY <2>1
  <2>3. AppOf[q] \in A \cup AppsOf(G \cap before[r])
    BY <1>1, <1>2, <2>2 DEF Dispatches
  <2>4. PICK x \in G \cap before[r] : AppOf[x] = AppOf[q]
    BY <2>1, <2>3 DEF AppsOf
  <2> QED BY <2>1, <2>4
<1> QED BY <1>1, <1>2

(* A cancellation frees no slot, so the dispatch that ends it finds        *)
(* nothing to grant.                                                       *)
LEMMA CancelGrantsNothing ==
  ASSUME AdmissionInv, NEW st, NEW before, DispatchFrom(st, before, active),
         \A r \in Requests : st[r] = "queued" => status[r] = "queued",
         NEW r \in Queued
  PROVE  status'[r] # "leased" \/ st[r] = "leased"
<1> DEFINE Q == {x \in Requests : st[x] = "queued"}
<1>1. PICK G \in SUBSET Q :
        /\ Dispatches(G, Q, before, active)
        /\ status' = [x \in Requests |-> IF x \in G THEN "leased" ELSE st[x]]
  BY DEF DispatchFrom
<1>2. ASSUME r \in G
      PROVE  FALSE
  <2>1. AppOf[r] \notin active /\ Cardinality(active \cup AppsOf(G)) =< MaxConcurrent
    BY <1>1, <1>2 DEF Dispatches, DispatchesSome
  <2>2. Cardinality(active) = MaxConcurrent
    BY <2>1 DEF AdmissionInv, WorkConserving
  <2>3. active \cup AppsOf(G) \subseteq Apps
    BY AppOfAssumption DEF AdmissionInv, AdmissionTypeOK, AppsOf
  <2>4. IsFiniteSet(active \cup AppsOf(G)) /\ IsFiniteSet(active)
    BY <2>3, RequestsAssumption, FS_Subset
  <2>5. active \cup {AppOf[r]} \subseteq active \cup AppsOf(G)
    BY <1>2 DEF AppsOf
  <2>6. Cardinality(active \cup {AppOf[r]}) = Cardinality(active) + 1
    BY <2>1, <2>4, FS_AddElement
  <2>7. Cardinality(active \cup {AppOf[r]}) =< Cardinality(active \cup AppsOf(G))
    BY <2>4, <2>5, FS_Subset
  <2>8. Cardinality(active \cup AppsOf(G)) \in Nat
    BY <2>4, FS_CardinalityType
  <2> QED BY <2>1, <2>2, <2>6, <2>7, <2>8, MaxConcurrentAssumption
<1>3. r \in Requests
  BY DEF Queued
<1> QED BY <1>1, <1>2, <1>3

LEMMA FifoStep ==
  AdmissionInv /\ AheadOfOthers /\ AdmissionNext => FifoPerAppStep
<1> SUFFICES ASSUME AdmissionInv, AheadOfOthers, AdmissionNext,
                    NEW r \in Queued, NEW q \in Queued, q \in ahead[r], AppOf[q] = AppOf[r]
             PROVE  status'[r] # "leased"
  BY DEF FifoPerAppStep
<1>1. /\ status \in [Requests -> RequestStatuses] /\ ahead \in [Requests -> SUBSET Requests]
      /\ r \in Requests /\ q \in Requests /\ status[r] = "queued" /\ r \notin ahead[r]
  BY DEF AdmissionInv, AdmissionTypeOK, AheadOfOthers, Queued
<1>2. ASSUME NEW x \in Requests, Acquire(x) PROVE status'[r] # "leased"
  <2> DEFINE st == [status EXCEPT ![x] = "queued"]
             before == [ahead EXCEPT ![x] = Queued]
  <2>1. x # r /\ DispatchFrom(st, before, active)
    BY <1>1, <1>2 DEF Acquire
  <2>2. before[r] = ahead[r] /\ st[r] = "queued"
    BY <1>1, <2>1
  <2> HIDE DEF st, before
  <2> QED BY <1>1, <2>1, <2>2, DispatchInOrder
<1>3. ASSUME NEW x \in Requests, Release(x) PROVE status'[r] # "leased"
  <2> DEFINE st == [status EXCEPT ![x] = "released"]
  <2>1. x # r /\ DispatchFrom(st, ahead, active \ {AppOf[x]})
    BY <1>1, <1>3 DEF Release
  <2>2. st[r] = "queued"
    BY <1>1, <2>1
  <2> HIDE DEF st
  <2> QED BY <1>1, <2>1, <2>2, DispatchInOrder
<1>4. ASSUME NEW a \in Apps, NEW u \in Users, CancelQueued(a, u)
      PROVE  status'[r] # "leased"
  <2>1. PICK x \in Queued :
          DispatchFrom([status EXCEPT ![x] = "cancelled"],
                       [y \in Requests |-> IF y = x THEN {} ELSE ahead[y] \ {x}], active)
    BY <1>4 DEF CancelQueued
  <2> DEFINE st == [status EXCEPT ![x] = "cancelled"]
             before == [y \in Requests |-> IF y = x THEN {} ELSE ahead[y] \ {x}]
  <2>2. DispatchFrom(st, before, active)
    BY <2>1
  <2>3. (\A y \in Requests : st[y] = "queued" => status[y] = "queued") /\ st[r] # "leased"
    BY <1>1
  <2> HIDE DEF st, before
  <2> QED BY <2>2, <2>3, CancelGrantsNothing
<1>5. ASSUME NEW x \in Requests, ReleaseAgain(x) PROVE status'[r] # "leased"
  BY <1>1, <1>5 DEF ReleaseAgain, admissionVars
<1> QED BY <1>2, <1>3, <1>4, <1>5 DEF AdmissionNext

(* No step grants a waiter its lease from behind a waiter for the same     *)
(* application: dispatch() skips the front one only while that application *)
(* is active, and a cancellation of the front one frees nothing.           *)
THEOREM WaitersStayInOrder == AdmissionSpec => FifoPerApp
<1>2. AdmissionInv /\ AheadOfOthers /\ [AdmissionNext]_admissionVars
        => [FifoPerAppStep]_admissionVars
  BY FifoStep
<1> QED
  BY <1>2, AdmissionInvInit, AdmissionInvStep, AheadInit, AheadStep, PTL
     DEF AdmissionSpec, FifoPerApp

-----------------------------------------------------------------------------
(* The handlers that change an application's revision.  First what every   *)
(* step does to the row and its revisions, whoever takes it; from that,    *)
(* the chain of transitions and the compare-and-set.  Then what only holds *)
(* while nothing works without the lease.                                  *)

(* A row that is read, edited field by field or inserted stays a row. *)
LEMMA RowHelpers ==
  ASSUME NEW r \in Row
  PROVE  /\ NoRow \in Row /\ r.status \in Statuses /\ r.active \in Digest
         /\ Current(r) \in Digest
         /\ ForEdit(r) \in Row /\ ForConverge(r) \in Row
         /\ Current(ForEdit(r)) = Current(r)
         /\ Upserted(r) \in Row /\ Current(Upserted(r)) = Current(r)
         /\ Upserted(r).desired = r.desired /\ Upserted(r).active = r.active
         /\ \A s \in Statuses :
              /\ WithStatus(r, s) \in Row
              /\ WithStatus(r, s).desired = r.desired
              /\ WithStatus(r, s).active = r.active
BY DEF Row, Current, Upserted, ForEdit, ForConverge, NoRow, NewRow, WithStatus,
       Digest, Statuses

(* The fields of a row that is written. *)
LEMMA RowWrites ==
  ASSUME NEW r \in Row, NEW s \in Statuses, NEW d \in Digest
  PROVE  /\ [r EXCEPT !.status = s] \in Row
         /\ [r EXCEPT !.status = s].desired = r.desired
         /\ [r EXCEPT !.status = s].active = r.active
         /\ [r EXCEPT !.desired = d] \in Row
         /\ [r EXCEPT !.desired = d].desired = d
         /\ [r EXCEPT !.desired = d].active = r.active
         /\ [r EXCEPT !.desired = d, !.status = s] \in Row
         /\ [r EXCEPT !.desired = d, !.status = s].desired = d
         /\ [r EXCEPT !.desired = d, !.status = s].active = r.active
         /\ [r EXCEPT !.status = s, !.active = d] \in Row
         /\ [r EXCEPT !.status = s, !.active = d].desired = r.desired
         /\ [r EXCEPT !.status = s, !.active = d].active = d
BY DEF Row

(* Whoever is going to save a revision has one: what arrives in a request   *)
(* is never null.                                                          *)
Savers == {"upload-queued", "upload-staged", "editing", "scale-reading"}
HasCandidate(s) == s.at \in Savers => s.cand \in Digests

CandidatesAreDigests == \A c \in Callers : HasCandidate(caller[c])

(* A caller's step changes what that caller does and no other's. *)
CallerStep(c) ==
  /\ caller' \in [Callers -> Caller]
  /\ HasCandidate(caller'[c])
  /\ \A o \in Callers \ {c} : caller'[o] = caller[o]

LEMMA CallerHelpers ==
  ASSUME caller \in [Callers -> Caller], NEW c \in Callers
  PROVE  /\ Idle \in Caller
         /\ \A s \in Caller : HasCandidate(s) /\ Becomes(c, s) => CallerStep(c)
         /\ \A p \in Places :
              Moves(c, p) /\ (p \in Savers => caller[c].cand \in Digests) => CallerStep(c)
         /\ Ends(c) => CallerStep(c)
<1>1. Idle \in Caller /\ HasCandidate(Idle)
  BY DEF Idle, Caller, Places, Row, NoRow, Statuses, Digest, HasCandidate, Savers
<1>2. ASSUME NEW p \in Places, p \in Savers => caller[c].cand \in Digests
      PROVE  [caller[c] EXCEPT !.at = p] \in Caller
               /\ HasCandidate([caller[c] EXCEPT !.at = p])
  BY <1>2 DEF Caller, HasCandidate
<1> HIDE DEF Caller
<1> QED BY <1>1, <1>2 DEF Becomes, Moves, Ends, CallerStep

(* Three things a step may do to the row: leave its revisions alone but    *)
(* for activating a recorded one, save a desired revision, or delete it.   *)
RowKept ==
  /\ row' \in Row
  /\ row'.desired = row.desired /\ row'.active \in revisions \cup {row.active}
  /\ UNCHANGED <<revisions, transitions>>

RowSaved(c) ==
  /\ row' \in Row /\ row'.desired \in Digests /\ row'.active = row.active
  /\ revisions' = revisions \cup {row'.desired}
  /\ transitions' = IF row.desired = row'.desired THEN transitions
                    ELSE Append(transitions, [from |-> Current(row), to |-> row'.desired])
  /\ caller[c].at \in {"editing", "scale-reading"} =>
       row.desired = row'.desired \/ Current(row) = Current(caller[c].seen)

RowDeleted ==
  row' = NoRow /\ revisions' = {} /\ transitions' = <<>>

OtherTypesKept ==
  /\ runtime' \in Digest /\ lease' \in Callers \cup {NoCaller}
  /\ disturbed' \in BOOLEAN /\ crashes' \in 0..MaxCrashes

StepShape(c) ==
  CallerStep(c) /\ OtherTypesKept /\ (RowKept \/ RowSaved(c) \/ RowDeleted)

Acts(c) ==
  \/ Admitted(c) \/ SuperviseOnError(c)
  \/ Uploads(c) \/ Edits(c) \/ Applies(c) \/ Recreates(c)
  \/ Scales(c) \/ Deletes(c) \/ Supervises(c) \/ Boots(c)

(* Whatever a caller does is its own step, ... *)
LEMMA CallerSteps ==
  ASSUME RevisionTypeOK, CandidatesAreDigests, NEW c \in Callers, Acts(c)
  PROVE  CallerStep(c)
<1>a. /\ row \in Row /\ caller \in [Callers -> Caller] /\ caller[c] \in Caller
      /\ caller[c].cand \in Digest /\ HasCandidate(caller[c])
  BY DEF RevisionTypeOK, CandidatesAreDigests, Caller
<1>b. Waiting \cup Leased \cup Converging \cup Savers
        \cup {"idle", "deleting", "supervise-failed"} \subseteq Places
  BY DEF Places, Savers, Waiting, Leased
<1>c. Idle \in Caller /\ Idle.at = "idle"
  BY DEF Caller, Idle, Places, Row, NoRow, Statuses, Digest
<1> HIDE DEF Places
<1>1. CASE UploadRefused(c) \/ UploadConverged(c) \/ UploadFails(c) \/
           UploadGated(c) \/ EditSaves(c) \/ EditRefused(c) \/ ApplyEnds(c) \/
           ApplyConverged(c) \/ ApplyFails(c) \/ RecreateConverged(c) \/
           RecreateFails(c) \/ ScaleRefused(c) \/ ScaleConverged(c) \/
           ScaleFails(c) \/ DeleteFinishes(c) \/ DeleteFails(c) \/
           SuperviseConverged(c) \/ SuperviseOnError(c) \/ BootConverged(c) \/
           BootFails(c)
  <2>1. Ends(c)
    BY <1>1 DEF UploadRefused, UploadConverged, UploadFails, UploadGated,
         EditSaves, EditRefused, ApplyEnds, ApplyConverged, ApplyFails,
         RecreateConverged, RecreateFails, ScaleRefused, ScaleConverged,
         ScaleFails, DeleteFinishes, DeleteFails, SuperviseConverged,
         SuperviseOnError, BootConverged, BootFails
  <2> QED BY <2>1, <1>a, CallerHelpers
<1>2. CASE UploadAdmitted(c) \/ ApplyArrives(c) \/ RecreateArrives(c) \/
           DeleteArrives(c) \/ SuperviseArrives(c)
  BY <1>2, <1>a, <1>b, CallerHelpers DEF UploadAdmitted, ApplyArrives,
         RecreateArrives, DeleteArrives, SuperviseArrives, HasCandidate,
         Savers, At, Waiting, Leased
<1>3. CASE UploadArrives(c)
  BY <1>3, <1>a, <1>b, <1>c, CallerHelpers, RowHelpers DEF UploadArrives,
         Caller, HasCandidate, Savers, Waiting, Leased, Converging, Idle,
         Digest
<1>4. CASE UploadCommits(c)
  BY <1>4, <1>a, <1>b, <1>c, CallerHelpers, RowHelpers DEF UploadCommits,
         Caller, HasCandidate, Savers, Waiting, Leased, Converging, Idle,
         Digest
<1>5. CASE ClientHangsUp(c)
  BY <1>5, <1>a DEF ClientHangsUp, CallerStep, Savers
<1>6. CASE EditArrives(c)
  BY <1>6, <1>a, <1>b, <1>c, CallerHelpers, RowHelpers DEF EditArrives,
         Caller, HasCandidate, Savers, Waiting, Leased, Converging, Idle,
         Digest
<1>7. CASE ApplyAdmitted(c)
  BY <1>7, <1>a, <1>b, <1>c, CallerHelpers, RowHelpers DEF ApplyAdmitted,
         Caller, HasCandidate, Savers, Waiting, Leased, Converging, Idle,
         Digest
<1>8. CASE ApplyStarts(c)
  BY <1>8, <1>a, <1>b, <1>c, CallerHelpers, RowHelpers DEF ApplyStarts,
         Caller, HasCandidate, Savers, Waiting, Leased, Converging, Idle,
         Digest
<1>9. CASE RecreateAdmitted(c)
  BY <1>9, <1>a, <1>b, <1>c, CallerHelpers, RowHelpers DEF RecreateAdmitted,
         Caller, HasCandidate, Savers, Waiting, Leased, Converging, Idle,
         Digest
<1>10. CASE ScaleArrives(c)
  BY <1>10, <1>a, <1>b, <1>c, CallerHelpers, RowHelpers DEF ScaleArrives,
         Caller, HasCandidate, Savers, Waiting, Leased, Converging, Idle,
         Digest
<1>11. CASE ScaleStarts(c)
  BY <1>11, <1>a, <1>b, <1>c, CallerHelpers, RowHelpers DEF ScaleStarts,
         Caller, HasCandidate, Savers, Waiting, Leased, Converging, Idle,
         Digest
<1>12. CASE SuperviseAdmitted(c)
  BY <1>12, <1>a, <1>b, <1>c, CallerHelpers, RowHelpers DEF SuperviseAdmitted,
         Caller, HasCandidate, Savers, Waiting, Leased, Converging, Idle,
         Digest
<1>13. CASE SuperviseFails(c)
  BY <1>13, <1>a, <1>b, <1>c, CallerHelpers, RowHelpers DEF SuperviseFails,
         Caller, HasCandidate, Savers, Waiting, Leased, Converging, Idle,
         Digest
<1>14. CASE BootStarts(c)
  BY <1>14, <1>a, <1>b, <1>c, CallerHelpers, RowHelpers DEF BootStarts,
         Caller, HasCandidate, Savers, Waiting, Leased, Converging, Idle,
         Digest
<1> QED BY <1>1, <1>2, <1>3, <1>4, <1>5, <1>6, <1>7, <1>8, <1>9, <1>10, <1>11,
         <1>12, <1>13, <1>14
        DEF Acts, Admitted, Uploads, Edits, Applies, Recreates, Scales, Deletes,
            Supervises, Boots

(* ... does one of the three things to the row, ... *)
LEMMA RowSteps ==
  ASSUME RevisionTypeOK, CandidatesAreDigests, NEW c \in Callers, Acts(c)
  PROVE  RowKept \/ RowSaved(c) \/ RowDeleted
<1>a. /\ row \in Row /\ caller[c] \in Caller
      /\ caller[c].seen \in Row /\ caller[c].seen.status \in Statuses
      /\ caller[c].cand \in Digest /\ HasCandidate(caller[c])
  BY RowHelpers DEF RevisionTypeOK, CandidatesAreDigests, Caller
<1>b. {"unknown", "configuration-required", "running", "building", "failed",
       "degraded", "starting", "recreating"} \subseteq Statuses
  BY DEF Statuses, PreContainer, Reconcilable
<1> HIDE DEF Statuses
<1>1. CASE UploadArrives(c) \/ UploadAdmitted(c) \/ UploadRefused(c) \/
           ClientHangsUp(c) \/ EditArrives(c) \/ EditRefused(c) \/
           ApplyArrives(c) \/ ApplyAdmitted(c) \/ RecreateArrives(c) \/
           ScaleArrives(c) \/ ScaleRefused(c) \/ ScaleFails(c) \/
           DeleteArrives(c) \/ DeleteFails(c) \/ SuperviseArrives(c) \/
           SuperviseAdmitted(c) \/ SuperviseFails(c) \/ BootFails(c)
  BY <1>1, <1>a DEF RowKept, UploadArrives, UploadAdmitted, UploadRefused,
         ClientHangsUp, EditArrives, EditRefused, ApplyArrives, ApplyAdmitted,
         RecreateArrives, ScaleArrives, ScaleRefused, ScaleFails,
         DeleteArrives, DeleteFails, SuperviseArrives, SuperviseAdmitted,
         SuperviseFails, BootFails
<1>2. CASE UploadFails(c) \/ UploadGated(c) \/ ApplyStarts(c) \/ ApplyEnds(c)
           \/ ApplyFails(c) \/ RecreateAdmitted(c) \/ RecreateFails(c) \/
           SuperviseOnError(c) \/ BootStarts(c)
  <2>1. UNCHANGED <<revisions, transitions>>
    BY <1>2 DEF UploadFails, UploadGated, ApplyStarts, ApplyEnds, ApplyFails,
         RecreateAdmitted, RecreateFails, SuperviseOnError, BootStarts
  <2>2. row' = row \/ \E s \in Statuses : row' = WithStatus(row, s)
    BY <1>2, <1>a, <1>b DEF UploadFails, UploadGated, ApplyStarts, ApplyEnds,
         ApplyFails, RecreateAdmitted, RecreateFails, SuperviseOnError,
         BootStarts
  <2> QED BY <2>1, <2>2, <1>a, RowHelpers, ZenonT(40) DEF RowKept
<1>3. CASE UploadConverged(c)
  BY <1>3, <1>a, <1>b, RowHelpers DEF UploadConverged, RowKept, CanActivate,
         Digest, Row
<1>4. CASE ApplyConverged(c)
  BY <1>4, <1>a, <1>b, RowHelpers DEF ApplyConverged, RowKept, CanActivate,
         Digest, Row
<1>5. CASE RecreateConverged(c)
  BY <1>5, <1>a, <1>b, RowHelpers DEF RecreateConverged, RowKept, CanActivate,
         Digest, Row
<1>6. CASE ScaleConverged(c)
  BY <1>6, <1>a, <1>b, RowHelpers DEF ScaleConverged, RowKept, CanActivate,
         Digest, Row
<1>7. CASE SuperviseConverged(c)
  BY <1>7, <1>a, <1>b, RowHelpers DEF SuperviseConverged, RowKept,
         CanActivate, Digest, Row
<1>8. CASE BootConverged(c)
  BY <1>8, <1>a, <1>b, RowHelpers DEF BootConverged, RowKept, CanActivate,
         Digest, Row
<1>9. CASE UploadCommits(c)
  <2> DEFINE d == caller[c].cand
  <2>1. d \in Digests /\ caller[c].at = "upload-staged"
    BY <1>9, <1>a DEF UploadCommits, At, HasCandidate, Savers
  <2>2. PICK r \in {row, Upserted(row)} :
          /\ Saves(r, d)
          /\ row' \in {[r EXCEPT !.desired = d],
                       [r EXCEPT !.desired = d, !.status = "building"]}
    BY <1>9 DEF UploadCommits
  <2>3. r \in Row /\ r.desired = row.desired /\ r.active = row.active
          /\ Current(r) = Current(row)
    BY <1>a, RowHelpers
  <2>4. row' \in Row /\ row'.desired = d /\ row'.active = row.active
    BY <2>1, <2>2, <2>3, <1>b DEF Row, Digest
  <2> QED BY <2>1, <2>2, <2>3, <2>4 DEF Saves, RowSaved
<1>10. CASE EditSaves(c)
  BY <1>10, <1>a, <1>b, RowHelpers DEF EditSaves, At, RowSaved, Saves,
         CanSave, HasCandidate, Savers, Digest, Row
<1>11. CASE ScaleStarts(c)
  BY <1>11, <1>a, <1>b, RowHelpers DEF ScaleStarts, At, RowSaved, Saves,
         CanSave, HasCandidate, Savers, Digest, Row
<1>12. CASE DeleteFinishes(c)
  BY <1>12 DEF DeleteFinishes, RowDeleted
<1> QED BY <1>1, <1>2, <1>3, <1>4, <1>5, <1>6, <1>7, <1>8, <1>9, <1>10, <1>11,
         <1>12
        DEF Acts, Admitted, Uploads, Edits, Applies, Recreates, Scales, Deletes,
            Supervises, Boots

(* ... and keeps the rest of the state's type. *)
LEMMA OtherSteps ==
  ASSUME RevisionTypeOK, NEW c \in Callers, Acts(c) PROVE OtherTypesKept
<1>a. /\ runtime \in Digest /\ lease \in Callers \cup {NoCaller}
      /\ disturbed \in BOOLEAN /\ crashes \in 0..MaxCrashes
      /\ caller[c].seen.active \in Digest /\ caller[c].cand \in Digest
  BY DEF RevisionTypeOK, Caller, Row
<1>b. NoDigest \in Digest
  BY DEF Digest
<1> USE DEF OtherTypesKept
<1>1. CASE UploadArrives(c) \/ UploadAdmitted(c) \/ UploadRefused(c) \/
           UploadCommits(c) \/ ClientHangsUp(c) \/ UploadGated(c) \/
           EditArrives(c) \/ EditSaves(c) \/ EditRefused(c) \/ ApplyArrives(c)
           \/ ApplyAdmitted(c) \/ ApplyStarts(c) \/ ApplyEnds(c) \/
           RecreateArrives(c) \/ RecreateAdmitted(c) \/ ScaleArrives(c) \/
           ScaleStarts(c) \/ ScaleRefused(c) \/ DeleteArrives(c) \/
           SuperviseArrives(c) \/ SuperviseAdmitted(c) \/ SuperviseOnError(c)
           \/ BootStarts(c)
  BY <1>1, <1>a, <1>b DEF Releases, UploadArrives, UploadAdmitted,
         UploadRefused, UploadCommits, ClientHangsUp, UploadGated,
         EditArrives, EditSaves, EditRefused, ApplyArrives, ApplyAdmitted,
         ApplyStarts, ApplyEnds, RecreateArrives, RecreateAdmitted,
         ScaleArrives, ScaleStarts, ScaleRefused, DeleteArrives,
         SuperviseArrives, SuperviseAdmitted, SuperviseOnError, BootStarts
<1>2. CASE UploadConverged(c) \/ UploadFails(c) \/ ApplyConverged(c) \/
           ApplyFails(c) \/ RecreateConverged(c) \/ RecreateFails(c) \/
           ScaleConverged(c) \/ ScaleFails(c) \/ DeleteFinishes(c) \/
           DeleteFails(c) \/ SuperviseConverged(c) \/ SuperviseFails(c) \/
           BootConverged(c) \/ BootFails(c)
  BY <1>2, <1>a, <1>b DEF Releases, UploadConverged, UploadFails,
         ApplyConverged, ApplyFails, RecreateConverged, RecreateFails,
         ScaleConverged, ScaleFails, DeleteFinishes, DeleteFails,
         SuperviseConverged, SuperviseFails, BootConverged, BootFails
<1> QED BY <1>1, <1>2 DEF Acts, Admitted, Uploads, Edits, Applies, Recreates,
        Scales, Deletes, Supervises, Boots

(* A crash cleans the status and starts every caller afresh. *)
LEMMA CrashStep ==
  ASSUME RevisionTypeOK, Crash
  PROVE  /\ RowKept /\ OtherTypesKept
         /\ caller' \in [Callers -> Caller] /\ CandidatesAreDigests'
         /\ disturbed'
<1>a. /\ row \in Row /\ runtime \in Digest /\ crashes \in 0..MaxCrashes
      /\ \A o \in Callers : caller[o].cand \in Digest
  BY DEF RevisionTypeOK, Caller
<1>1. RowKept
  <2>1. "unknown" \in Statuses
    BY DEF Statuses
  <2> QED BY <1>a, <2>1, RowHelpers DEF Crash, Cleaned, RowKept
<1>2. OtherTypesKept /\ disturbed'
  BY <1>a, MaxCrashesAssumption DEF Crash, OtherTypesKept
<1>3. caller' \in [Callers -> Caller] /\ CandidatesAreDigests'
  <2>1. ForConverge(row) \in Row
    BY <1>a, RowHelpers
  <2>2. /\ Idle \in Caller /\ HasCandidate(Idle)
        /\ [Idle EXCEPT !.at = "restarted", !.seen = ForConverge(row)] \in Caller
        /\ HasCandidate([Idle EXCEPT !.at = "restarted", !.seen = ForConverge(row)])
    BY <2>1, <1>a, RowHelpers
       DEF Caller, Idle, Places, HasCandidate, Savers, Digest
  <2> DEFINE back == [Idle EXCEPT !.at = "restarted", !.seen = ForConverge(row)]
  <2>3. PICK c \in Callers : caller' = [o \in Callers |-> IF o = c THEN back ELSE Idle]
    BY DEF Crash
  <2> HIDE DEF back, Caller
  <2> QED BY <2>2, <2>3 DEF back, CandidatesAreDigests
<1> QED BY <1>1, <1>2, <1>3

(* Every step is some caller's, a crash, or leaves all but the history of  *)
(* disturbances alone.                                                     *)
LEMMA StepKinds ==
  ASSUME [RevisionNext]_revisionVars
  PROVE  \/ \E c \in Callers : Acts(c)
         \/ Crash
         \/ Forget
         \/ UNCHANGED revisionVars
BY DEF RevisionNext, Acts

(* The revisions a row names stay recorded, and its transitions one chain, *)
(* whichever of the three things is done to it.                            *)
LEMMA ChainKept ==
  ASSUME RevisionsSound, NEW c \in Callers, RowKept \/ RowSaved(c) \/ RowDeleted
  PROVE  /\ row' \in Row /\ revisions' \subseteq Digests
         /\ transitions' \in Seq([from : Digest, to : Digests])
         /\ DigestsRecorded' /\ TransitionsChain'
<1> DEFINE Transition == [from : Digest, to : Digests]
<1>a. /\ row \in Row /\ revisions \subseteq Digests /\ transitions \in Seq(Transition)
      /\ DigestsRecorded /\ TransitionsChain
  BY DEF RevisionsSound, RevisionTypeOK
<1>1. CASE RowKept
  <2>1. DigestsRecorded'
    BY <1>1, <1>a DEF RowKept, DigestsRecorded
  <2>2. TransitionsChain'
    BY <1>1, <1>a DEF RowKept, TransitionsChain
  <2> QED BY <1>1, <1>a, <2>1, <2>2 DEF RowKept
<1>2. CASE RowSaved(c)
  <2> DEFINE d == row'.desired
             t == [from |-> Current(row), to |-> d]
  <2>1. d \in Digests /\ Current(row) \in Digest /\ t \in Transition
    BY <1>2, <1>a, RowHelpers DEF RowSaved
  <2>2. DigestsRecorded'
    BY <1>2, <1>a DEF RowSaved, DigestsRecorded
  <2>3. CASE row.desired = d
    BY <1>2, <1>a, <2>1, <2>2, <2>3 DEF RowSaved, TransitionsChain
  <2>4. CASE row.desired # d
    <3>1. transitions' = Append(transitions, t)
      BY <1>2, <2>4 DEF RowSaved
    <3> HIDE DEF Transition, t
    <3>2. /\ transitions' \in Seq(Transition)
          /\ Len(transitions') = Len(transitions) + 1
          /\ \A i \in 1..Len(transitions) : transitions'[i] = transitions[i]
          /\ transitions'[Len(transitions) + 1] = t
          /\ Len(transitions) \in Nat
      BY <3>1, <2>1, <1>a
    <3>3. transitions # <<>> => transitions[Len(transitions)].to = Current(row)
      <4> SUFFICES ASSUME transitions # <<>>
                   PROVE  transitions[Len(transitions)].to = Current(row)
        OBVIOUS
      <4>1. Len(transitions) \in 1..Len(transitions)
        BY <1>a, EmptySeq
      <4>2. transitions[Len(transitions)] \in Transition
        BY <4>1, <1>a, ElementOfSeq
      <4>3. transitions[Len(transitions)].to \in Digests
        BY <4>2 DEF Transition
      <4> QED BY <4>3, <1>a, NoDigestAssumption DEF TransitionsChain, Current
    <3>4. \A i \in 1..Len(transitions) :
            transitions'[i].to = transitions'[i + 1].from
      <4> SUFFICES ASSUME NEW i \in 1..Len(transitions)
                   PROVE  transitions'[i].to = transitions'[i + 1].from
        OBVIOUS
      <4>1. CASE i = Len(transitions)
        <5>1. transitions # <<>>
          BY <4>1, <3>2
        <5> QED BY <4>1, <5>1, <3>2, <3>3 DEF t
      <4>2. CASE i # Len(transitions)
        <5>1. i \in 1..Len(transitions) - 1 /\ i + 1 \in 1..Len(transitions)
          BY <4>2, <3>2
        <5> QED BY <5>1, <3>2, <1>a DEF TransitionsChain
      <4> QED BY <4>1, <4>2
    <3>5. TransitionsChain'
      BY <3>2, <3>4 DEF TransitionsChain, t
    <3> QED BY <1>2, <1>a, <2>1, <2>2, <3>2, <3>5 DEF RowSaved, Transition
  <2> QED BY <2>3, <2>4
<1>3. CASE RowDeleted
  <2>1. NoRow \in Row /\ NoRow.desired = NoDigest /\ NoRow.active = NoDigest
    BY <1>a, RowHelpers DEF NoRow
  <2> QED BY <1>3, <2>1 DEF RowDeleted, DigestsRecorded, TransitionsChain
<1> QED BY <1>1, <1>2, <1>3

(* What every step preserves, disturbed or not. *)
ChainInv == RevisionsSound /\ CandidatesAreDigests

LEMMA ChainInvInit == RevisionInit => ChainInv
<1> SUFFICES ASSUME RevisionInit PROVE ChainInv
  OBVIOUS
<1>1. Idle \in Caller /\ NoRow \in Row /\ NoRow.desired = NoDigest
        /\ NoRow.active = NoDigest /\ HasCandidate(Idle)
  BY DEF Idle, Caller, Places, Row, NoRow, Statuses, Digest, HasCandidate, Savers
<1>2. RevisionTypeOK
  <2>1. <<>> \in Seq([from : Digest, to : Digests]) /\ 0 \in 0..MaxCrashes
    BY MaxCrashesAssumption
  <2> HIDE DEF Caller, Row
  <2> QED BY <1>1, <2>1 DEF RevisionInit, RevisionTypeOK, Digest
<1>3. DigestsRecorded /\ TransitionsChain
  BY <1>1 DEF RevisionInit, DigestsRecorded, TransitionsChain
<1> QED BY <1>1, <1>2, <1>3
        DEF RevisionInit, ChainInv, RevisionsSound, CandidatesAreDigests

LEMMA ChainInvStep == ChainInv /\ [RevisionNext]_revisionVars => ChainInv'
<1> SUFFICES ASSUME ChainInv, [RevisionNext]_revisionVars PROVE ChainInv'
  OBVIOUS
<1>a. RevisionTypeOK /\ RevisionsSound /\ CandidatesAreDigests
  BY DEF ChainInv, RevisionsSound
<1>1. ASSUME NEW c \in Callers, Acts(c) PROVE ChainInv'
  <2>1. CallerStep(c) /\ OtherTypesKept /\ (RowKept \/ RowSaved(c) \/ RowDeleted)
    BY <1>1, <1>a, CallerSteps, RowSteps, OtherSteps
  <2>2. /\ row' \in Row /\ revisions' \subseteq Digests
        /\ transitions' \in Seq([from : Digest, to : Digests])
        /\ DigestsRecorded' /\ TransitionsChain'
    BY <2>1, <1>a, ChainKept
  <2>3. caller' \in [Callers -> Caller] /\ CandidatesAreDigests'
    BY <2>1, <1>a DEF CallerStep, CandidatesAreDigests
  <2> QED BY <2>1, <2>2, <2>3
          DEF ChainInv, RevisionsSound, RevisionTypeOK, OtherTypesKept
<1>2. CASE Crash
  <2>1. PICK c \in Callers : TRUE
    BY <1>2 DEF Crash
  <2> QED BY <1>2, <1>a, <2>1, CrashStep, ChainKept
          DEF ChainInv, RevisionsSound, RevisionTypeOK, OtherTypesKept
<1>3. CASE Forget \/ UNCHANGED revisionVars
  BY <1>3, <1>a
     DEF Forget, revisionVars, ChainInv, RevisionsSound, RevisionTypeOK,
         DigestsRecorded, TransitionsChain, CandidatesAreDigests
<1> QED BY <1>1, <1>2, <1>3, StepKinds

LEMMA ChainInvAlways == RevisionSpec => []ChainInv
BY ChainInvInit, ChainInvStep, PTL DEF RevisionSpec

(* Whatever hangs up, crashes, is deleted or comes late: the row names     *)
(* recorded revisions only, and its transitions lead to what it desires.   *)
THEOREM RevisionsAreSound == RevisionSpec => []RevisionsSound
<1>1. ChainInv => RevisionsSound
  BY DEF ChainInv
<1> QED BY <1>1, ChainInvAlways, PTL

(* The compare-and-set of saveDesiredApplicationSpec: an edit or a scale   *)
(* never replaces a revision its author was not shown.                     *)
THEOREM EditsReplaceWhatWasShown == RevisionSpec => NoLostEdit
<1>1. ASSUME ChainInv, [RevisionNext]_revisionVars
      PROVE  [NoLostEditStep]_revisionVars
  <2>a. RevisionTypeOK /\ CandidatesAreDigests
    BY <1>1 DEF ChainInv, RevisionsSound
  <2>1. ASSUME NEW a \in Callers, Acts(a) PROVE NoLostEditStep
    <3> SUFFICES ASSUME NEW c \in Callers,
                        caller[c].at \in {"editing", "scale-reading"},
                        caller'[c] # caller[c], row'.desired # row.desired,
                        row' # NoRow
                 PROVE  Current(row) = Current(caller[c].seen)
      BY DEF NoLostEditStep
    <3>1. c = a
      BY <2>1, <2>a, CallerSteps DEF CallerStep
    <3> QED BY <3>1, <2>1, <2>a, RowSteps DEF RowKept, RowSaved, RowDeleted
  <2>2. CASE Crash
    BY <2>2, <2>a, CrashStep DEF RowKept, NoLostEditStep
  <2>3. CASE Forget
    BY <2>3 DEF Forget, NoLostEditStep
  <2> QED BY <2>1, <2>2, <2>3, <1>1, StepKinds
<1> QED BY <1>1, ChainInvAlways, PTL DEF RevisionSpec, NoLostEdit




-----------------------------------------------------------------------------
(* The lease and who works under it.  A caller at a leased place holds the *)
(* lease, except an upload whose client hung up.                           *)
LeaseIsHeld ==
  /\ lease # NoCaller => caller[lease].at \in Leased
  /\ \A c \in Callers : caller[c].at \in Leased \ {"uploading"} => lease = c

(* What a step does with the lease: nothing, take it, give it back, keep   *)
(* it from one leased place to the next, or lose it to the client.         *)
LeaseMove(c) ==
  \/ caller[c].at \notin Leased /\ caller'[c].at \notin Leased /\ lease' = lease
  \/ /\ caller[c].at \notin Leased /\ caller'[c].at \in Leased
     /\ lease = NoCaller /\ lease' = c
  \/ caller[c].at \in Leased /\ caller'[c].at \notin Leased /\ Releases(c)
  \/ /\ caller[c].at \in Leased /\ caller'[c].at \in Leased /\ lease' = lease
     /\ caller[c].at = "uploading" => caller'[c].at = "uploading"
  \/ /\ caller[c].at = "uploading" /\ caller'[c].at = "uploading"
     /\ lease = c /\ lease' = NoCaller

LEMMA LeaseMoves ==
  ASSUME caller \in [Callers -> Caller], NEW c \in Callers, Acts(c)
  PROVE  LeaseMove(c)
<1>a. /\ Ends(c) => caller'[c].at = "idle"
      /\ \A p \in Places : Moves(c, p) => caller'[c].at = p
      /\ \A r : Becomes(c, r) => caller'[c] = r
  <2>1. Idle.at = "idle" /\ caller[c] \in Caller
    BY DEF Idle
  <2>2. \A p \in Places : [caller[c] EXCEPT !.at = p].at = p
    BY <2>1 DEF Caller
  <2> HIDE DEF Caller
  <2> QED BY <2>1, <2>2 DEF Ends, Moves, Becomes
<1>b. caller[c] \in Caller
  OBVIOUS
<1>c. Waiting \cup Leased \cup Converging \cup Savers
        \cup {"idle", "deleting", "supervise-failed"} \subseteq Places
  BY DEF Places, Savers, Waiting, Leased
<1> HIDE DEF Places
<1>1. CASE EditSaves(c) \/ EditRefused(c) \/ ScaleRefused(c) \/
           ScaleConverged(c) \/ ScaleFails(c) \/ DeleteFinishes(c) \/
           DeleteFails(c) \/ SuperviseOnError(c) \/ BootConverged(c) \/
           BootFails(c)
  BY <1>1, <1>a, <1>c DEF LeaseMove, Leased, Waiting, Converging, Savers, At,
         Idle, EditSaves, EditRefused, ScaleRefused, ScaleConverged,
         ScaleFails, DeleteFinishes, DeleteFails, SuperviseOnError,
         BootConverged, BootFails
<1>2. CASE UploadAdmitted(c) \/ ApplyAdmitted(c) \/ RecreateAdmitted(c) \/
           SuperviseAdmitted(c)
  BY <1>2, <1>a, <1>c DEF LeaseMove, Leased, Waiting, Converging, At, Idle,
         UploadAdmitted, ApplyAdmitted, RecreateAdmitted, SuperviseAdmitted
<1>3. CASE UploadRefused(c) \/ UploadConverged(c) \/ UploadFails(c) \/
           UploadGated(c) \/ ApplyEnds(c) \/ ApplyConverged(c) \/
           ApplyFails(c) \/ RecreateConverged(c) \/ RecreateFails(c) \/
           SuperviseConverged(c) \/ SuperviseFails(c)
  BY <1>3, <1>a, <1>c DEF LeaseMove, Leased, Waiting, Converging, At, Idle,
         UploadRefused, UploadConverged, UploadFails, UploadGated, ApplyEnds,
         ApplyConverged, ApplyFails, RecreateConverged, RecreateFails,
         SuperviseConverged, SuperviseFails
<1>4. CASE UploadCommits(c)
  BY <1>4, <1>a DEF LeaseMove, Leased, At, Idle, UploadCommits
<1>5. CASE ApplyStarts(c)
  BY <1>5, <1>a, <1>b DEF LeaseMove, Leased, At, ApplyStarts, Caller
<1>6. CASE ClientHangsUp(c)
  BY <1>6 DEF LeaseMove, At, ClientHangsUp
<1>7. CASE ApplyArrives(c) \/ RecreateArrives(c) \/ DeleteArrives(c) \/
           SuperviseArrives(c) \/ BootStarts(c)
  BY <1>7, <1>a, <1>c DEF LeaseMove, Leased, Waiting, Converging, At,
         ApplyArrives, RecreateArrives, DeleteArrives, SuperviseArrives,
         BootStarts
<1>8. CASE UploadArrives(c) \/ EditArrives(c) \/ ScaleArrives(c)
  <2>1. caller[c].at = "idle" /\ lease' = lease
    BY <1>8 DEF At, UploadArrives, EditArrives, ScaleArrives
  <2>2. caller'[c].at \in {"upload-queued", "editing", "scale-reading"}
    <3>1. CASE UploadArrives(c)
      BY <3>1, <1>a DEF UploadArrives
    <3>2. CASE EditArrives(c)
      BY <3>2, <1>a DEF EditArrives, Idle
    <3>3. CASE ScaleArrives(c)
      BY <3>3, <1>a DEF ScaleArrives, Idle
    <3> QED BY <1>8, <3>1, <3>2, <3>3
  <2> QED BY <2>1, <2>2 DEF LeaseMove, Leased
<1>9. CASE ScaleStarts(c)
  BY <1>9, <1>a DEF LeaseMove, Leased, At, Idle, ScaleStarts
<1> QED BY <1>1, <1>2, <1>3, <1>4, <1>5, <1>6, <1>7, <1>8, <1>9
        DEF Acts, Admitted, Uploads, Edits,
        Applies, Recreates, Scales, Deletes, Supervises, Boots

(* Giving, taking and keeping it leaves it with whoever works under it. *)
LEMMA LeaseStaysHeld ==
  ASSUME RevisionTypeOK, LeaseIsHeld, NEW c \in Callers, CallerStep(c), LeaseMove(c)
  PROVE  LeaseIsHeld'
<1>a. /\ lease \in Callers \cup {NoCaller} /\ NoCaller \notin Callers
      /\ \A o \in Callers : o = c \/ caller'[o] = caller[o]
  BY NoCallerAssumption DEF RevisionTypeOK, CallerStep
<1>b. "uploading" \in Leased
  BY DEF Leased
<1> USE DEF LeaseIsHeld
<1> HIDE DEF Leased
<1>1. CASE caller[c].at \notin Leased /\ caller'[c].at \notin Leased /\ lease' = lease
  BY <1>1, <1>a
<1>2. CASE /\ caller[c].at \notin Leased /\ caller'[c].at \in Leased
           /\ lease = NoCaller /\ lease' = c
  BY <1>2, <1>a
<1>3. CASE caller[c].at \in Leased /\ caller'[c].at \notin Leased /\ Releases(c)
  BY <1>3, <1>a DEF Releases
<1>4. CASE /\ caller[c].at \in Leased /\ caller'[c].at \in Leased /\ lease' = lease
           /\ caller[c].at = "uploading" => caller'[c].at = "uploading"
  BY <1>4, <1>a
<1>5. CASE /\ caller[c].at = "uploading" /\ caller'[c].at = "uploading"
           /\ lease = c /\ lease' = NoCaller
  BY <1>5, <1>a, <1>b
<1> QED BY <1>1, <1>2, <1>3, <1>4, <1>5 DEF LeaseMove

(* Who builds, applies or recreates under the lease. *)
AtWork == {"uploading", "applying", "recreating"}

(* A caller keeps to its place: nothing converges without the lease, who   *)
(* works shows in the row, an upload builds what is desired, and who will  *)
(* put back a status read under the lease read one that nobody works on.   *)
InItsPlace(c) ==
  /\ caller[c].at \notin {"scaling", "booting", "deleting", "restarted"}
  /\ caller[c].at = "uploading" => lease = c /\ row.desired = caller[c].cand
  /\ caller[c].at \in AtWork => row.status \in PreContainer
  /\ caller[c].at \in {"apply-reading", "applying", "recreating"} =>
       row # NoRow /\ caller[c].seen.status \notin PreContainer

(* A row that says it is worked on is, by the holder of the lease. *)
RowSaysWho ==
  row.status \in PreContainer => lease # NoCaller /\ caller[lease].at \in AtWork

WorkInOrder == ~ disturbed => RowSaysWho /\ \A c \in Callers : InItsPlace(c)

BuildInv == ChainInv /\ LeaseIsHeld /\ WorkInOrder

(* While nothing was disturbed, whoever stands at a leased place holds the *)
(* lease, so that no two do.                                               *)
LEMMA HolderIsAlone ==
  ASSUME LeaseIsHeld, WorkInOrder, ~ disturbed, NEW c \in Callers,
         caller[c].at \in Leased
  PROVE  lease = c
BY DEF LeaseIsHeld, WorkInOrder, InItsPlace

(* The three ways a step keeps that order.  A caller without the lease     *)
(* leaves the row, or changes it while nobody works on it; ...             *)
LEMMA QuietStep ==
  ASSUME RevisionTypeOK, LeaseIsHeld, WorkInOrder, ~ disturbed, NEW c \in Callers,
         CallerStep(c), lease' = lease, caller[c].at \notin Leased,
         caller'[c].at \notin Leased \cup {"scaling", "booting", "deleting", "restarted"},
         \/ row' = row
         \/ row' # NoRow /\ row'.status = row.status /\ row.status \notin PreContainer
         \/ row'.status \notin PreContainer /\ lease = NoCaller
  PROVE  WorkInOrder'
<1>1. \A o \in Callers : caller[o].at \in Leased => lease = o /\ lease # NoCaller
  BY HolderIsAlone, NoCallerAssumption
<1>2. ASSUME NEW o \in Callers PROVE InItsPlace(o)'
  <2>1. CASE o = c
    BY <2>1 DEF InItsPlace, AtWork, Leased
  <2>2. CASE o # c
    BY <2>2, <1>1 DEF CallerStep, WorkInOrder, InItsPlace, AtWork, Leased
  <2> QED BY <2>1, <2>2
<1>3. RowSaysWho'
  BY DEF CallerStep, RevisionTypeOK, WorkInOrder, RowSaysWho, AtWork, Leased
<1> QED BY <1>2, <1>3 DEF WorkInOrder

(* ... the holder gives the lease back with the row at rest; ... *)
LEMMA EndStep ==
  ASSUME RevisionTypeOK, LeaseIsHeld, WorkInOrder, ~ disturbed, NEW c \in Callers,
         CallerStep(c), caller[c].at \in Leased,
         caller'[c].at \in {"idle", "supervise-failed"},
         \/ row'.status \notin PreContainer
         \/ row' = row /\ caller[c].at \notin AtWork
  PROVE  WorkInOrder'
<1>1. lease = c /\ lease # NoCaller
  BY HolderIsAlone, NoCallerAssumption
<1>2. \A o \in Callers \ {c} : caller[o].at \notin Leased
  BY <1>1, HolderIsAlone
<1>3. ASSUME NEW o \in Callers PROVE InItsPlace(o)'
  <2>1. CASE o = c
    BY <2>1 DEF InItsPlace, AtWork
  <2>2. CASE o # c
    BY <2>2, <1>2 DEF CallerStep, WorkInOrder, InItsPlace, AtWork, Leased
  <2> QED BY <2>1, <2>2
<1>4. row'.status \notin PreContainer
  BY <1>1 DEF WorkInOrder, RowSaysWho
<1> QED BY <1>3, <1>4 DEF WorkInOrder, RowSaysWho

(* ... or it holds the lease after the step and the row tells its place.   *)
LEMMA HolderStep ==
  ASSUME RevisionTypeOK, LeaseIsHeld, WorkInOrder, ~ disturbed, NEW c \in Callers,
         CallerStep(c), lease \in {NoCaller, c}, lease' = c,
         caller'[c].at \in Leased, InItsPlace(c)',
         \/ row'.status \notin PreContainer
         \/ caller'[c].at \in AtWork
  PROVE  WorkInOrder'
<1>1. \A o \in Callers \ {c} : caller[o].at \notin Leased
  BY HolderIsAlone, NoCallerAssumption
<1>2. ASSUME NEW o \in Callers PROVE InItsPlace(o)'
  <2>1. CASE o = c
    BY <2>1
  <2>2. CASE o # c
    BY <2>2, <1>1 DEF CallerStep, WorkInOrder, InItsPlace, AtWork, Leased
  <2> QED BY <2>1, <2>2
<1>3. RowSaysWho'
  BY NoCallerAssumption DEF RowSaysWho
<1> QED BY <1>2, <1>3 DEF WorkInOrder

(* Every action of a caller is one of the three, or disturbs. *)
LEMMA WorkKept ==
  ASSUME BuildInv, NEW c \in Callers, Acts(c), ~ disturbed, ~ disturbed'
  PROVE  WorkInOrder'
<1>a. /\ RevisionTypeOK /\ CandidatesAreDigests /\ LeaseIsHeld /\ WorkInOrder
      /\ InItsPlace(c) /\ RowSaysWho
  BY DEF BuildInv, ChainInv, RevisionsSound, WorkInOrder
<1>b. /\ row \in Row /\ caller \in [Callers -> Caller] /\ caller[c] \in Caller
      /\ caller[c].seen \in Row /\ caller[c].seen.status \in Statuses
      /\ caller[c].cand \in Digest /\ HasCandidate(caller[c])
      /\ NoRow \in Row /\ lease \in Callers \cup {NoCaller}
  BY <1>a, RowHelpers DEF RevisionTypeOK, CandidatesAreDigests, Caller
<1>c. CallerStep(c)
  BY <1>a, CallerSteps
<1>d. /\ Ends(c) => caller'[c] = Idle
      /\ \A p \in Places : Moves(c, p) => caller'[c] = [caller[c] EXCEPT !.at = p]
      /\ \A r : Becomes(c, r) => caller'[c] = r
  BY <1>b DEF Ends, Moves, Becomes
<1>e. /\ Waiting \cup Leased \cup Converging \cup {"idle", "deleting", "supervise-failed"}
           \subseteq Places
      /\ \A p \in Places : [caller[c] EXCEPT !.at = p].at = p
  BY <1>b DEF Places, Caller
<1>f. caller[c].at \in Leased => lease = c
  BY <1>a, HolderIsAlone
<1>g. Idle.at = "idle" /\ NoRow.status \notin PreContainer
  BY DEF Idle, NoRow, PreContainer
<1>h. lease = NoCaller => row.status \notin PreContainer
  BY <1>a DEF RowSaysWho
<1> HIDE DEF Places, Caller, Statuses
<1>1. CASE ScaleConverged(c) \/ ScaleFails(c) \/ DeleteFinishes(c) \/
           DeleteFails(c) \/ BootStarts(c) \/ BootConverged(c) \/ BootFails(c)
  BY <1>1, <1>a DEF InItsPlace, At, ScaleConverged, ScaleFails,
         DeleteFinishes, DeleteFails, BootStarts, BootConverged, BootFails
<1>2. CASE ClientHangsUp(c) \/ ScaleStarts(c) \/ DeleteArrives(c)
  BY <1>2 DEF ClientHangsUp, ScaleStarts, DeleteArrives
<1>3. CASE UploadArrives(c) \/ EditArrives(c) \/ EditRefused(c) \/
           ApplyArrives(c) \/ RecreateArrives(c) \/ ScaleArrives(c) \/
           ScaleRefused(c) \/ SuperviseArrives(c)
  <2>1. row' = row /\ lease' = lease /\ caller[c].at \notin Leased
    BY <1>3 DEF At, Leased, UploadArrives, EditArrives, EditRefused,
         ApplyArrives, RecreateArrives, ScaleArrives, ScaleRefused,
         SuperviseArrives
  <2>2. caller'[c].at \notin Leased \cup {"scaling", "booting", "deleting", "restarted"}
    <3>1. CASE UploadArrives(c)
      BY <3>1, <1>d, <1>e, <1>g DEF UploadArrives, Idle, Waiting, Leased
    <3>2. CASE EditArrives(c)
      <4>1. caller'[c].at = "editing"
        BY <3>2, <1>d DEF EditArrives, Idle
      <4> QED BY <4>1 DEF Leased
    <3>3. CASE EditRefused(c)
      BY <3>3, <1>d, <1>e, <1>g DEF EditRefused, Idle, Waiting, Leased
    <3>4. CASE ApplyArrives(c)
      BY <3>4, <1>d, <1>e, <1>g DEF ApplyArrives, Idle, Waiting, Leased
    <3>5. CASE RecreateArrives(c)
      BY <3>5, <1>d, <1>e, <1>g DEF RecreateArrives, Idle, Waiting, Leased
    <3>6. CASE ScaleArrives(c)
      <4>1. caller'[c].at = "scale-reading"
        BY <3>6, <1>d DEF ScaleArrives, Idle
      <4> QED BY <4>1 DEF Leased
    <3>7. CASE ScaleRefused(c)
      BY <3>7, <1>d, <1>e, <1>g DEF ScaleRefused, Idle, Waiting, Leased
    <3>8. CASE SuperviseArrives(c)
      BY <3>8, <1>d, <1>e, <1>g DEF SuperviseArrives, Idle, Waiting, Leased
    <3> QED BY <1>3, <3>1, <3>2, <3>3, <3>4, <3>5, <3>6, <3>7, <3>8
  <2> QED BY <2>1, <2>2, <1>a, <1>c, QuietStep
<1>4. CASE UploadRefused(c) \/ UploadFails(c) \/ UploadGated(c) \/
           ApplyEnds(c) \/ ApplyFails(c) \/ RecreateFails(c) \/
           SuperviseFails(c)
  <2>1. caller[c].at \in Leased /\ caller'[c].at \in {"idle", "supervise-failed"}
    BY <1>4, <1>d, <1>g DEF At, Leased, Idle, UploadRefused, UploadFails,
         UploadGated, ApplyEnds, ApplyFails, RecreateFails, SuperviseFails
  <2>2. \/ row'.status \notin PreContainer
        \/ row' = row /\ caller[c].at \notin AtWork
    BY <1>4, <1>a, <1>b, <1>g DEF At, AtWork, InItsPlace, WithStatus,
         PreContainer, Row, UploadRefused, UploadFails, UploadGated,
         ApplyEnds, ApplyFails, RecreateFails, SuperviseFails
  <2> QED BY <2>1, <2>2, <1>a, <1>c, EndStep
<1>5. CASE UploadConverged(c) \/ ApplyConverged(c) \/ RecreateConverged(c) \/
           SuperviseConverged(c)
  <2>1. caller[c].at \in Leased /\ caller'[c].at = "idle"
    BY <1>5, <1>d, <1>g DEF At, Leased, UploadConverged, ApplyConverged,
         RecreateConverged, SuperviseConverged
  <2>2. row'.status \notin PreContainer
    <3>1. CASE UploadConverged(c)
      BY <3>1, <1>a, <1>b, <1>g, RowHelpers
         DEF At, InItsPlace, WithStatus, PreContainer, Row, UploadConverged
    <3>2. CASE ApplyConverged(c)
      BY <3>2, <1>a, <1>b, <1>g, RowHelpers
         DEF At, InItsPlace, WithStatus, PreContainer, Row, ApplyConverged
    <3>3. CASE RecreateConverged(c)
      BY <3>3, <1>a, <1>b, <1>g, RowHelpers
         DEF At, InItsPlace, WithStatus, PreContainer, Row, RecreateConverged
    <3>4. CASE SuperviseConverged(c)
      BY <3>4, <1>a, <1>b, <1>g, RowHelpers
         DEF At, InItsPlace, WithStatus, PreContainer, Row, SuperviseConverged
    <3> QED BY <1>5, <3>1, <3>2, <3>3, <3>4
  <2> QED BY <2>1, <2>2, <1>a, <1>c, EndStep
<1>6. CASE EditSaves(c)
  <2>1. /\ row' # NoRow /\ row'.status = row.status /\ row.status \notin PreContainer
        /\ lease' = lease
    BY <1>6, <1>b, NoDigestAssumption
       DEF EditSaves, At, CanSave, HasCandidate, Savers, Row, NoRow, Digest
  <2>2. caller[c].at \notin Leased /\ caller'[c].at = "idle"
    BY <1>6, <1>d, <1>g DEF EditSaves, At, Leased
  <2> QED BY <2>1, <2>2, <1>a, <1>c, QuietStep DEF Leased
<1>7. CASE SuperviseOnError(c)
  <2>1. lease = NoCaller /\ lease' = lease /\ row'.status \notin PreContainer
    BY <1>7, <1>b, <1>g DEF SuperviseOnError, WithStatus, PreContainer, Row
  <2>2. caller[c].at \notin Leased /\ caller'[c].at = "idle"
    BY <1>7, <1>d, <1>g DEF SuperviseOnError, At, Leased
  <2> QED BY <2>1, <2>2, <1>a, <1>c, QuietStep DEF Leased
<1>8. CASE UploadAdmitted(c)
  <2>1. row' = row /\ lease = NoCaller /\ lease' = c /\ caller'[c].at = "upload-staged"
    BY <1>8, <1>d, <1>e DEF UploadAdmitted, Leased
  <2> QED BY <2>1, <1>a, <1>c, <1>h, HolderStep DEF InItsPlace, AtWork, Leased
<1>9. CASE SuperviseAdmitted(c)
  <2>1. row' = row /\ lease = NoCaller /\ caller[c].at = "supervise-queued"
    BY <1>9 DEF SuperviseAdmitted, At
  <2>2. CASE lease' = c /\ caller'[c].at = "supervising"
    BY <2>1, <2>2, <1>a, <1>c, <1>h, HolderStep DEF InItsPlace, AtWork, Leased
  <2>3. CASE lease' = lease /\ caller'[c].at = "idle"
    BY <2>1, <2>3, <1>a, <1>c, QuietStep DEF Leased
  <2> QED BY <1>9, <2>2, <2>3, <1>d, <1>g DEF SuperviseAdmitted, Idle
<1>10. CASE ApplyAdmitted(c)
  <2>1. row' = row /\ lease = NoCaller /\ caller[c].at = "apply-queued"
    BY <1>10 DEF ApplyAdmitted, At
  <2>2. CASE row # NoRow
    <3>1. lease' = c /\ caller'[c] = [Idle EXCEPT !.at = "apply-reading", !.seen = row]
      BY <1>10, <1>d, <2>2 DEF ApplyAdmitted
    <3>2. caller'[c].at = "apply-reading" /\ caller'[c].seen = row
      BY <3>1 DEF Idle
    <3> QED BY <2>1, <2>2, <3>1, <3>2, <1>a, <1>c, <1>h, HolderStep
            DEF InItsPlace, AtWork, Leased
  <2>3. CASE row = NoRow
    <3>1. lease' = lease /\ caller'[c].at = "idle"
      BY <1>10, <1>d, <1>g, <2>3 DEF ApplyAdmitted
    <3> QED BY <2>1, <3>1, <1>a, <1>c, QuietStep DEF Leased
  <2> QED BY <2>2, <2>3
<1>11. CASE RecreateAdmitted(c)
  <2>1. lease = NoCaller /\ caller[c].at = "recreate-queued"
    BY <1>11 DEF RecreateAdmitted, At
  <2>2. CASE Becomes(c, [Idle EXCEPT !.at = "recreating", !.seen = row]) /\ lease' = c
               /\ row' = WithStatus(row, "recreating") /\ row.active \in revisions
    <3>1. caller'[c].at = "recreating" /\ caller'[c].seen = row
      BY <2>2, <1>d DEF Idle
    <3>2. row # NoRow
      BY <2>2, <1>a, NoDigestAssumption DEF NoRow, RevisionTypeOK
    <3>3. row'.status = "recreating" /\ row' # NoRow
      BY <2>2, <3>2, <1>b DEF WithStatus, Row, NoRow
    <3> QED BY <2>1, <2>2, <3>1, <3>2, <3>3, <1>a, <1>c, <1>h, HolderStep
            DEF InItsPlace, AtWork, Leased, PreContainer
  <2>3. CASE Ends(c) /\ lease' = lease
               /\ row' \in {row, WithStatus(row, "configuration-required")}
    <3>1. row'.status \notin PreContainer
      BY <2>1, <2>3, <1>b, <1>g, <1>h DEF WithStatus, Row, PreContainer
    <3> QED BY <2>1, <2>3, <3>1, <1>a, <1>c, <1>d, <1>g, QuietStep DEF Leased
  <2> QED BY <1>11, <2>2, <2>3 DEF RecreateAdmitted
<1>12. CASE UploadCommits(c)
  <2>1. caller[c].at = "upload-staged" /\ lease = c
    BY <1>12, <1>f DEF UploadCommits, At, Leased
  <2>2. row.status \notin PreContainer
    BY <2>1, <1>a DEF RowSaysWho, AtWork
  <2>3. CASE Ends(c) /\ row' = [row EXCEPT !.desired = caller[c].cand]
    <3>1. row'.status \notin PreContainer
      BY <2>2, <2>3, <1>b DEF Row
    <3> QED BY <2>1, <2>3, <3>1, <1>a, <1>c, <1>d, <1>g, EndStep DEF Leased
  <2>4. CASE /\ Becomes(c, [Idle EXCEPT !.at = "uploading", !.cand = caller[c].cand])
             /\ row' = [Upserted(row) EXCEPT !.desired = caller[c].cand,
                                             !.status = "building"]
             /\ lease' = lease
    <3>1. caller'[c].at = "uploading" /\ caller'[c].cand = caller[c].cand
      BY <2>4, <1>d DEF Idle
    <3>2. row'.status = "building" /\ row'.desired = caller[c].cand
      BY <2>4, <1>b, RowHelpers DEF Row
    <3> QED BY <2>1, <2>4, <3>1, <3>2, <1>a, <1>c, HolderStep
            DEF InItsPlace, AtWork, Leased, PreContainer
  <2> QED BY <1>12, <2>3, <2>4 DEF UploadCommits
<1>13. CASE ApplyStarts(c)
  <2>1. caller[c].at = "apply-reading" /\ lease = c /\ lease' = c
    BY <1>13, <1>f DEF ApplyStarts, At, Leased
  <2>2. row # NoRow /\ caller[c].seen.status \notin PreContainer
    BY <2>1, <1>a DEF InItsPlace
  <2>3. caller'[c].at = "applying" /\ caller'[c].seen = caller[c].seen
    BY <1>13, <1>b, <1>d DEF ApplyStarts, Caller
  <2>4. row'.status = "recreating" /\ row' # NoRow
    BY <1>13, <2>2, <1>b DEF ApplyStarts, WithStatus, Row, NoRow
  <2> QED BY <2>1, <2>2, <2>3, <2>4, <1>a, <1>c, HolderStep
          DEF InItsPlace, AtWork, Leased, PreContainer
<1> QED BY <1>1, <1>2, <1>3, <1>4, <1>5, <1>6, <1>7, <1>8, <1>9, <1>10, <1>11,
         <1>12, <1>13
        DEF Acts, Admitted, Uploads, Edits, Applies, Recreates, Scales, Deletes,
            Supervises, Boots

LEMMA BuildInvInit == RevisionInit => BuildInv
<1> SUFFICES ASSUME RevisionInit PROVE BuildInv
  OBVIOUS
<1>1. /\ row.status \notin PreContainer /\ lease = NoCaller
      /\ \A c \in Callers : caller[c].at = "idle"
  BY DEF RevisionInit, NoRow, PreContainer, Idle
<1>2. LeaseIsHeld
  BY <1>1 DEF LeaseIsHeld, Leased
<1>3. WorkInOrder
  BY <1>1 DEF WorkInOrder, RowSaysWho, InItsPlace, AtWork
<1> QED BY <1>2, <1>3, ChainInvInit DEF BuildInv

LEMMA BuildInvStep == BuildInv /\ [RevisionNext]_revisionVars => BuildInv'
<1> SUFFICES ASSUME BuildInv, [RevisionNext]_revisionVars PROVE BuildInv'
  OBVIOUS
<1>a. ChainInv /\ RevisionTypeOK /\ CandidatesAreDigests /\ LeaseIsHeld /\ WorkInOrder
  BY DEF BuildInv, ChainInv, RevisionsSound
<1>b. ChainInv'
  BY <1>a, ChainInvStep
<1>1. ASSUME NEW c \in Callers, Acts(c) PROVE LeaseIsHeld' /\ WorkInOrder'
  <2>1. CallerStep(c) /\ LeaseMove(c)
    BY <1>1, <1>a, CallerSteps, LeaseMoves DEF RevisionTypeOK
  <2>2. LeaseIsHeld'
    BY <2>1, <1>a, LeaseStaysHeld
  <2>3. disturbed => disturbed'
    BY <1>1
       DEF Acts, Admitted, Uploads, Edits, Applies, Recreates, Scales, Deletes,
           Supervises, Boots, UploadArrives, UploadAdmitted, UploadRefused,
           UploadCommits, ClientHangsUp, UploadConverged, UploadFails,
           UploadGated, EditArrives, EditSaves, EditRefused, ApplyArrives,
           ApplyAdmitted, ApplyStarts, ApplyEnds, ApplyConverged, ApplyFails,
           RecreateArrives, RecreateAdmitted, RecreateConverged, RecreateFails,
           ScaleArrives, ScaleStarts, ScaleRefused, ScaleConverged, ScaleFails,
           DeleteArrives, DeleteFinishes, DeleteFails, SuperviseArrives,
           SuperviseAdmitted, SuperviseConverged, SuperviseFails,
           SuperviseOnError, BootStarts, BootConverged, BootFails
  <2>4. WorkInOrder'
    BY <2>3, <1>1, WorkKept DEF WorkInOrder
  <2> QED BY <2>2, <2>4
<1>2. CASE Crash
  <2>1. disturbed' /\ lease' = NoCaller
    BY <1>2 DEF Crash
  <2>2. \A c \in Callers : caller'[c].at \in {"idle", "restarted"}
    BY <1>2 DEF Crash, Idle
  <2> QED BY <2>1, <2>2, <1>b DEF BuildInv, LeaseIsHeld, WorkInOrder, Leased
<1>3. CASE Forget
  <2>1. /\ \A c \in Callers : caller'[c].at = "idle"
        /\ row'.status \notin PreContainer /\ lease' = lease /\ caller' = caller
    BY <1>3 DEF Forget, AtRest
  <2>2. LeaseIsHeld'
    BY <2>1, <1>a DEF LeaseIsHeld
  <2>3. WorkInOrder'
    BY <2>1 DEF WorkInOrder, RowSaysWho, InItsPlace, AtWork
  <2> QED BY <2>2, <2>3, <1>b DEF BuildInv
<1>4. CASE UNCHANGED revisionVars
  BY <1>4, <1>a, <1>b
     DEF revisionVars, BuildInv, LeaseIsHeld, WorkInOrder, RowSaysWho, InItsPlace
<1> QED BY <1>1, <1>2, <1>3, <1>4, <1>b, StepKinds DEF BuildInv

LEMMA BuildInvAlways == RevisionSpec => []BuildInv
BY BuildInvInit, BuildInvStep, PTL DEF RevisionSpec

(* While nothing works without the lease, a build is alone, shows in the   *)
(* row for as long as it works, and builds what is desired: the lease and  *)
(* the status together keep every other writer of the row out.             *)
THEOREM BuildsStayUndisturbed == RevisionSpec => []BuildsUndisturbed
<1>1. BuildInv => BuildsUndisturbed
  <2> SUFFICES ASSUME BuildInv, ~ disturbed
               PROVE  /\ \A c, o \in Callers :
                           caller[c].at \in Converging /\ caller[o].at \in Converging
                             => c = o
                      /\ \A c \in Callers : caller[c].at \in AtWork =>
                           row.status \in PreContainer
                      /\ \A c \in Callers : At(c, "uploading") =>
                           row.desired = caller[c].cand
    BY DEF BuildsUndisturbed, BuildsAlone, BuildIsVisible, BuildStaysDesired, AtWork
  <2>1. LeaseIsHeld /\ WorkInOrder /\ \A c \in Callers : InItsPlace(c)
    BY DEF BuildInv, WorkInOrder
  <2>2. \A c \in Callers : caller[c].at \in Converging => lease = c
    <3>1. \A c \in Callers : caller[c].at \in Converging => caller[c].at \in Leased
      BY <2>1 DEF Converging, Leased, InItsPlace
    <3> QED BY <3>1, <2>1, HolderIsAlone
  <2> QED BY <2>1, <2>2 DEF InItsPlace, At
<1> QED BY <1>1, BuildInvAlways, PTL

(* A row never says that it is being worked on when nobody is: the statuses *)
(* that lock the editor and recreate out go away with whoever set them.     *)
THEOREM RowStatusIsSomeones == RevisionSpec => []StatusIsSomeones
<1>1. BuildInv => StatusIsSomeones
  <2> SUFFICES ASSUME BuildInv, ~ disturbed, row.status \in PreContainer
               PROVE  \E c \in Callers : caller[c].at \in Converging
    BY DEF StatusIsSomeones
  <2>1. lease \in Callers /\ caller[lease].at \in AtWork
    BY DEF BuildInv, ChainInv, RevisionsSound, RevisionTypeOK, WorkInOrder, RowSaysWho
  <2> QED BY <2>1 DEF AtWork, Converging
<1> QED BY <1>1, BuildInvAlways, PTL
==============================================================================
