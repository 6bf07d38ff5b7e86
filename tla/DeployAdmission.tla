--------------------------- MODULE DeployAdmission ---------------------------
(***************************************************************************)
(* The deploy admission queue of the control process                       *)
(* (server/deploy-admission.ts): every upload, apply, recreate and graph   *)
(* reconciliation takes a lease on its application's name before it        *)
(* touches the runtime.  One lease per application, at most MaxConcurrent  *)
(* in all, granted in queue order among the applications that are free.    *)
(*                                                                         *)
(* A request is one caller of acquireDeploySlot.  The JavaScript array     *)
(* `queue' is kept as the set of requests standing ahead of each queued    *)
(* one, which determines the array: position = |ahead| + 1.                *)
(***************************************************************************)
EXTENDS Naturals, FiniteSets

CONSTANTS
  Requests,        \* callers of acquireDeploySlot
  Apps,            \* application names
  Users,           \* usernames
  AppOf,           \* the application a request deploys
  UserOf,          \* the user on whose behalf it does
  MaxConcurrent    \* MAX_CONCURRENT

ASSUME RequestsAssumption == IsFiniteSet(Requests) /\ IsFiniteSet(Apps)
ASSUME AppOfAssumption == AppOf \in [Requests -> Apps]
ASSUME UserOfAssumption == UserOf \in [Requests -> Users]
ASSUME MaxConcurrentAssumption == MaxConcurrent \in Nat \ {0}

VARIABLES
  status,          \* where each request's promise stands
  ahead,           \* the requests in front of each queued one
  active           \* the keys of activeApps

admissionVars == <<status, ahead, active>>

RequestStatuses == {"idle", "queued", "leased", "released", "cancelled"}

Queued == {r \in Requests : status[r] = "queued"}
LeasedRequests == {r \in Requests : status[r] = "leased"}

AdmissionInit ==
  /\ status = [r \in Requests |-> "idle"]
  /\ ahead = [r \in Requests |-> {}]
  /\ active = {}

AppsOf(S) == {AppOf[r] : r \in S}

(* G is a set of waiters of the queue Q that dispatch() may take while the *)
(* applications A are active: each one for a free application, until the   *)
(* slots are used up or every waiter's application is active.              *)
DispatchesSome(G, Q, before, A) ==
  LET now == A \cup AppsOf(G)
  IN /\ \A r \in G : AppOf[r] \notin A
     /\ \A r, s \in G : AppOf[r] = AppOf[s] => r = s
     /\ Cardinality(now) =< MaxConcurrent
     /\ \/ Cardinality(now) = MaxConcurrent
        \/ \A q \in Q \ G : AppOf[q] \in now

(* The set its loop does take: findIndex passes over a waiter only if its  *)
(* application is active by then.                                          *)
Dispatches(G, Q, before, A) ==
  /\ DispatchesSome(G, Q, before, A)
  /\ \A r \in G : \A q \in before[r] \ G :
       AppOf[q] \in A \cup AppsOf(G \cap before[r])

(* The state after dispatch() has run on the settled promises st, queue    *)
(* order `before' and active applications A.                               *)
DispatchFrom(st, before, A) ==
  LET Q == {r \in Requests : st[r] = "queued"}
  IN \E G \in SUBSET Q :
       /\ Dispatches(G, Q, before, A)
       /\ status' = [r \in Requests |-> IF r \in G THEN "leased" ELSE st[r]]
       /\ ahead' = [r \in Requests |-> IF r \in G THEN {} ELSE before[r] \ G]
       /\ active' = A \cup AppsOf(G)

(* A variant of acquireDeploySlot that would unshift the waiter. *)
AcquireInFront(r) ==
  /\ status[r] \in {"idle", "released", "cancelled"}
  /\ DispatchFrom([status EXCEPT ![r] = "queued"],
                  [q \in Requests |-> IF q \in Queued THEN ahead[q] \cup {r} ELSE {}],
                  active)

(* acquireDeploySlot: push the waiter, then dispatch. *)
Acquire(r) ==
  /\ status[r] \in {"idle", "released", "cancelled"}
  /\ DispatchFrom([status EXCEPT ![r] = "queued"],
                  [ahead EXCEPT ![r] = Queued],
                  active)

(* A variant of release() that would forget to dispatch. *)
ReleaseWithoutDispatch(r) ==
  /\ status[r] = "leased"
  /\ status' = [status EXCEPT ![r] = "released"]
  /\ active' = active \ {AppOf[r]}
  /\ UNCHANGED ahead

(* lease.release(), the first time: free the application, then dispatch. *)
Release(r) ==
  /\ status[r] = "leased"
  /\ DispatchFrom([status EXCEPT ![r] = "released"], ahead, active \ {AppOf[r]})

(* A variant of the lease without its `released' flag. *)
ReleaseTwice(r) ==
  /\ status[r] = "released"
  /\ DispatchFrom(status, ahead, active \ {AppOf[r]})

(* lease.release() again: the `released' flag of the lease makes it a no-op. *)
ReleaseAgain(r) ==
  /\ status[r] = "released"
  /\ UNCHANGED admissionVars

Matches(r, a, u) == AppOf[r] = a /\ UserOf[r] = u

(* cancelQueuedDeploy(name, username): reject the first waiter of that     *)
(* application and user, then dispatch; false and no effect without one.   *)
CancelQueued(a, u) ==
  \E r \in Queued :
    /\ Matches(r, a, u)
    /\ \A q \in ahead[r] : ~ Matches(q, a, u)
    /\ DispatchFrom([status EXCEPT ![r] = "cancelled"],
                    [q \in Requests |-> IF q = r THEN {} ELSE ahead[q] \ {r}],
                    active)

AdmissionNext ==
  \/ \E r \in Requests : Acquire(r) \/ Release(r) \/ ReleaseAgain(r)
  \/ \E a \in Apps, u \in Users : CancelQueued(a, u)

AdmissionSpec == AdmissionInit /\ [][AdmissionNext]_admissionVars

(* Every caller releases its lease in a finally block or an equivalent     *)
(* (api.ts, application-graph-supervisor.ts), so a lease ends.             *)
FairAdmissionSpec ==
  AdmissionSpec /\ \A r \in Requests : WF_admissionVars(Release(r))

-----------------------------------------------------------------------------
AdmissionTypeOK ==
  /\ status \in [Requests -> RequestStatuses]
  /\ ahead \in [Requests -> SUBSET Requests]
  /\ active \in SUBSET Apps

(* activeApps, which the scheduler consults, names exactly the             *)
(* applications of the leases that are out: release() deletes by name, so  *)
(* a lease released twice would free somebody else's.                      *)
ActiveIsHeld == active = AppsOf(LeasedRequests)

(* "serializes deploys for the same app": two leases never name one        *)
(* application.                                                            *)
OneLeasePerApp ==
  \A r, s \in LeasedRequests : AppOf[r] = AppOf[s] => r = s

(* No more deploys run than MAX_CONCURRENT. *)
WithinLimit == Cardinality(LeasedRequests) =< MaxConcurrent

(* What the queue grants: leases exclude each other per application, stay  *)
(* within the limit, and are what the scheduler takes for active.          *)
LeasesSound ==
  AdmissionTypeOK /\ ActiveIsHeld /\ OneLeasePerApp /\ WithinLimit

(* No slot idles while a waiter could use it: release, cancellation and    *)
(* arrival each leave the queue with nothing left to dispatch.             *)
WorkConserving ==
  \A r \in Queued : AppOf[r] \in active \/ Cardinality(active) = MaxConcurrent

(* No step grants a waiter a lease from behind another waiter for the same *)
(* application.                                                            *)
FifoPerAppStep ==
  \A r, q \in Queued :
    q \in ahead[r] /\ AppOf[q] = AppOf[r] => status'[r] # "leased"

FifoPerApp == [][FifoPerAppStep]_admissionVars

(* Whoever queues is eventually served or cancelled, however many          *)
(* requests for other applications overtake it.                            *)
EveryWaiterServed ==
  \A r \in Requests : status[r] = "queued" ~> status[r] # "queued"
=============================================================================
