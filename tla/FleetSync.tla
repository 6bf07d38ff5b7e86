------------------------------ MODULE FleetSync ------------------------------
(***************************************************************************)
(* Event synchronization between Home and its suitcases.                   *)
(*                                                                         *)
(* Every site numbers the events it originates 1, 2, 3, ... in its own     *)
(* SQLite log (server/multisite.ts).  A suitcase copies its log into the   *)
(* outbox of its membership file (server/suitcase-local-outbox.ts) and, in *)
(* a sync pass (server/suitcase-runtime.ts, lib/suitcase-sync-client.ts),  *)
(* exchanges batches with Home (server/suitcase-transport.ts): Home        *)
(* accepts each origin contiguously and answers with the events the        *)
(* suitcase's cursors lack, subject to the data policy of the suitcase;    *)
(* the suitcase projects what it received into its own log                 *)
(* (server/suitcase-projector.ts).                                         *)
(*                                                                         *)
(* Requests and responses get lost, a request outlives the client that     *)
(* sent it, and a suitcase crashes between any two of its durable writes.  *)
(* The membership file is written under its lock here; the lock itself is  *)
(* the subject of SuitcaseCore.                                          *)
(***************************************************************************)
EXTENDS Naturals, Sequences, FiniteSets

CONSTANTS
  Home,            \* the home site
  Suitcases,       \* the paired suitcases
  BatchLimit,      \* EVENT_LIMIT, and the 200 of the outbox batch
  MaxSeq,          \* bound: events per origin, acknowledgements apart
  MaxFaults,       \* bound: losses and crashes together
  SameInstant,     \* may two rows of Home carry one created_at?
  LocalKinds,      \* the kinds of event a suitcase writes
  HomeKinds,       \* the kinds of event Home writes
  InitialPolicy,   \* the data policy a suitcase is paired with
  PolicyChanges    \* the data policies an administrator may switch to

ASSUME FleetAssumption ==
  /\ IsFiniteSet(Suitcases)
  /\ Home \notin Suitcases
  /\ BatchLimit \in Nat \ {0}
  /\ MaxSeq \in Nat
  /\ MaxFaults \in Nat
  /\ SameInstant \in BOOLEAN
  /\ LocalKinds \subseteq {"plain", "data"}
  /\ HomeKinds \subseteq {"plain", "data", "request"}
  /\ InitialPolicy \in {"automatic", "manual"}
  /\ PolicyChanges \subseteq {"automatic", "manual", "none"}

Sites == Suitcases \cup {Home}
Policies == {"automatic", "manual", "none"}

(* An event as it travels.  `to' is the set of suitcases a control request *)
(* or a policy event is about, `re' the sequence of the Home request an    *)
(* acknowledgement answers (0: none), `policy' what a policy event sets.   *)
(* Only data events reference artifacts.                                   *)
Kinds == {"plain", "data", "policy", "request", "ack"}
Event == [origin : Sites, seq : Nat \ {0}, kind : Kinds,
          to : SUBSET Suitcases, re : Nat, policy : Policies]

NewEvent(o, n, kind) ==
  [origin |-> o, seq |-> n, kind |-> kind, to |-> {}, re |-> 0, policy |-> "automatic"]

VARIABLES
  rows,            \* Home: fleet_events, in order of created_at and id
  artifacts,       \* Home: data events whose content the store holds
  homePolicy,      \* Home: effective data policy of each suitcase
  db,              \* suitcase: fleet_events of its own origin
  applied,         \* suitcase: fleet_events of other origins, as projected
  policy,          \* suitcase: the data policy it has projected
  outbox, inbox, cursor, acked, projected, queuedArtifacts,
                   \* suitcase: the membership file
  pass,            \* suitcase: where its sync pass stands
  wire,            \* the exchange in flight
  stale,           \* requests whose client is gone
  excluded,        \* history: data events Home withheld under policy none
  faults           \* losses and crashes so far

homeVars == <<rows, artifacts, homePolicy, excluded>>
siteVars == <<db, applied, policy>>
fileVars == <<outbox, inbox, cursor, acked, projected, queuedArtifacts>>
netVars == <<wire, stale, faults>>
vars == <<homeVars, siteVars, fileVars, pass, netVars>>

RangeOf(q) == {q[i] : i \in DOMAIN q}

(* The ways to list the events E, and those that take one origin after the *)
(* other and each of them in sequence order.                               *)
Listings(E) ==
  {q \in [1..Cardinality(E) -> E] : \A e \in E : \E i \in DOMAIN q : q[i] = e}

(* Variant: a receiver that does not sort what it takes over. *)
AnyListings(E) == Listings(E)

OrderedListings(E) ==
  {q \in Listings(E) :
     \A i, j \in DOMAIN q :
       i < j /\ q[i].origin = q[j].origin =>
         /\ q[i].seq < q[j].seq
         /\ \A k \in i..j : q[k].origin = q[i].origin}

(* MAX(origin_sequence) of an origin in a set of events. *)
LastSeq(E, o) ==
  LET seqs == {e.seq : e \in {x \in E : x.origin = o}}
  IN IF seqs = {} THEN 0 ELSE CHOOSE n \in seqs : \A m \in seqs : m =< n

Idle == [at |-> "idle", manual |-> FALSE, round |-> 1, missing |-> {}]

NoMessage == [type |-> "none"]
Failure == [type |-> "error"]

FleetInit ==
  /\ rows = <<>>
  /\ artifacts = {}
  /\ homePolicy = [s \in Suitcases |-> InitialPolicy]
  /\ excluded = [s \in Suitcases |-> {}]
  /\ db = [s \in Suitcases |-> {}]
  /\ applied = [s \in Suitcases |-> <<>>]
  /\ policy = [s \in Suitcases |-> InitialPolicy]
  /\ outbox = [s \in Suitcases |-> {}]
  /\ inbox = [s \in Suitcases |-> <<>>]
  /\ cursor = [s \in Suitcases |-> [o \in Sites |-> 0]]
  /\ acked = [s \in Suitcases |-> 0]
  /\ projected = [s \in Suitcases |-> {}]
  /\ queuedArtifacts = [s \in Suitcases |-> {}]
  /\ pass = [s \in Suitcases |-> Idle]
  /\ wire = [s \in Suitcases |-> NoMessage]
  /\ stale = {}
  /\ faults = 0

-----------------------------------------------------------------------------
(* HOME                                                                    *)

HomeLast(o) == LastSeq(RangeOf(rows), o)

(* What the policy of suitcase s does to an event: withheld for good under *)
(* none, deferred under manual unless the pass was asked for.  Control     *)
(* events and policy events are not data.                                  *)
Withheld(e, s) == e.kind = "data" /\ homePolicy[s] = "none"
Deferred(e, s, manual) == e.kind = "data" /\ homePolicy[s] = "manual" /\ ~ manual

Addressed(e, s) ==
  /\ e.kind = "request" => s \in e.to
  /\ e.kind # "ack"

(* appendLocalFleetEvent at Home: the next sequence of Home.  created_at   *)
(* has milliseconds and the id is random after them, so of two events of   *)
(* one instant either may come first.                                      *)
HomeAppend(e) ==
  \/ rows' = Append(rows, e)
  \/ /\ SameInstant
     /\ rows # <<>>
     /\ rows[Len(rows)].origin = Home
     /\ rows' = Append(SubSeq(rows, 1, Len(rows) - 1), e) \o <<rows[Len(rows)]>>

HomeNext == HomeLast(Home) + 1

HomeWrites(kind) ==
  /\ kind \in HomeKinds \ {"request"}
  /\ HomeNext =< MaxSeq
  /\ HomeAppend(NewEvent(Home, HomeNext, kind))
  /\ UNCHANGED <<artifacts, homePolicy, excluded, siteVars, fileVars, pass, netVars>>

(* prepareFleetMutation: a destructive change asks its replicas for an     *)
(* acknowledgement.                                                        *)
HomeRequests(targets) ==
  /\ "request" \in HomeKinds
  /\ HomeNext =< MaxSeq
  /\ HomeAppend([NewEvent(Home, HomeNext, "request") EXCEPT !.to = targets])
  /\ UNCHANGED <<artifacts, homePolicy, excluded, siteVars, fileVars, pass, netVars>>

(* transitionReplicaDataPolicy for a replica that shares its lineage; a    *)
(* replica rejoins from none by another protocol.                          *)
HomeSetsPolicy(s, p) ==
  /\ HomeNext =< MaxSeq
  /\ p # homePolicy[s]
  /\ homePolicy[s] # "none"
  /\ HomeAppend([NewEvent(Home, HomeNext, "policy") EXCEPT !.to = {s}, !.policy = p])
  /\ homePolicy' = [homePolicy EXCEPT ![s] = p]
  /\ UNCHANGED <<artifacts, excluded, siteVars, fileVars, pass, netVars>>

(* requireDataPolicy refuses the whole batch for one event. *)
Refused(q) ==
  \E e \in q.events : Withheld(e, q.site) \/ Deferred(e, q.site, q.manual)

(* The artifacts Home still has to ask for, and the events before the      *)
(* first one that needs any.                                               *)
Missing(q) == {e \in q.events : e.kind = "data" /\ e \notin artifacts}
Ready(q) == {e \in q.events : \A x \in Missing(q) : e.seq < x.seq}

(* Variant: an event Home already has is no replay. *)
FreshWithoutReplay(q) == Ready(q)

(* ingestEvents: those Home does not have; an event it has is a replay.    *)
Fresh(q) == {e \in Ready(q) : e.seq > HomeLast(q.site)}
Contiguous(q) ==
  {e.seq : e \in Fresh(q)} = (HomeLast(q.site) + 1) .. (HomeLast(q.site) + Cardinality(Fresh(q)))

Accepts(q) == ~ Refused(q) /\ Contiguous(q)

(* The rows of a batch are stamped by Home one after the other, within a   *)
(* millisecond as a rule: outgoingEvents then sees them in any order.      *)
Ingest(q) ==
  \E news \in (IF SameInstant THEN Listings(Fresh(q)) ELSE OrderedListings(Fresh(q))) :
    rows' = rows \o news

(* outgoingEvents: walk the rows beyond the cursors in created_at order.   *)
(* A deferred event silences its origin for the rest of the walk; BatchLimit *)
(* rows are decided, each one sent or reported as skipped.                 *)
Pending(q, rs) ==
  {i \in DOMAIN rs : rs[i].origin # q.site /\ rs[i].seq > q.cursors[rs[i].origin]}

(* Variant: a deferred event does not hold back its origin. *)
DeferredAlone(q, rs, i) == {}

DeferredBefore(q, rs, i) ==
  {j \in Pending(q, rs) :
     j < i /\ rs[j].origin = rs[i].origin /\ Deferred(rs[j], q.site, q.manual)}

Live(q, rs) ==
  {i \in Pending(q, rs) :
     ~ Deferred(rs[i], q.site, q.manual) /\ DeferredBefore(q, rs, i) = {}}

Ahead(q, rs, i) == Cardinality({j \in Live(q, rs) : j < i})

Decided(q, rs) == {i \in Live(q, rs) : Ahead(q, rs, i) < BatchLimit}

Sent(q, rs) ==
  {rs[i] : i \in {j \in Decided(q, rs) :
                     Addressed(rs[j], q.site) /\ ~ Withheld(rs[j], q.site)}}
(* Variant: what waits is reported as skipped. *)
SkippedUnlessSent(q, rs) == {rs[i] : i \in Pending(q, rs)} \ Sent(q, rs)

Skipped(q, rs) == {rs[i] : i \in Decided(q, rs)} \ Sent(q, rs)

More(q, rs) ==
  \E i \in Pending(q, rs) :
    /\ Ahead(q, rs, i) >= BatchLimit
    /\ \A j \in DeferredBefore(q, rs, i) : Ahead(q, rs, j) >= BatchLimit

(* outgoingAdministrativeControls: the oldest open requests for this       *)
(* suitcase, whatever stands before them in the log.                       *)
Acknowledges(a, r) == a.kind = "ack" /\ a.re = r.seq

OpenRequests(q, rs) ==
  {i \in DOMAIN rs :
     /\ rs[i].kind = "request"
     /\ q.site \in rs[i].to
     /\ ~ \E j \in DOMAIN rs : rs[j].origin = q.site /\ Acknowledges(rs[j], rs[i])}

(* Variant: requests travel in the ordinary stream only. *)
ControlsInStream(q, rs) == {}

Controls(q, rs) ==
  {rs[i] : i \in {j \in OpenRequests(q, rs) :
                     Cardinality({k \in OpenRequests(q, rs) : k < j}) < BatchLimit}}

(* Variant: Home acknowledges the batch it was sent. *)
AnswerWholeBatch(q, rs) ==
  [type |-> "response",
   accepted |-> LastSeq(q.events \cup RangeOf(rs), q.site),
   events |-> Sent(q, rs),
   skipped |-> Skipped(q, rs),
   controls |-> Controls(q, rs),
   missing |-> Missing(q),
   more |-> More(q, rs)]

Answer(q, rs) ==
  [type |-> "response",
   accepted |-> LastSeq(RangeOf(rs), q.site),
   events |-> Sent(q, rs),
   skipped |-> Skipped(q, rs),
   controls |-> Controls(q, rs),
   missing |-> Missing(q),
   more |-> More(q, rs)]

(* exchangeSuitcaseEvents, one synchronous handler. *)
HomeExchange(s) ==
  LET q == wire[s]
  IN /\ q.type = "request"
     /\ IF Accepts(q)
        THEN /\ Ingest(q)
             /\ wire' = [wire EXCEPT ![s] = Answer(q, rows')]
             /\ excluded' = [excluded EXCEPT ![s] =
                  @ \cup {e \in Skipped(q, rows') : Withheld(e, s)}]
        ELSE /\ wire' = [wire EXCEPT ![s] = Failure]
             /\ UNCHANGED <<rows, excluded>>
     /\ UNCHANGED <<artifacts, homePolicy, siteVars, fileVars, pass, stale, faults>>

(* A request whose client has given up or crashed reaches Home after all;  *)
(* nobody reads the answer.                                                *)
LateExchange(q) ==
  /\ q \in stale
  /\ stale' = stale \ {q}
  /\ IF Accepts(q) THEN Ingest(q) ELSE UNCHANGED rows
  /\ UNCHANGED <<artifacts, homePolicy, excluded, siteVars, fileVars, pass, wire, faults>>

-----------------------------------------------------------------------------
(* A SUITCASE                                                              *)

(* Variant: numbers counted from the acknowledgement. *)
LocalNextFromAck(s) == acked[s] + 1

LocalNext(s) == LastSeq(db[s], s) + 1

(* Variant: content is not queued with its event. *)
EnqueueEventsOnly(s, log) ==
  /\ outbox' = [outbox EXCEPT ![s] =
       @ \cup {e \in log : acked[s] < e.seq /\ e.seq =< acked[s] + BatchLimit}]
  /\ UNCHANGED queuedArtifacts

(* enqueueLocalDatabaseEvents: the next rows of the local log, with what    *)
(* they reference, into the membership file.                               *)
Enqueue(s, log) ==
  LET batch == {e \in log : acked[s] < e.seq /\ e.seq =< acked[s] + BatchLimit}
  IN /\ outbox' = [outbox EXCEPT ![s] = @ \cup batch]
     /\ queuedArtifacts' = [queuedArtifacts EXCEPT ![s] =
          @ \cup {e \in batch : e.kind = "data"}]

(* appendLocalFleetEvent on a suitcase, by any of its handlers at any time. *)
LocalWrites(s) ==
  /\ "plain" \in LocalKinds
  /\ LocalNext(s) =< MaxSeq
  /\ db' = [db EXCEPT ![s] = @ \cup {NewEvent(s, LocalNext(s), "plain")}]
  /\ UNCHANGED <<homeVars, applied, policy, fileVars, pass, netVars>>

(* captureSuitcaseApplicationBranches writes a data event when the branch   *)
(* changed and the policy, as the suitcase knows it, lets it travel.       *)
Captures(s, manual) ==
  /\ "data" \in LocalKinds
  /\ LocalNext(s) =< MaxSeq
  /\ policy[s] = "automatic" \/ (policy[s] = "manual" /\ manual)

(* syncSuitcaseRuntimeNow up to the first exchange; manual: a user asked.   *)
BeginPass(s, manual) ==
  /\ pass[s].at = "idle"
  /\ \E captured \in {{}} \cup
         (IF Captures(s, manual) THEN {{NewEvent(s, LocalNext(s), "data")}} ELSE {}) :
       /\ db' = [db EXCEPT ![s] = @ \cup captured]
       /\ Enqueue(s, db'[s])
  /\ pass' = [pass EXCEPT ![s] = [Idle EXCEPT !.at = "ready", !.manual = manual]]
  /\ UNCHANGED <<homeVars, applied, policy, inbox, cursor, acked, projected, netVars>>

Batch(s) ==
  {e \in outbox[s] : Cardinality({x \in outbox[s] : x.seq < e.seq}) < BatchLimit}

SendExchange(s) ==
  /\ pass[s].at = "ready"
  /\ wire' = [wire EXCEPT ![s] =
       [type |-> "request", site |-> s, events |-> Batch(s), cursors |-> cursor[s],
        manual |-> pass[s].manual]]
  /\ pass' = [pass EXCEPT ![s].at = "waiting"]
  /\ UNCHANGED <<homeVars, siteVars, fileVars, stale, faults>>

(* acceptIncomingEvents: walk each origin from its cursor for as long as    *)
(* the next sequence is delivered or reported as skipped.                  *)
Told(a, o) == {e.seq : e \in {x \in a.events \cup a.skipped : x.origin = o}}

Reach(s, a, o) ==
  cursor[s][o] + Cardinality({n \in Told(a, o) :
                                n > cursor[s][o] /\ (cursor[s][o] + 1) .. n \subseteq Told(a, o)})

Complete(s, a, o) ==
  \A e \in a.events \cup a.skipped : e.origin = o => e.seq =< Reach(s, a, o)

MovedBackwards(s, a) ==
  Batch(s) # {} /\ \A e \in Batch(s) : a.accepted + 1 < e.seq

(* The origins that are processed before the pass fails, or all of them.   *)
Processed(s, a) ==
  IF MovedBackwards(s, a) THEN {{}}
  ELSE LET broken == {o \in Sites : ~ Complete(s, a, o)}
       IN IF broken = {} THEN {Sites}
          ELSE {P \cup {o} : P \in SUBSET (Sites \ broken), o \in broken}

Accepted(s, a) == ~ MovedBackwards(s, a) /\ \A o \in Sites : Complete(s, a, o)

(* What the loop of syncSuitcaseNow does next; content no event of the     *)
(* outbox references is forgotten when the loop ends.                      *)
AfterExchange(s, a) ==
  IF a.missing # {} THEN [pass[s] EXCEPT !.at = "uploading", !.missing = a.missing]
  ELSE IF a.more THEN [pass[s] EXCEPT !.at = "ready"]
  ELSE [pass[s] EXCEPT !.at = "projecting"]

ReceiveAnswer(s) ==
  LET a == wire[s]
      Delivered(P) == {e \in a.events :
                         /\ e.origin \in P
                         /\ cursor[s][e.origin] < e.seq
                         /\ e.seq =< Reach(s, a, e.origin)} \ RangeOf(inbox[s])
  IN /\ pass[s].at = "waiting"
     /\ a.type = "response"
     /\ outbox' = [outbox EXCEPT ![s] = {e \in @ : e.seq > a.accepted}]
     /\ acked' = [acked EXCEPT ![s] = IF a.accepted > @ THEN a.accepted ELSE @]
     /\ \E P \in Processed(s, a) :
          /\ cursor' = [cursor EXCEPT ![s] =
               [o \in Sites |-> IF o \in P THEN Reach(s, a, o) ELSE @[o]]]
          /\ \E news \in OrderedListings(Delivered(P)) :
             \E controls \in OrderedListings(IF Accepted(s, a)
                                THEN a.controls \ (RangeOf(inbox[s]) \cup RangeOf(news))
                                ELSE {}) :
               inbox' = [inbox EXCEPT ![s] = @ \o news \o controls]
     /\ pass' = [pass EXCEPT ![s] = IF Accepted(s, a) THEN AfterExchange(s, a) ELSE Idle]
     /\ queuedArtifacts' = [queuedArtifacts EXCEPT ![s] =
          IF Accepted(s, a) /\ AfterExchange(s, a).at = "projecting"
          THEN @ \cap outbox'[s] ELSE @]
     /\ wire' = [wire EXCEPT ![s] = NoMessage]
     /\ UNCHANGED <<homeVars, siteVars, projected, stale, faults>>

ReceiveFailure(s) ==
  /\ pass[s].at = "waiting"
  /\ wire[s] = Failure
  /\ wire' = [wire EXCEPT ![s] = NoMessage]
  /\ pass' = [pass EXCEPT ![s] = Idle]
  /\ UNCHANGED <<homeVars, siteVars, fileVars, stale, faults>>

(* Only what Home asked for is uploaded: the upload completes at Home, then *)
(* the queue entry goes; asked for something not queued, the pass fails.   *)
UploadStore(s) ==
  /\ pass[s].at = "uploading"
  /\ pass[s].missing \cap artifacts = {}
  /\ \E e \in pass[s].missing :
       IF e \in queuedArtifacts[s]
       THEN artifacts' = artifacts \cup {e} /\ UNCHANGED pass
       ELSE pass' = [pass EXCEPT ![s] = Idle] /\ UNCHANGED artifacts
  /\ UNCHANGED <<rows, homePolicy, excluded, siteVars, fileVars, netVars>>

UploadForget(s) ==
  /\ pass[s].at = "uploading"
  /\ \E e \in pass[s].missing \cap artifacts :
       /\ queuedArtifacts' = [queuedArtifacts EXCEPT ![s] = @ \ {e}]
       /\ pass' = [pass EXCEPT ![s].missing = @ \ {e},
                                ![s].at = IF pass[s].missing = {e} THEN "ready" ELSE @]
  /\ UNCHANGED <<homeVars, siteVars, outbox, inbox, cursor, acked, projected, netVars>>

Unprojected(s) == {i \in DOMAIN inbox[s] : inbox[s][i] \notin projected[s]}
NextToProject(s, i) == i \in Unprojected(s) /\ \A j \in Unprojected(s) : i =< j

(* Variant: without looking the event up in fleet_events. *)
ProjectWithoutCheck(s) ==
  /\ pass[s].at = "projecting"
  /\ \E i \in DOMAIN inbox[s] :
       /\ NextToProject(s, i)
       /\ applied' = [applied EXCEPT ![s] = Append(@, inbox[s][i])]
  /\ pass' = [pass EXCEPT ![s].at = "marking"]
  /\ UNCHANGED <<homeVars, db, policy, fileVars, netVars>>

(* projectSuitcaseFleetEvent, one SQLite transaction that inserts the event *)
(* with its effect unless it is there, ...                                 *)
Project(s) ==
  /\ pass[s].at = "projecting"
  /\ \E i \in DOMAIN inbox[s] :
       LET e == inbox[s][i]
       IN /\ NextToProject(s, i)
          /\ IF e \in RangeOf(applied[s])
             THEN UNCHANGED <<applied, policy>>
             ELSE /\ applied' = [applied EXCEPT ![s] = Append(@, e)]
                  /\ policy' = [policy EXCEPT ![s] =
                       IF e.kind = "policy" /\ s \in e.to THEN e.policy ELSE @]
  /\ pass' = [pass EXCEPT ![s].at = "marking"]
  /\ UNCHANGED <<homeVars, db, fileVars, netVars>>

(* ... and the note of it in the membership file.                          *)
MarkProjected(s) ==
  /\ pass[s].at = "marking"
  /\ \E i \in DOMAIN inbox[s] :
       /\ NextToProject(s, i)
       /\ projected' = [projected EXCEPT ![s] = @ \cup {inbox[s][i]}]
  /\ pass' = [pass EXCEPT ![s].at = "projecting"]
  /\ UNCHANGED <<homeVars, siteVars, outbox, inbox, cursor, acked, queuedArtifacts, netVars>>

(* pendingFleetMutationRequests *)
Unanswered(s) ==
  {r \in RangeOf(applied[s]) :
     r.kind = "request" /\ s \in r.to /\ ~ \E a \in db[s] : Acknowledges(a, r)}

Answers(s, requests) ==
  {[NewEvent(s, LastSeq(db[s], s) + i, "ack") EXCEPT !.re = requests[i].seq] :
     i \in DOMAIN requests}

(* acknowledgePendingFleetMutationRequests, after the first exchange: its   *)
(* answers travel with a second, background exchange.                      *)
Acknowledge(s) ==
  /\ pass[s].at = "projecting"
  /\ Unprojected(s) = {}
  /\ pass[s].round = 1
  /\ Unanswered(s) # {}
  /\ \E requests \in OrderedListings(Unanswered(s)) :
       /\ db' = [db EXCEPT ![s] = @ \cup Answers(s, requests)]
       /\ Enqueue(s, db'[s])
  /\ pass' = [pass EXCEPT ![s] = [Idle EXCEPT !.at = "ready", !.round = 2]]
  /\ UNCHANGED <<homeVars, applied, policy, inbox, cursor, acked, projected, netVars>>

FinishPass(s) ==
  /\ pass[s].at = "projecting"
  /\ Unprojected(s) = {}
  /\ pass[s].round = 2 \/ Unanswered(s) = {}
  /\ pass' = [pass EXCEPT ![s] = Idle]
  /\ UNCHANGED <<homeVars, siteVars, fileVars, netVars>>

(* The core of the suitcase restarts, or its connection to Home breaks.  A  *)
(* request on its way may still arrive.                                    *)
Interrupted(s) ==
  /\ pass[s].at # "idle"
  /\ faults < MaxFaults
  /\ faults' = faults + 1
  /\ pass' = [pass EXCEPT ![s] = Idle]
  /\ wire' = [wire EXCEPT ![s] = NoMessage]
  /\ \/ UNCHANGED stale
     \/ wire[s].type = "request" /\ stale' = stale \cup {wire[s]}
  /\ UNCHANGED <<homeVars, siteVars, fileVars>>

-----------------------------------------------------------------------------
HomeActs ==
  \/ \E kind \in HomeKinds : HomeWrites(kind)
  \/ \E targets \in SUBSET Suitcases \ {{}} : HomeRequests(targets)
  \/ \E s \in Suitcases, p \in PolicyChanges : HomeSetsPolicy(s, p)
  \/ \E q \in stale : LateExchange(q)

PassStep(s) ==
  \/ SendExchange(s) \/ HomeExchange(s) \/ ReceiveAnswer(s) \/ ReceiveFailure(s)
  \/ UploadStore(s) \/ UploadForget(s)
  \/ Project(s) \/ MarkProjected(s) \/ Acknowledge(s) \/ FinishPass(s)

SuitcaseActs(s) ==
  \/ LocalWrites(s)
  \/ \E manual \in BOOLEAN : BeginPass(s, manual)
  \/ PassStep(s)
  \/ Interrupted(s)

FleetNext == HomeActs \/ \E s \in Suitcases : SuitcaseActs(s)

FleetSpec == FleetInit /\ [][FleetNext]_vars

(* The sync loop runs background passes for as long as the core is up, and  *)
(* a pass that has begun goes on.  A user need never ask for one.          *)
FleetFairness ==
  \A s \in Suitcases : WF_vars(PassStep(s)) /\ WF_vars(BeginPass(s, FALSE))

FairFleetSpec == FleetSpec /\ FleetFairness

-----------------------------------------------------------------------------
(* PROPERTIES                                                              *)

Pass ==
  [at : {"idle", "ready", "waiting", "uploading", "projecting", "marking"},
   manual : BOOLEAN, round : {1, 2}, missing : SUBSET Event]

Request ==
  [type : {"request"}, site : Suitcases, events : SUBSET Event, cursors : [Sites -> Nat],
   manual : BOOLEAN]

Response ==
  [type : {"response"}, accepted : Nat, events : SUBSET Event, skipped : SUBSET Event,
   controls : SUBSET Event, missing : SUBSET Event, more : BOOLEAN]

(* The state stays within its types. *)
FleetTypeOK ==
  /\ rows \in Seq(Event)
  /\ artifacts \subseteq Event
  /\ homePolicy \in [Suitcases -> Policies]
  /\ excluded \in [Suitcases -> SUBSET Event]
  /\ db \in [Suitcases -> SUBSET Event]
  /\ applied \in [Suitcases -> Seq(Event)]
  /\ policy \in [Suitcases -> Policies]
  /\ outbox \in [Suitcases -> SUBSET Event]
  /\ inbox \in [Suitcases -> Seq(Event)]
  /\ cursor \in [Suitcases -> [Sites -> Nat]]
  /\ acked \in [Suitcases -> Nat]
  /\ projected \in [Suitcases -> SUBSET Event]
  /\ queuedArtifacts \in [Suitcases -> SUBSET Event]
  /\ pass \in [Suitcases -> Pass]
  /\ wire \in [Suitcases -> {NoMessage, Failure} \cup Request \cup Response]
  /\ stale \subseteq Request
  /\ faults \in 0..MaxFaults

(* What Home holds of a suitcase is exactly a prefix of its log, in spite   *)
(* of late requests, repeated batches and events held back for content     *)
(* (ingestEvents).                                                         *)
HomeHoldsPrefix ==
  \A s \in Suitcases :
    {e \in RangeOf(rows) : e.origin = s} = {e \in db[s] : e.seq =< HomeLast(s)}

(* A suitcase forgets an event from its outbox, for good, only when Home    *)
(* holds it: enqueueSuitcaseDatabaseEvent never looks below                *)
(* acknowledgedLocalSequence again.                                        *)
AckedIsDurable ==
  \A s \in Suitcases : \A e \in db[s] : e.seq =< acked[s] => e \in RangeOf(rows)

(* A cursor passes an event for the suitcase only when the membership file  *)
(* holds it or the policy has excluded it for good: crashes, deferred      *)
(* events and the control lane lose nothing (outgoingEvents,               *)
(* acceptIncomingEvents).                                                  *)
CursorLosesNothing ==
  \A s \in Suitcases : \A e \in RangeOf(rows) :
    /\ e.origin # s
    /\ e.seq =< cursor[s][e.origin]
    /\ Addressed(e, s)
    => e \in RangeOf(inbox[s]) \cup excluded[s]

(* An event takes effect on a suitcase once, and after those its origin     *)
(* wrote before it; only an administrative request may overtake            *)
(* (projectSuitcaseFleetEvent, the projection loop of syncSuitcaseNow).    *)
ProjectedOnceInOrder ==
  \A s \in Suitcases : \A i, j \in DOMAIN applied[s] :
    i < j =>
      /\ applied[s][i] # applied[s][j]
      /\ applied[s][i].origin = applied[s][j].origin =>
           \/ applied[s][i].seq < applied[s][j].seq
           \/ applied[s][i].kind = "request"

(* Home asks only for content the suitcase still has queued, in spite of    *)
(* the pruning of the queue and of passes cut short ("Coordinator          *)
(* requested unavailable artifact").                                       *)
ArtifactsAvailable ==
  \A s \in Suitcases :
    pass[s].at = "uploading" => pass[s].missing \subseteq queuedArtifacts[s] \cup artifacts

(* The suitcase never finds a hole in what Home sends nor an               *)
(* acknowledgement that moved backwards, whatever is deferred, skipped or  *)
(* cut off by the batch limit.                                             *)
AnswersAreAccepted ==
  \A s \in Suitcases : wire[s].type = "response" => Accepted(s, wire[s])

(* A suitcase that has taken over every policy event about it acts on the   *)
(* policy Home acts on.                                                    *)
PolicyConverges ==
  \A s \in Suitcases :
    {e \in RangeOf(rows) : e.kind = "policy" /\ s \in e.to} \subseteq RangeOf(applied[s])
      => policy[s] = homePolicy[s]

(* What a suitcase acts on follows the logs: each event once and in order, *)
(* and of the policies the one that Home acts on.                          *)
ProjectionFollowsLogs == ProjectedOnceInOrder /\ PolicyConverges

HomeEvent(n) == {e \in RangeOf(rows) : e.origin = Home /\ e.seq = n}

HeldBack(s, n) ==
  homePolicy[s] = "manual" /\ \E m \in 1..n : \E e \in HomeEvent(m) : e.kind = "data"

(* Every event of Home that is for a suitcase, and not held back by data   *)
(* that waits for a manual pass, takes effect there.                       *)
HomeEventsArrive ==
  \A s \in Suitcases : \A n \in 1..MaxSeq :
    (~ HeldBack(s, n) /\ \E e \in HomeEvent(n) : Addressed(e, s))
      ~> (HomeEvent(n) \subseteq RangeOf(applied[s]) \cup excluded[s])

(* The request for a fleet mutation reaches every suitcase it names and is  *)
(* answered at Home, also from behind deferred manual data.                *)
RequestsAnswered ==
  \A s \in Suitcases : \A n \in 1..MaxSeq :
    (\E r \in HomeEvent(n) : r.kind = "request" /\ s \in r.to)
      ~> (\E a \in RangeOf(rows) : a.origin = s /\ a.kind = "ack" /\ a.re = n)

Uplink == INSTANCE EventUplink WITH
  written  <- [s \in Suitcases |-> LastSeq(db[s], s)],
  durable  <- [s \in Suitcases |-> HomeLast(s)],
  released <- acked

(* The exchange implements the abstract uplink: Home's copy and the         *)
(* acknowledgement only move forward, each behind what it depends on, ...  *)
ImplementsUplink == Uplink!UplinkSpec

(* ... and both catch up with the log of the suitcase.                      *)
ImplementsFairUplink == Uplink!FairUplinkSpec

=============================================================================
