--------------------------- MODULE FleetMutation ---------------------------
(***************************************************************************)
(* The gate before a destructive change: an application is deleted, or its *)
(* graph changed incompatibly, only after every suitcase that keeps it has *)
(* synchronised and acknowledged this very change.  It models server/      *)
(* fleet-mutation-guard.ts, the selection and removal of replicas in       *)
(* fleet-replicas.ts, their projection on a suitcase, and the part of a    *)
(* sync pass that answers requests.                                        *)
(*                                                                         *)
(* A change is known by its kind and fingerprint, here a member of         *)
(* Mutations.  Events of Home reach a suitcase in order, requests also by  *)
(* the control lane ahead of them; what a suitcase logs reaches Home in    *)
(* order (FleetSync).  No data of Home is deferred by a manual policy.     *)
(***************************************************************************)
EXTENDS Naturals, Sequences, FiniteSets, SequencesExt

CONSTANTS
  Apps,
  Suitcases,
  Mutations,
  MaxTokens,      \* bound: selections and policy changes
  MaxRequests,    \* bound: requests of Home
  MaxData,        \* bound: data events, all suitcases together
  MaxFaults       \* bound: crashes and lost answers

ASSUME AppsAssumption == IsFiniteSet(Apps)
ASSUME BoundAssumption ==
  MaxTokens \in Nat /\ MaxRequests \in Nat /\ MaxData \in Nat /\ MaxFaults \in Nat

VARIABLES
  replica,        \* app_replicas at Home: whether removed, and the token
  requests,       \* the requests in Home's log, by number
  stream,         \* selections and removals on their way to each suitcase
  local,          \* applications that a suitcase's own app_replicas has
  known,          \* requests in a suitcase's database
  log,            \* events a suitcase has logged
  queued,         \* how many of them its outbox has been given
  received,       \* how many of them Home has
  pass,           \* where the sync pass of each suitcase stands
  tokens,         \* number of the latest token
  agreed,         \* history: acknowledged since Home last selected the
                  \* replica or changed its policy
  cut,            \* history: replicas whose last selection was cut off by a
                  \* crash before it had its token
  count           \* the data events and faults so far

homeVars == <<replica, requests, tokens, cut>>
suitcaseVars == <<local, known, log, queued, pass>>
mutationVars == <<homeVars, suitcaseVars, stream, received, agreed, count>>

NoReplica == [active |-> FALSE, token |-> 0]
Told(a, op) == [app |-> a, op |-> op]
Data(a) == [t |-> "data", app |-> a]
Ack(r) == [t |-> "ack", r |-> r]

Request == [app : Apps, m : Mutations, tokens : [Suitcases -> 0..MaxTokens]]
Events == {Data(a) : a \in Apps} \cup {Ack(r) : r \in DOMAIN requests}
Notices == [app : Apps, op : {"selected", "removed"}]

MutationTypeOK ==
  /\ replica \in [Apps -> [Suitcases -> [active : BOOLEAN, token : 0..MaxTokens]]]
  /\ requests \in Seq(Request)
  /\ stream \in [Suitcases -> Seq(Notices)]
  /\ local \in [Suitcases -> SUBSET Apps]
  /\ known \in [Suitcases -> SUBSET DOMAIN requests]
  /\ log \in [Suitcases -> Seq(Events)]
  /\ queued \in [Suitcases -> Nat] /\ received \in [Suitcases -> Nat]
  /\ \A s \in Suitcases : received[s] <= queued[s] /\ queued[s] <= Len(log[s])
  /\ pass \in [Suitcases -> {"idle", "exchange", "answer", "flush"}]
  /\ tokens \in 0..MaxTokens
  /\ agreed \in [Apps -> [Suitcases -> SUBSET Mutations]]
  /\ cut \in [Apps -> SUBSET Suitcases]
  /\ count \in [data : 0..MaxData, faults : 0..MaxFaults]

MutationInit ==
  /\ replica = [a \in Apps |-> [s \in Suitcases |-> NoReplica]]
  /\ requests = <<>> /\ tokens = 0
  /\ cut = [a \in Apps |-> {}]
  /\ local = [s \in Suitcases |-> {}] /\ known = [s \in Suitcases |-> {}]
  /\ log = [s \in Suitcases |-> <<>>] /\ stream = log
  /\ queued = [s \in Suitcases |-> 0] /\ received = queued
  /\ pass = [s \in Suitcases |-> "idle"]
  /\ agreed = [a \in Apps |-> [s \in Suitcases |-> {}]]
  /\ count = [data |-> 0, faults |-> 0]

Fault ==
  /\ count.faults < MaxFaults
  /\ count' = [count EXCEPT !.faults = @ + 1]

-----------------------------------------------------------------------------
(* Home: replicas.                                                         *)

(* What a step that may be cut off by a crash of Home gets done: all of    *)
(* it, nothing after the event, or nothing after the row.                  *)
Outcomes == {"done", "unmarked", "unsent"}
Costs(how) == IF how = "done" THEN UNCHANGED count ELSE Fault
Tells(a, s, op, how) ==
  stream' = IF how = "unsent" THEN stream
            ELSE [stream EXCEPT ![s] = Append(@, Told(a, op))]

(* keepApplicationOnSuitcase after its await.  The row becomes active with *)
(* the token it had (a new row's is its created_at), then the event is     *)
(* appended, then it becomes the token.                                    *)
SelectReplica(a, s, how) ==
  /\ tokens < MaxTokens
  /\ LET fresh == how = "done" \/ replica[a][s].token = 0
     IN  /\ replica' = [replica EXCEPT ![a][s] =
              [active |-> TRUE, token |-> IF fresh THEN tokens + 1 ELSE @.token]]
         /\ cut' = [cut EXCEPT ![a] = IF fresh THEN @ \ {s} ELSE @ \cup {s}]
  /\ tokens' = tokens + 1
  /\ agreed' = [agreed EXCEPT ![a][s] = {}]
  /\ Tells(a, s, "selected", how) /\ Costs(how)
  /\ UNCHANGED <<requests, received, suitcaseVars>>

(* removeLostApplicationReplica: the row, then the event. *)
RemoveReplica(a, s, how) ==
  /\ how # "unmarked"
  /\ replica[a][s].active
  /\ replica' = [replica EXCEPT ![a][s].active = FALSE]
  /\ Tells(a, s, "removed", how) /\ Costs(how)
  /\ UNCHANGED <<requests, tokens, cut, received, agreed, suitcaseVars>>

(* The end of a data policy transition: its event becomes the token.  On   *)
(* the suitcase it changes nothing the gate asks for.                      *)
ChangePolicy(a, s) ==
  /\ replica[a][s].active
  /\ tokens < MaxTokens
  /\ replica' = [replica EXCEPT ![a][s].token = tokens + 1]
  /\ tokens' = tokens + 1
  /\ cut' = [cut EXCEPT ![a] = @ \ {s}]
  /\ agreed' = [agreed EXCEPT ![a][s] = {}]
  /\ UNCHANGED <<requests, stream, received, suitcaseVars, count>>

-----------------------------------------------------------------------------
(* Home: the gate.                                                         *)

(* activeSuitcaseReplicas *)
ActiveReplicas(a) == {s \in Suitcases : replica[a][s].active}

(* A variant of requestMatches that does not compare the tokens. *)
MatchesTargets(r, a, m) ==
  /\ requests[r].app = a /\ requests[r].m = m
  /\ \A s \in ActiveReplicas(a) : requests[r].tokens[s] # 0

(* requestMatches: every replica active now was asked with the token it    *)
(* still has.                                                              *)
RequestMatches(r, a, m) ==
  /\ requests[r].app = a /\ requests[r].m = m
  /\ \A s \in ActiveReplicas(a) : requests[r].tokens[s] = replica[a][s].token

(* The latest request that matches, or 0. *)
CurrentRequest(a, m) ==
  LET matching == {r \in DOMAIN requests : RequestMatches(r, a, m)}
  IN  IF matching = {} THEN 0 ELSE CHOOSE r \in matching : \A q \in matching : q <= r

(* acknowledgedAt, in a log's events up to n. *)
AcknowledgedIn(s, n, r) == \E i \in 1..n : log[s][i] = Ack(r)

(* inspectFleetMutation, buildGate: no active replica is waited for. *)
GateReady(a, m) ==
  \A s \in ActiveReplicas(a) :
    /\ CurrentRequest(a, m) # 0
    /\ AcknowledgedIn(s, received[s], CurrentRequest(a, m))

(* prepareFleetMutation, for a change that the gate stops and that was not *)
(* asked for before.  A change that it lets pass leaves no trace here.     *)
PrepareMutation(a, m) ==
  /\ ~ GateReady(a, m) /\ CurrentRequest(a, m) = 0
  /\ Len(requests) < MaxRequests
  /\ requests' = Append(requests, [app |-> a, m |-> m, tokens |->
       [s \in Suitcases |-> IF replica[a][s].active THEN replica[a][s].token ELSE 0]])
  /\ UNCHANGED <<replica, tokens, cut, stream, received, agreed, count, suitcaseVars>>

-----------------------------------------------------------------------------
(* A suitcase.                                                             *)

(* syncSuitcaseRuntimeNow up to the exchange: the data of applications is  *)
(* captured, or not, and the log goes to the outbox.                       *)
BeginPass(s, captured) ==
  /\ pass[s] = "idle"
  /\ captured \subseteq local[s]
  /\ count.data + Cardinality(captured) <= MaxData
  /\ LET events == SetToSeq({Data(a) : a \in captured})
     IN  /\ log' = [log EXCEPT ![s] = @ \o events]
         /\ queued' = [queued EXCEPT ![s] = Len(log[s]) + Len(events)]
  /\ count' = [count EXCEPT !.data = @ + Cardinality(captured)]
  /\ pass' = [pass EXCEPT ![s] = "exchange"]
  /\ UNCHANGED <<homeVars, stream, received, agreed, local, known>>

Outbox(s) == {log[s][i] : i \in (received[s] + 1)..queued[s]}

(* requireDataPolicy: data of an application the suitcase was removed from *)
(* makes Home refuse the whole exchange.                                   *)
Quarantined(s) ==
  \E a \in Apps :
    Data(a) \in Outbox(s) /\ replica[a][s].token # 0 /\ ~ replica[a][s].active

(* Variant: what any suitcase answered is closed for all. *)
OpenUntilAnyAnswers(s) ==
  {r \in DOMAIN requests :
     requests[r].tokens[s] # 0
     /\ \A other \in Suitcases : ~ AcknowledgedIn(other, received[other], r)}

(* outgoingAdministrativeControls, after the outbox was accepted. *)
OpenRequests(s) ==
  {r \in DOMAIN requests :
     requests[r].tokens[s] # 0 /\ ~ AcknowledgedIn(s, queued[s], r)}

(* projectReplica, event by event: the last one about an application says  *)
(* whether the suitcase has it.                                            *)
Projected(apps, events) ==
  LET About(a) == {i \in DOMAIN events : events[i].app = a}
  IN  {a \in Apps : IF About(a) = {} THEN a \in apps
                    ELSE events[Max(About(a))].op = "selected"}

(* An exchange that Home accepts and its answer: at least one event of     *)
(* Home if there is one, and the open requests.                            *)
Exchange(s, next) ==
  /\ ~ Quarantined(s)
  /\ received' = [received EXCEPT ![s] = queued[s]]
  /\ \E n \in 0..Len(stream[s]) :
       /\ n = 0 => stream[s] = <<>>
       /\ local' = [local EXCEPT ![s] = Projected(@, SubSeq(stream[s], 1, n))]
       /\ stream' = [stream EXCEPT ![s] = SubSeq(@, n + 1, Len(@))]
  /\ known' = [known EXCEPT ![s] = @ \cup OpenRequests(s)]
  /\ pass' = [pass EXCEPT ![s] = next]
  /\ UNCHANGED <<homeVars, agreed, count, log, queued>>

ExchangeFirst(s) == pass[s] = "exchange" /\ Exchange(s, "answer")
ExchangeFlush(s) == pass[s] = "flush" /\ Exchange(s, "idle")

(* Home refuses: the pass throws. *)
ExchangeRefused(s) ==
  /\ pass[s] \in {"exchange", "flush"} /\ Quarantined(s)
  /\ pass' = [pass EXCEPT ![s] = "idle"]
  /\ UNCHANGED <<homeVars, stream, received, agreed, count, local, known, log, queued>>

(* Home accepts, and the answer is lost. *)
AnswerLost(s) ==
  /\ pass[s] \in {"exchange", "flush"} /\ ~ Quarantined(s)
  /\ received' = [received EXCEPT ![s] = queued[s]]
  /\ pass' = [pass EXCEPT ![s] = "idle"]
  /\ Fault
  /\ UNCHANGED <<homeVars, stream, agreed, local, known, log, queued>>

(* A variant of pendingFleetMutationRequests that does not look for an    *)
(* answer.                                                                *)
PendingAnswered(s) == {r \in known[s] : requests[r].app \in local[s]}

(* pendingFleetMutationRequests *)
PendingRequests(s) ==
  {r \in known[s] : requests[r].app \in local[s]
                    /\ ~ AcknowledgedIn(s, Len(log[s]), r)}

(* acknowledgePendingFleetMutationRequests, one event at a time, oldest    *)
(* request first.                                                          *)
Acknowledge(s) ==
  /\ pass[s] = "answer" /\ PendingRequests(s) # {}
  /\ LET r == CHOOSE q \in PendingRequests(s) : \A p \in PendingRequests(s) : q <= p
     IN  /\ log' = [log EXCEPT ![s] = Append(@, Ack(r))]
         /\ agreed' = [agreed EXCEPT ![requests[r].app][s] = @ \cup {requests[r].m}]
  /\ UNCHANGED <<homeVars, stream, received, count, local, known, queued, pass>>

(* The flush, if there was anything to acknowledge. *)
AcknowledgeDone(s) ==
  /\ pass[s] = "answer" /\ PendingRequests(s) = {}
  /\ LET answered == \E i \in (queued[s] + 1)..Len(log[s]) : log[s][i].t = "ack"
     IN  /\ pass' = [pass EXCEPT ![s] = IF answered THEN "flush" ELSE "idle"]
         /\ queued' = [queued EXCEPT ![s] = IF answered THEN Len(log[s]) ELSE @]
  /\ UNCHANGED <<homeVars, stream, received, agreed, count, local, known, log>>

(* The process of the suitcase dies in the middle of a pass. *)
Crash(s) ==
  /\ pass[s] # "idle"
  /\ pass' = [pass EXCEPT ![s] = "idle"]
  /\ Fault
  /\ UNCHANGED <<homeVars, stream, received, agreed, local, known, log, queued>>

-----------------------------------------------------------------------------
Passes(s) ==
  \/ \E captured \in SUBSET Apps : BeginPass(s, captured)
  \/ ExchangeFirst(s) \/ ExchangeFlush(s) \/ ExchangeRefused(s)
  \/ Acknowledge(s) \/ AcknowledgeDone(s)

Administers(a, s) ==
  \/ \E how \in Outcomes : SelectReplica(a, s, how) \/ RemoveReplica(a, s, how)
  \/ ChangePolicy(a, s)

MutationNext ==
  \/ \E s \in Suitcases : Passes(s) \/ AnswerLost(s) \/ Crash(s)
  \/ \E a \in Apps, s \in Suitcases : Administers(a, s)
  \/ \E a \in Apps, m \in Mutations : PrepareMutation(a, m)

MutationSpec == MutationInit /\ [][MutationNext]_mutationVars

(* The worker of a suitcase begins passes for ever, and a pass ends. *)
FairMutationSpec == MutationSpec /\ \A s \in Suitcases : WF_mutationVars(Passes(s))

-----------------------------------------------------------------------------
(* The gate lets a change pass only when every replica active now has      *)
(* acknowledged this change since Home selected it or changed its policy   *)
(* last: no acknowledgement from before, none of another change and none   *)
(* missing, whatever was removed, selected again or repeated in between.   *)
(* A selection that a crash cut off before its token is excepted           *)
(* (fleet-mutation-guard.ts 118-150, fleet-replicas.ts 340).               *)
EveryReplicaAgreed ==
  \A a \in Apps, m \in Mutations :
    GateReady(a, m) => \A s \in ActiveReplicas(a) \ cut[a] : m \in agreed[a][s]

(* A blocked change that is tried again is not asked for again, and a      *)
(* request that comes again after crashes and lost answers is not answered *)
(* again (guard 277, 330).                                                *)
AskedAndAnsweredOnce ==
  /\ \A q, r \in DOMAIN requests : requests[q] = requests[r] => q = r
  /\ \A s \in Suitcases : \A i, j \in DOMAIN log[s] :
       log[s][i].t = "ack" /\ log[s][i] = log[s][j] => i = j

(* Requests and answers have their types, and each is made once.           *)
RequestsSound == MutationTypeOK /\ AskedAndAnsweredOnce

(* What a suitcase will have, once it has read all that Home told it. *)
WillKeep(s) == Projected(local[s], stream[s])

(* Some data the suitcase still holds keeps Home from answering it. *)
Wedged(s) == \E a \in Apps :
  /\ replica[a][s].token # 0 /\ ~ replica[a][s].active
  /\ \E i \in (received[s] + 1)..Len(log[s]) : log[s][i] = Data(a)

(* With passes that go on, a request is answered by all its replicas, or   *)
(* overtaken by a change of them.  Excepted are a replica that was never   *)
(* told of its selection, and a suitcase that holds data of an application *)
(* it was removed from (suitcase-runtime.ts 90-100, suitcase-transport.ts  *)
(* 932-966).                                                               *)
GateOpens ==
  \A a \in Apps, m \in Mutations :
    (CurrentRequest(a, m) # 0) ~>
      \/ CurrentRequest(a, m) = 0 \/ GateReady(a, m)
      \/ \E s \in ActiveReplicas(a) : Wedged(s) \/ a \notin WillKeep(s)
=============================================================================
