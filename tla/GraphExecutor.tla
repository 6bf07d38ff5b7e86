---------------------------- MODULE GraphExecutor ----------------------------
(***************************************************************************)
(* ApplicationGraphExecutor.converge of server/application-graph-executor. *)
(* ts: how the containers of an application's components are brought to a  *)
(* release, put into traffic and the earlier ones retired, or how a        *)
(* converge that fails is undone.                                          *)
(*                                                                         *)
(* One application on one node.  A component has one slot, one published   *)
(* service and a digest that changes with the release; each release has    *)
(* one before-traffic job.  Callers hold the application's lease, so one   *)
(* converge runs at a time, cut here at its awaits.  It may be abandoned   *)
(* at each of them by a crash of the control process, after which any      *)
(* caller (the start, the supervisor, a deploy, a rollback) begins anew.   *)
(***************************************************************************)
EXTENDS Naturals, Sequences, FiniteSets

CONSTANTS
  Order,          \* componentOrder: the components, dependencies first
  Exclusive,      \* those with a single-writer volume, or not rolling
  Releases,
  NoRelease,
  MaxInstances,   \* bound: instances ever created
  MaxFaults       \* bound: containers that exit by themselves, and crashes
                  \* of the control process

Components == {Order[k] : k \in DOMAIN Order}
Ids == 1..MaxInstances

ASSUME OrderAssumption ==
  /\ Order \in Seq(Components)
  /\ \A j, k \in DOMAIN Order : Order[j] = Order[k] => j = k
ASSUME ExclusiveAssumption == Exclusive \subseteq Components
ASSUME NoReleaseAssumption == NoRelease \notin Releases
ASSUME BoundAssumption == MaxInstances \in Nat /\ MaxFaults \in Nat

VARIABLES
  made,           \* number of instances created
  inst,           \* component_instances, with the state of the container
  published,      \* the endpoints of each service's current generation
  job,            \* component_job_executions, by release
  exec,           \* the converge that runs
  leftBehind,     \* history: instances that failed a health gate, or that a
                  \* crash or an error took from the converge making them,
                  \* until a converge completes with them
  torn,           \* history: instances removed by an undo while published
  faults

historyVars == <<leftBehind, torn>>
executorVars == <<made, inst, published, job, exec, historyVars, faults>>

Statuses == {"starting", "ready", "failed", "stopped", "draining", "removed"}
Instance == [comp : Components, release : Releases, status : Statuses,
             container : {"running", "exited", "absent"}]
NoInstance == [comp |-> Order[1], release |-> NoRelease, status |-> "removed",
               container |-> "absent"]

Stages == {"idle", "component", "starting", "job", "publish", "removing", "undo"}
Resting == [at |-> "idle", target |-> NoRelease, force |-> FALSE, k |-> 1, tried |-> {},
            stopped |-> {}, created |-> {}, selected |-> {}]
Converge == [at : Stages, target : Releases \cup {NoRelease}, force : BOOLEAN,
             k : 1..(Len(Order) + 1), tried : SUBSET Ids, stopped : SUBSET Ids,
             created : SUBSET Ids, selected : SUBSET Ids]

GraphTypeOK ==
  /\ made \in 0..MaxInstances
  /\ inst \in [Ids -> Instance \cup {NoInstance}]
  /\ published \in [Components -> SUBSET Ids]
  /\ job \in [Releases -> {"none", "running", "succeeded", "failed"}]
  /\ exec \in Converge
  /\ leftBehind \subseteq Ids /\ torn \subseteq Ids
  /\ faults \in 0..MaxFaults

GraphInit ==
  /\ made = 0 /\ inst = [i \in Ids |-> NoInstance]
  /\ published = [c \in Components |-> {}]
  /\ job = [r \in Releases |-> "none"]
  /\ exec = Resting
  /\ leftBehind = {} /\ torn = {} /\ faults = 0

-----------------------------------------------------------------------------
(* Rows of a component that are not removed, and those that cannot serve   *)
(* the target: of another release, or all of them in a forced replacement. *)
Existing(c) == {i \in Ids : inst[i].comp = c /\ inst[i].status # "removed"}
Stale(c) == {i \in Existing(c) : exec.force \/ inst[i].release # exec.target}

Running(i) == inst[i].container = "running"
Writing(c) == {i \in Ids : inst[i].comp = c /\ Running(i)}
Published == UNION {published[c] : c \in Components}

(* The component at hand, and the instances that could be kept for it.     *)
Now == Order[exec.k]
AtComponent == exec.at = "component" /\ exec.k <= Len(Order)
StaleStopped == Now \in Exclusive => Stale(Now) \subseteq exec.stopped
Candidates ==
  IF exec.force THEN {}
  ELSE {i \in Existing(Now) : inst[i].release = exec.target} \ exec.tried

Set(i, status, container) ==
  inst' = [inst EXCEPT ![i].status = status, ![i].container = container]

(* startContainer of what may no longer exist. *)
Revived(i) == IF inst[i].container = "absent" THEN "absent" ELSE "running"

(* converge with a target and, for recreate and restart, forceReplace.     *)
Begins(r, force) ==
  /\ exec.at = "idle"
  /\ exec' = [Resting EXCEPT !.at = "component", !.target = r, !.force = force]
  /\ UNCHANGED <<made, inst, published, job, historyVars, faults>>

(* A single writer, or a component that does not roll, is stopped before   *)
(* its replacement is made.                                                *)
StopsStale(i) ==
  /\ AtComponent /\ Now \in Exclusive
  /\ i \in Stale(Now) \ exec.stopped
  /\ Set(i, "stopped", IF Running(i) THEN "exited" ELSE inst[i].container)
  /\ exec' = [exec EXCEPT !.stopped = @ \cup {i}]
  /\ UNCHANGED <<made, published, job, historyVars, faults>>

(* A row of the target's release whose container is gone.                  *)
CandidateGone(i) ==
  /\ AtComponent /\ StaleStopped /\ i \in Candidates
  /\ inst[i].container = "absent"
  /\ Set(i, "removed", "absent")
  /\ UNCHANGED <<made, published, job, exec, historyVars, faults>>

(* It is started if need be and passes its health gate: it is kept.        *)
CandidateHealthy(i) ==
  /\ AtComponent /\ StaleStopped /\ i \in Candidates
  /\ inst[i].container # "absent"
  /\ Set(i, "ready", "running")
  /\ exec' = [exec EXCEPT !.k = @ + 1, !.tried = {}, !.selected = @ \cup {i}]
  /\ UNCHANGED <<made, published, job, historyVars, faults>>

(* A variant that would ask the same candidate again.                      *)
CandidateAskedAgain(i) ==
  /\ AtComponent /\ StaleStopped /\ i \in Candidates
  /\ inst[i].container # "absent"
  /\ \E container \in {"running", "exited"} : Set(i, inst[i].status, container)
  /\ leftBehind' = leftBehind \cup {i}
  /\ UNCHANGED <<made, published, job, exec, torn, faults>>

(* It does not, and stays as it is.                                        *)
CandidateUnhealthy(i) ==
  /\ AtComponent /\ StaleStopped /\ i \in Candidates
  /\ inst[i].container # "absent"
  /\ \E container \in {"running", "exited"} : Set(i, inst[i].status, container)
  /\ exec' = [exec EXCEPT !.tried = @ \cup {i}]
  /\ leftBehind' = leftBehind \cup {i}
  /\ UNCHANGED <<made, published, job, torn, faults>>

(* createInstance: the container is created, recorded and started.         *)
Creates ==
  /\ AtComponent /\ StaleStopped /\ Candidates = {}
  /\ made < MaxInstances /\ made' = made + 1
  /\ inst' = [inst EXCEPT ![made'] =
       [comp |-> Now, release |-> exec.target, status |-> "starting",
        container |-> "running"]]
  /\ exec' = [exec EXCEPT !.at = "starting"]
  /\ UNCHANGED <<published, job, historyVars, faults>>

(* It passes its health gate.                                              *)
CreatedHealthy ==
  /\ exec.at = "starting"
  /\ Set(made, "ready", inst[made].container)
  /\ exec' = [exec EXCEPT !.at = "component", !.k = @ + 1, !.tried = {},
                          !.created = @ \cup {made}, !.selected = @ \cup {made}]
  /\ UNCHANGED <<made, published, job, historyVars, faults>>

(* It fails its health gate: createInstance throws before the caller notes *)
(* it as created.                                                          *)
CreatedUnhealthy ==
  /\ exec.at = "starting"
  /\ Set(made, "failed", inst[made].container)
  /\ exec' = [exec EXCEPT !.at = "undo"]
  /\ leftBehind' = leftBehind \cup {made}
  /\ UNCHANGED <<made, published, job, torn, faults>>

(* The instance that waits at its health gate. *)
AtGate == IF exec.at = "starting" THEN {made} ELSE {}

(* A call of Docker fails, perhaps the one that starts the new container.  *)
(* The adapter swallows what goes wrong in a stop, a removal or a job.     *)
Throws ==
  /\ exec.at \in {"component", "starting", "publish"}
  /\ \/ UNCHANGED inst
     \/ exec.at = "starting" /\ Set(made, "starting", "exited")
  /\ exec' = [exec EXCEPT !.at = "undo"]
  /\ leftBehind' = leftBehind \cup AtGate
  /\ UNCHANGED <<made, published, job, torn, faults>>

-----------------------------------------------------------------------------
(* planApplicationJobs with retryFailed: a record that succeeded, or says  *)
(* running, is left alone.                                                 *)
NeedsJob(r) == job[r] \in {"none", "failed"}

JobStarts ==
  /\ exec.at = "component" /\ exec.k > Len(Order) /\ NeedsJob(exec.target)
  /\ job' = [job EXCEPT ![exec.target] = "running"]
  /\ exec' = [exec EXCEPT !.at = "job"]
  /\ UNCHANGED <<made, inst, published, historyVars, faults>>

JobSkipped ==
  /\ exec.at = "component" /\ exec.k > Len(Order) /\ ~NeedsJob(exec.target)
  /\ exec' = [exec EXCEPT !.at = "publish", !.k = 1]
  /\ UNCHANGED <<made, inst, published, job, historyVars, faults>>

JobSucceeds ==
  /\ exec.at = "job"
  /\ job' = [job EXCEPT ![exec.target] = "succeeded"]
  /\ exec' = [exec EXCEPT !.at = "publish", !.k = 1]
  /\ UNCHANGED <<made, inst, published, historyVars, faults>>

JobFails ==
  /\ exec.at = "job"
  /\ job' = [job EXCEPT ![exec.target] = "failed"]
  /\ exec' = [exec EXCEPT !.at = "undo"]
  /\ UNCHANGED <<made, inst, published, historyVars, faults>>

-----------------------------------------------------------------------------
Selected(c) == {i \in exec.selected : inst[i].comp = c}

(* publishEndpoints: service by service, a new generation of the instances *)
(* selected.  Inspecting a container that has exited finds no port.        *)
Publishes ==
  /\ exec.at = "publish" /\ exec.k <= Len(Order)
  /\ \A i \in Selected(Now) : Running(i)
  /\ published' = [published EXCEPT ![Now] = Selected(Now)]
  /\ exec' = [exec EXCEPT !.k = @ + 1]
  /\ UNCHANGED <<made, inst, job, historyVars, faults>>

(* A variant that would retire by release and not by what was selected.    *)
RetiresByRelease ==
  /\ exec.at = "publish" /\ exec.k > Len(Order)
  /\ inst' = [i \in Ids |->
       IF inst[i].status # "removed" /\ inst[i].release # exec.target
         THEN [inst[i] EXCEPT !.status = "draining"] ELSE inst[i]]
  /\ exec' = [exec EXCEPT !.at = "removing"]
  /\ UNCHANGED <<made, published, job, historyVars, faults>>

(* A variant that would retire before the new generation is published.     *)
RetiresFirst ==
  /\ exec.at = "publish" /\ exec.k <= Len(Order)
  /\ inst' = [i \in Ids |->
       IF inst[i].status # "removed" /\ i \notin exec.selected
         THEN [inst[i] EXCEPT !.status = "draining"] ELSE inst[i]]
  /\ exec' = [exec EXCEPT !.at = "removing"]
  /\ UNCHANGED <<made, published, job, historyVars, faults>>

(* retireStaleInstances marks every row that was not selected...           *)
Retires ==
  /\ exec.at = "publish" /\ exec.k > Len(Order)
  /\ inst' = [i \in Ids |->
       IF inst[i].status # "removed" /\ i \notin exec.selected
         THEN [inst[i] EXCEPT !.status = "draining"] ELSE inst[i]]
  /\ exec' = [exec EXCEPT !.at = "removing"]
  /\ UNCHANGED <<made, published, job, historyVars, faults>>

(* ... and removes their containers when the drain period is over.         *)
Removes(i) ==
  /\ exec.at = "removing" /\ inst[i].status = "draining"
  /\ Set(i, "removed", "absent")
  /\ UNCHANGED <<made, published, job, exec, historyVars, faults>>

Completes ==
  /\ exec.at = "removing" /\ \A i \in Ids : inst[i].status # "draining"
  /\ exec' = Resting
  /\ leftBehind' = leftBehind \ exec.selected
  /\ UNCHANGED <<made, inst, published, job, torn, faults>>

-----------------------------------------------------------------------------
(* The catch of converge: remove what was created, start again what was    *)
(* stopped, and throw.                                                     *)
UndoCreated(i) ==
  /\ exec.at = "undo" /\ i \in exec.created
  /\ Set(i, "failed", "absent")
  /\ exec' = [exec EXCEPT !.created = @ \ {i}]
  /\ torn' = IF i \in Published THEN torn \cup {i} ELSE torn
  /\ UNCHANGED <<made, published, job, leftBehind, faults>>

(* A variant that would not wait until the new writers are gone.           *)
UndoStoppedAtOnce(i) ==
  /\ exec.at = "undo" /\ i \in exec.stopped
  /\ \E status \in {"ready", "failed"} : Set(i, status, Revived(i))
  /\ exec' = [exec EXCEPT !.stopped = @ \ {i}]
  /\ UNCHANGED <<made, published, job, historyVars, faults>>

UndoStopped(i) ==
  /\ exec.at = "undo" /\ exec.created = {} /\ i \in exec.stopped
  /\ \/ Revived(i) = "running" /\ Set(i, "ready", "running") /\ UNCHANGED leftBehind
     \/ Set(i, "failed", Revived(i)) /\ leftBehind' = leftBehind \cup {i}
  /\ exec' = [exec EXCEPT !.stopped = @ \ {i}]
  /\ UNCHANGED <<made, published, job, torn, faults>>

Rethrows ==
  /\ exec.at = "undo" /\ exec.created = {} /\ exec.stopped = {}
  /\ exec' = Resting
  /\ UNCHANGED <<made, inst, published, job, historyVars, faults>>

(* A container exits; the control process ends and with it the converge.   *)
Dies(i) ==
  /\ Running(i) /\ faults < MaxFaults /\ faults' = faults + 1
  /\ Set(i, inst[i].status, "exited")
  /\ UNCHANGED <<made, published, job, exec, historyVars>>

Crashes ==
  /\ exec.at # "idle" /\ faults < MaxFaults /\ faults' = faults + 1
  /\ exec' = Resting
  /\ leftBehind' = leftBehind \cup exec.created \cup AtGate
  /\ UNCHANGED <<made, inst, published, job, torn>>

-----------------------------------------------------------------------------
(* What converge does of itself. *)
Proceeds ==
  \/ Creates \/ CreatedHealthy \/ CreatedUnhealthy \/ Throws
  \/ JobStarts \/ JobSkipped \/ JobSucceeds \/ JobFails
  \/ Publishes \/ Retires \/ Completes \/ Rethrows
  \/ \E i \in Ids :
       \/ StopsStale(i) \/ CandidateGone(i) \/ CandidateHealthy(i)
       \/ CandidateUnhealthy(i) \/ Removes(i) \/ UndoCreated(i) \/ UndoStopped(i)

GraphNext ==
  \/ Proceeds \/ Crashes
  \/ \E r \in Releases, force \in BOOLEAN : Begins(r, force)
  \/ \E i \in Ids : Dies(i)

GraphSpec == GraphInit /\ [][GraphNext]_executorVars

(* Docker answers, health gates have a deadline, and the job ends.         *)
FairGraphSpec == GraphSpec /\ WF_executorVars(Proceeds)

-----------------------------------------------------------------------------
(* Two releases of a component never write at once, unless one of them was *)
(* left behind: the old one is stopped before the new one is made, and     *)
(* started again only when the new one is gone (executor 1489-1500,        *)
(* 450-478).                                                               *)
ReleasesWriteInTurn ==
  \A c \in Exclusive : \A i, j \in Writing(c) \ leftBehind :
    inst[i].release = inst[j].release

(* The instances have their types, and single writers take turns.          *)
WritersSound == GraphTypeOK /\ ReleasesWriteInTurn

(* No instance of a release gets traffic whose job failed or was never     *)
(* run, whatever was retried or rolled back in between (executor 400-414,  *)
(* application-jobs.ts:76-81).                                             *)
JobsGateTraffic ==
  \A i \in Published : job[inst[i].release] \notin {"none", "failed"}

(* The executor takes no container out of the traffic it published: what   *)
(* an endpoint names is there, but for an undo that came after publishing  *)
(* (executor 414-415, 448-457).                                            *)
PublishedAreThere ==
  \A i \in Published \ torn : inst[i].container # "absent"

(* Traffic goes only to instances that are there and whose release was     *)
(* let through by its job.                                                 *)
TrafficSound == JobsGateTraffic /\ PublishedAreThere

(* A converge that completes leaves no container but those it selected,    *)
(* and these are what gets the traffic: leftovers of failed and abandoned  *)
(* ones go (executor 1853-1882).                                           *)
CompletesClean ==
  [][Completes =>
       /\ Published = exec.selected
       /\ \A i \in Ids : inst[i].container # "absent" => i \in exec.selected]_executorVars

(* Every converge ends, in success or after its undo.                      *)
ConvergeEnds == (exec.at # "idle") ~> (exec.at = "idle")
=============================================================================
