------------------------ MODULE GraphExecutorProofs ------------------------
(***************************************************************************)
(* The safety of a converge, for every graph of components, every set of   *)
(* releases and any number of instances, exits and crashes: single writers *)
(* take turns, traffic goes where it may, and what completes is clean.     *)
(***************************************************************************)
EXTENDS GraphExecutor, TLAPS

-----------------------------------------------------------------------------
(* The inductive invariant.  Instances are numbered in the order they are  *)
(* made, and one that is removed has no container.                         *)
RowsInOrder ==
  \A i \in Ids :
    /\ i > made => inst[i] = NoInstance
    /\ i <= made => inst[i] \in Instance
    /\ inst[i].status = "removed" => inst[i].container = "absent"

(* The one at its health gate is the last one made, and of the target.     *)
GateInOrder ==
  exec.at = "starting" =>
    /\ made \in Ids /\ exec.k <= Len(Order)
    /\ inst[made].release = exec.target /\ inst[made].container # "absent"

(* Those selected are of the target and stay until the converge is undone. *)
SelectedInOrder ==
  \A i \in exec.selected :
    /\ i <= made /\ inst[i].release = exec.target
    /\ exec.at # "undo" =>
         inst[i].container # "absent" /\ inst[i].status \notin {"draining", "removed"}

(* Those stopped stay so, and none of them can be a candidate.             *)
StoppedInOrder ==
  \A i \in exec.stopped :
    i <= made /\ ~ Running(i) /\ (exec.force \/ inst[i].release # exec.target)

ConvergeInOrder ==
  /\ IF exec.at = "idle" THEN exec.created = {} ELSE exec.target \in Releases
  /\ exec.created \subseteq exec.selected
  /\ GateInOrder /\ SelectedInOrder /\ StoppedInOrder

(* Instances of this converge's own, and the containers from before it     *)
(* that no crash and no failure accounts for.                              *)
New == exec.created \cup AtGate
Earlier(c) ==
  {i \in Ids \ (leftBehind \cup New) : inst[i].comp = c /\ inst[i].container # "absent"}

(* Whatever may be started again is of one release; and once there is a    *)
(* new writer, what writes is of the target's.                             *)
EarlierAgree ==
  \A c \in Exclusive : \A i, j \in Earlier(c) : inst[i].release = inst[j].release

NewWriteAlone ==
  \A c \in Exclusive : \A j \in New : inst[j].comp = c =>
    \A i \in Writing(c) \ leftBehind : inst[i].release = exec.target

WritersInv ==
  GraphTypeOK /\ RowsInOrder /\ ConvergeInOrder /\ EarlierAgree /\ NewWriteAlone

(* The services published so far have what was selected for them.          *)
PublishedSoFar ==
  /\ exec.at = "publish" =>
       \A m \in 1..(exec.k - 1) : published[Order[m]] = Selected(Order[m])
  /\ exec.at = "removing" => \A c \in Components : published[c] = Selected(c)

(* What was not selected is on its way out, or gone.                       *)
RetiredInOrder ==
  exec.at = "removing" =>
    \A i \in Ids \ exec.selected : inst[i].status \in {"draining", "removed"}

(* No traffic goes to a release whose job runs; its end lets it through.   *)
JobInOrder ==
  /\ exec.at = "job" => \A i \in Published : inst[i].release # exec.target
  /\ exec.at = "publish" => ~ NeedsJob(exec.target)

PublishedAreMade == \A i \in Published : i <= made

TrafficInv ==
  /\ PublishedSoFar /\ RetiredInOrder /\ JobInOrder /\ PublishedAreMade
  /\ JobsGateTraffic /\ PublishedAreThere

-----------------------------------------------------------------------------
(* The constants, and what follows from the order of the components.       *)
LEMMA OrderFacts ==
  /\ Len(Order) \in Nat /\ DOMAIN Order = 1..Len(Order)
  /\ \A k \in 1..Len(Order) : Order[k] \in Components
  /\ \A c \in Components : \E k \in 1..Len(Order) : Order[k] = c
  /\ \A j, k \in 1..Len(Order) : Order[j] = Order[k] => j = k
BY OrderAssumption DEF Components

(* The fields of the converge that runs.                                   *)
LEMMA ConvergeFields ==
  ASSUME NEW x \in Converge
  PROVE  /\ x.at \in Stages /\ x.target \in Releases \cup {NoRelease}
         /\ x.force \in BOOLEAN /\ x.k \in 1..(Len(Order) + 1)
         /\ x.tried \subseteq Ids /\ x.stopped \subseteq Ids
         /\ x.created \subseteq Ids /\ x.selected \subseteq Ids
BY DEF Converge

LEMMA RestingConverge == Resting \in Converge
BY OrderFacts DEF Resting, Converge, Stages

(* A row that is set keeps whose it is.                                    *)
RowSet(i, status, container) ==
  /\ inst' \in [Ids -> Instance \cup {NoInstance}] /\ inst'[i] \in Instance
  /\ inst'[i].comp = inst[i].comp /\ inst'[i].release = inst[i].release
  /\ inst'[i].status = status /\ inst'[i].container = container
  /\ \A j \in Ids \ {i} : inst'[j] = inst[j]

LEMMA SetRow ==
  ASSUME inst \in [Ids -> Instance \cup {NoInstance}], NEW i \in Ids, inst[i] \in Instance,
         NEW status \in Statuses, NEW container \in {"running", "exited", "absent"},
         Set(i, status, container)
  PROVE  RowSet(i, status, container)
<1> DEFINE it == [inst[i] EXCEPT !.status = status, !.container = container]
<1>1. /\ it \in Instance /\ it.comp = inst[i].comp /\ it.release = inst[i].release
      /\ it.status = status /\ it.container = container
  BY DEF Instance
<1>2. inst' = [inst EXCEPT ![i] = it]
  BY DEF Set
<1> HIDE DEF it
<1> QED BY <1>1, <1>2 DEF RowSet

(* Instances that are there are those that were made.                      *)
LEMMA RowFacts ==
  ASSUME WritersInv, NEW i \in Ids
  PROVE  /\ inst[i].status # "removed" \/ inst[i].container # "absent" \/ i <= made
              => i <= made /\ inst[i] \in Instance
         /\ inst[i] \in Instance =>
              /\ inst[i].comp \in Components /\ inst[i].release \in Releases
              /\ inst[i].status \in Statuses
              /\ inst[i].container \in {"running", "exited", "absent"}
<1>1. made \in Nat /\ i \in Nat
  BY BoundAssumption DEF WritersInv, GraphTypeOK, Ids
<1>2. i > made => inst[i].status = "removed" /\ inst[i].container = "absent"
  BY DEF WritersInv, RowsInOrder, NoInstance
<1>3. i <= made => inst[i] \in Instance
  BY DEF WritersInv, RowsInOrder
<1> QED BY <1>1, <1>2, <1>3 DEF Instance

(* What each step does to the row it is about.                             *)
LEMMA RowEffects ==
  ASSUME WritersInv, NEW i \in Ids
  PROVE  /\ StopsStale(i) =>
              \E container \in {"exited", "absent"} :
                /\ RowSet(i, "stopped", container)
                /\ container = "absent" <=> inst[i].container = "absent"
         /\ CandidateGone(i) => RowSet(i, "removed", "absent")
         /\ CandidateHealthy(i) => RowSet(i, "ready", "running")
         /\ CandidateUnhealthy(i) =>
              \E container \in {"running", "exited"} : RowSet(i, inst[i].status, container)
         /\ Removes(i) => RowSet(i, "removed", "absent")
         /\ UndoCreated(i) => RowSet(i, "failed", "absent")
         /\ UndoStopped(i) =>
              \/ /\ inst[i].container # "absent" /\ RowSet(i, "ready", "running")
                 /\ UNCHANGED leftBehind
              \/ RowSet(i, "failed", Revived(i)) /\ leftBehind' = leftBehind \cup {i}
         /\ Dies(i) => RowSet(i, inst[i].status, "exited")
<1>1. inst \in [Ids -> Instance \cup {NoInstance}]
  BY DEF WritersInv, GraphTypeOK
<1>2. exec.created \subseteq exec.selected /\ \A j \in exec.selected \cup exec.stopped : j <= made
  BY DEF WritersInv, ConvergeInOrder, SelectedInOrder, StoppedInOrder
<1>3. ASSUME inst[i] \in Instance, NEW status \in Statuses,
             NEW container \in {"running", "exited", "absent"}, Set(i, status, container)
      PROVE  RowSet(i, status, container)
  BY <1>1, <1>3, SetRow
<1>4. {"ready", "failed", "stopped", "removed"} \subseteq Statuses
  BY DEF Statuses
<1>5. StopsStale(i) \/ CandidateGone(i) \/ CandidateHealthy(i) \/ CandidateUnhealthy(i)
        \/ Removes(i) \/ UndoCreated(i) \/ UndoStopped(i) \/ Dies(i) => inst[i] \in Instance
  BY <1>2, RowFacts DEF StopsStale, CandidateGone, CandidateHealthy, CandidateUnhealthy,
     Removes, UndoCreated, UndoStopped, Dies, Stale, Candidates, Existing, Running
<1> QED BY <1>3, <1>4, <1>5, RowFacts DEF StopsStale, CandidateGone, CandidateHealthy,
       CandidateUnhealthy, Removes, UndoCreated, UndoStopped, Dies, Revived, Running

LEMMA GateEffects ==
  ASSUME WritersInv, exec.at = "starting"
  PROVE  /\ made \in Ids /\ inst[made] \in Instance
         /\ CreatedHealthy => RowSet(made, "ready", inst[made].container)
         /\ CreatedUnhealthy => RowSet(made, "failed", inst[made].container)
         /\ Throws => UNCHANGED inst \/ RowSet(made, "starting", "exited")
<1>1. made \in Ids /\ inst \in [Ids -> Instance \cup {NoInstance}]
  BY DEF WritersInv, GraphTypeOK, ConvergeInOrder, GateInOrder
<1>2. inst[made] \in Instance /\ inst[made].container \in {"running", "exited", "absent"}
  BY <1>1, RowFacts DEF Ids
<1>3. {"ready", "failed", "starting"} \subseteq Statuses
  BY DEF Statuses
<1> QED BY <1>1, <1>2, <1>3, SetRow DEF CreatedHealthy, CreatedUnhealthy, Throws

(* A row that is added.                                                    *)
LEMMA AddEffects ==
  ASSUME WritersInv, Creates
  PROVE  /\ made \in Nat /\ made' = made + 1 /\ made' \in Ids
         /\ inst' \in [Ids -> Instance \cup {NoInstance}] /\ inst'[made'] \in Instance
         /\ inst'[made'].comp = Now /\ inst'[made'].release = exec.target
         /\ inst'[made'].status = "starting" /\ inst'[made'].container = "running"
         /\ \A j \in Ids \ {made'} : inst'[j] = inst[j]
<1> DEFINE it == [comp |-> Now, release |-> exec.target, status |-> "starting",
                  container |-> "running"]
<1>1. /\ made \in Nat /\ made' = made + 1 /\ made' \in Ids
      /\ inst \in [Ids -> Instance \cup {NoInstance}] /\ exec \in Converge
      /\ exec.target \in Releases
  BY BoundAssumption DEF Creates, WritersInv, GraphTypeOK, Ids, ConvergeInOrder, AtComponent
<1>2. Now \in Components
  BY <1>1, OrderFacts, ConvergeFields DEF Now, Creates, AtComponent
<1>3. it \in Instance
  BY <1>1, <1>2 DEF Instance, Statuses
<1>4. inst' = [inst EXCEPT ![made'] = it]
  BY DEF Creates
<1>5. it.comp = Now /\ it.release = exec.target /\ it.status = "starting"
      /\ it.container = "running"
  OBVIOUS
<1> HIDE DEF it
<1> QED BY <1>1, <1>3, <1>4, <1>5

(* Rows that are marked.                                                   *)
LEMMA RetireEffects ==
  ASSUME WritersInv, Retires
  PROVE  /\ inst' \in [Ids -> Instance \cup {NoInstance}]
         /\ \A i \in Ids :
              /\ inst'[i].comp = inst[i].comp /\ inst'[i].release = inst[i].release
              /\ inst'[i].container = inst[i].container
              /\ inst[i] \in Instance => inst'[i] \in Instance
              /\ inst[i].status = "removed" \/ i \in exec.selected => inst'[i] = inst[i]
              /\ inst[i].status # "removed" /\ i \notin exec.selected =>
                   inst'[i].status = "draining"
<1> DEFINE it(i) == [inst[i] EXCEPT !.status = "draining"]
<1>1. inst \in [Ids -> Instance \cup {NoInstance}]
  BY DEF WritersInv, GraphTypeOK
<1>2. ASSUME NEW i \in Ids, inst[i].status # "removed"
      PROVE  /\ inst[i] \in Instance /\ it(i) \in Instance /\ it(i).comp = inst[i].comp
             /\ it(i).release = inst[i].release /\ it(i).container = inst[i].container
             /\ it(i).status = "draining"
  BY <1>2, RowFacts DEF Instance, Statuses
<1>3. inst' = [i \in Ids |-> IF inst[i].status # "removed" /\ i \notin exec.selected
                               THEN it(i) ELSE inst[i]]
  BY DEF Retires
<1> HIDE DEF it
<1> QED BY <1>1, <1>2, <1>3

-----------------------------------------------------------------------------
(* The steps of a converge that leave rows alone, those that set the row   *)
(* at hand, and those that set the one at its gate.                        *)
QuietStep ==
  \/ JobStarts \/ JobSkipped \/ JobSucceeds \/ JobFails \/ Publishes \/ Completes
  \/ Rethrows \/ Crashes \/ \E r \in Releases, force \in BOOLEAN : Begins(r, force)

RowStep(i) ==
  \/ StopsStale(i) \/ CandidateGone(i) \/ CandidateHealthy(i) \/ CandidateUnhealthy(i)
  \/ Removes(i) \/ UndoCreated(i) \/ UndoStopped(i) \/ Dies(i)

GateStep == CreatedHealthy \/ CreatedUnhealthy \/ (Throws /\ exec.at = "starting")
OtherThrow == Throws /\ exec.at # "starting"

LEMMA StepKinds ==
  ASSUME GraphNext
  PROVE  \/ QuietStep \/ OtherThrow \/ GateStep \/ Creates \/ Retires
         \/ \E i \in Ids : RowStep(i)
BY DEF GraphNext, Proceeds, QuietStep, RowStep, GateStep, OtherThrow

(* A converge stays one.                                                   *)
LEMMA ConvergeStep ==
  ASSUME WritersInv, GraphNext
  PROVE  exec' \in Converge
<1>1. exec \in Converge /\ Len(Order) \in Nat
  BY OrderFacts DEF WritersInv, GraphTypeOK
<1>2. exec.at \in {"starting", "publish", "component"} => exec.k \in Nat
  BY <1>1, ConvergeFields
<1>3. ASSUME NEW r \in Releases, NEW force \in BOOLEAN, Begins(r, force)
      PROVE  exec' \in Converge
  BY <1>3, RestingConverge DEF Begins, Converge, Stages
<1>4. CASE JobStarts \/ JobSkipped \/ JobSucceeds \/ JobFails \/ Publishes \/ Throws
           \/ Creates \/ CreatedUnhealthy \/ Retires
  <2>1. \A at \in Stages : [exec EXCEPT !.at = at] \in Converge
    BY <1>1 DEF Converge
  <2>2. [exec EXCEPT !.at = "publish", !.k = 1] \in Converge
    <3>1. 1 \in 1..(Len(Order) + 1) /\ "publish" \in Stages
      BY <1>1 DEF Stages
    <3> QED BY <1>1, <3>1 DEF Converge
  <2>3. exec.k <= Len(Order) => [exec EXCEPT !.k = exec.k + 1] \in Converge
    BY <1>1 DEF Converge
  <2> QED BY <1>4, <2>1, <2>2, <2>3 DEF JobStarts, JobSkipped, JobSucceeds, JobFails,
         Publishes, Throws, Creates, CreatedUnhealthy, Retires, Stages
<1>5. CASE Completes \/ Rethrows \/ Crashes
  BY <1>5, RestingConverge DEF Completes, Rethrows, Crashes
<1>6. CASE CreatedHealthy
  <2>1. exec.k <= Len(Order) /\ made \in Ids
    BY <1>6 DEF WritersInv, ConvergeInOrder, GateInOrder, CreatedHealthy
  <2>2. /\ exec.k + 1 \in 1..(Len(Order) + 1)
        /\ exec.created \cup {made} \subseteq Ids /\ exec.selected \cup {made} \subseteq Ids
    BY <1>1, <2>1, ConvergeFields
  <2>3. [exec EXCEPT !.at = "component", !.k = exec.k + 1, !.tried = {},
                     !.created = exec.created \cup {made},
                     !.selected = exec.selected \cup {made}] \in Converge
    BY <1>1, <2>2 DEF Converge, Stages
  <2> QED BY <1>6, <2>3 DEF CreatedHealthy
<1>7. ASSUME NEW i \in Ids, RowStep(i)
      PROVE  exec' \in Converge
  <2>1. CASE StopsStale(i)
    BY <1>1, <2>1 DEF StopsStale, Converge
  <2>2. CASE CandidateHealthy(i)
    <3>1. exec.k + 1 \in 1..(Len(Order) + 1) /\ exec.selected \cup {i} \subseteq Ids
      BY <1>1, <2>2, ConvergeFields DEF CandidateHealthy, AtComponent
    <3>2. [exec EXCEPT !.k = exec.k + 1, !.tried = {}, !.selected = exec.selected \cup {i}]
             \in Converge
      BY <1>1, <3>1 DEF Converge
    <3> QED BY <2>2, <3>2 DEF CandidateHealthy
  <2>3. CASE CandidateUnhealthy(i)
    BY <1>1, <2>3 DEF CandidateUnhealthy, Converge
  <2>4. CASE UndoCreated(i) \/ UndoStopped(i)
    BY <1>1, <2>4 DEF UndoCreated, UndoStopped, Converge
  <2> QED BY <1>1, <1>7, <2>1, <2>2, <2>3, <2>4 DEF RowStep, CandidateGone, Removes, Dies
<1> QED BY <1>3, <1>4, <1>5, <1>6, <1>7, StepKinds DEF QuietStep, GateStep, OtherThrow

(* The state stays within its types.                                       *)
LEMMA TypeStep ==
  ASSUME WritersInv, GraphNext
  PROVE  GraphTypeOK'
<1>0. GraphTypeOK /\ exec \in Converge /\ AtGate \subseteq Ids
  BY DEF WritersInv, GraphTypeOK, AtGate, ConvergeInOrder, GateInOrder
<1>1. exec' \in Converge
  BY ConvergeStep
<1>2. inst' \in [Ids -> Instance \cup {NoInstance}]
  <2>1. CASE QuietStep \/ OtherThrow
    BY <1>0, <2>1 DEF GraphTypeOK, QuietStep, OtherThrow, JobStarts, JobSkipped, JobSucceeds,
       JobFails, Publishes, Completes, Rethrows, Crashes, Begins, Throws
  <2>2. CASE GateStep
    BY <1>0, <2>2, GateEffects DEF GraphTypeOK, GateStep, CreatedHealthy, CreatedUnhealthy, RowSet
  <2>3. CASE Creates \/ Retires
    BY <2>3, AddEffects, RetireEffects
  <2>4. ASSUME NEW i \in Ids, RowStep(i)
        PROVE  inst' \in [Ids -> Instance \cup {NoInstance}]
    BY <2>4, RowEffects DEF RowStep, RowSet
  <2> QED BY <2>1, <2>2, <2>3, <2>4, StepKinds
<1>3. made' \in 0..MaxInstances
  <2>1. made' = made \/ (made < MaxInstances /\ made' = made + 1)
    BY DEF GraphNext, Proceeds, Creates, CreatedHealthy,
       CreatedUnhealthy, Throws, JobStarts, JobSkipped, JobSucceeds, JobFails, Publishes, Retires,
       Completes, Rethrows, StopsStale, CandidateGone, CandidateHealthy, CandidateUnhealthy,
       Removes, UndoCreated, UndoStopped, Begins, Dies, Crashes
  <2> QED BY <1>0, <2>1, BoundAssumption DEF GraphTypeOK
<1>4. faults' \in 0..MaxFaults
  <2>1. faults' = faults \/ (faults < MaxFaults /\ faults' = faults + 1)
    BY DEF GraphNext, Proceeds, Creates, CreatedHealthy,
       CreatedUnhealthy, Throws, JobStarts, JobSkipped, JobSucceeds, JobFails, Publishes, Retires,
       Completes, Rethrows, StopsStale, CandidateGone, CandidateHealthy, CandidateUnhealthy,
       Removes, UndoCreated, UndoStopped, Begins, Dies, Crashes
  <2> QED BY <1>0, <2>1, BoundAssumption DEF GraphTypeOK
<1>5. published' \in [Components -> SUBSET Ids]
  <2>1. CASE Publishes
    <3>1. Selected(Now) \subseteq Ids
      BY <1>0, ConvergeFields DEF Selected
    <3> QED BY <1>0, <2>1, <3>1 DEF GraphTypeOK, Publishes
  <2>2. CASE ~ Publishes
    BY <1>0, <2>2 DEF GraphTypeOK, GraphNext, Proceeds, Creates, CreatedHealthy,
       CreatedUnhealthy, Throws, JobStarts, JobSkipped, JobSucceeds, JobFails, Retires,
       Completes, Rethrows, StopsStale, CandidateGone, CandidateHealthy, CandidateUnhealthy,
       Removes, UndoCreated, UndoStopped, Begins, Dies, Crashes
  <2> QED BY <2>1, <2>2
<1>6. job' \in [Releases -> {"none", "running", "succeeded", "failed"}]
  BY <1>0 DEF GraphTypeOK, GraphNext, Proceeds, Creates, CreatedHealthy,
     CreatedUnhealthy, Throws, JobStarts, JobSkipped, JobSucceeds, JobFails, Publishes, Retires,
     Completes, Rethrows, StopsStale, CandidateGone, CandidateHealthy, CandidateUnhealthy,
     Removes, UndoCreated, UndoStopped, Begins, Dies, Crashes
<1>7. leftBehind' \subseteq Ids /\ torn' \subseteq Ids
  <2>1. exec.created \subseteq Ids
    BY <1>0, ConvergeFields
  <2>2. CASE CreatedUnhealthy
    BY <1>0, <2>2, GateEffects DEF CreatedUnhealthy, GraphTypeOK
  <2>3. CASE ~ CreatedUnhealthy
    BY <1>0, <2>1, <2>3 DEF GraphTypeOK, GraphNext, Proceeds, Creates, CreatedHealthy,
       Throws, JobStarts, JobSkipped, JobSucceeds, JobFails, Publishes, Retires,
       Completes, Rethrows, StopsStale, CandidateGone, CandidateHealthy, CandidateUnhealthy,
       Removes, UndoCreated, UndoStopped, Begins, Dies, Crashes, historyVars
  <2> QED BY <2>2, <2>3
<1> QED BY <1>1, <1>2, <1>3, <1>4, <1>5, <1>6, <1>7 DEF GraphTypeOK

(* The rows a step sets are there, and no row is made but by Creates.      *)
LEMMA MadeStep ==
  ASSUME WritersInv, GraphNext
  PROVE  /\ made' = made \/ Creates
         /\ QuietStep \/ OtherThrow => UNCHANGED inst
         /\ \A i \in Ids : RowStep(i) => i <= made
<1>1. made' = made \/ Creates
  BY DEF GraphNext, Proceeds, Creates, CreatedHealthy,
     CreatedUnhealthy, Throws, JobStarts, JobSkipped, JobSucceeds, JobFails, Publishes, Retires,
     Completes, Rethrows, StopsStale, CandidateGone, CandidateHealthy, CandidateUnhealthy,
     Removes, UndoCreated, UndoStopped, Begins, Dies, Crashes
<1>2. QuietStep \/ OtherThrow => UNCHANGED inst
  BY DEF QuietStep, OtherThrow, JobStarts, JobSkipped, JobSucceeds, JobFails, Publishes,
     Completes, Rethrows, Crashes, Begins, Throws
<1>3. exec.created \subseteq exec.selected /\ \A i \in exec.selected \cup exec.stopped : i <= made
  BY DEF WritersInv, ConvergeInOrder, SelectedInOrder, StoppedInOrder
<1>4. ASSUME NEW i \in Ids, RowStep(i)
      PROVE  i <= made
  BY <1>3, <1>4, RowFacts DEF RowStep, StopsStale, CandidateGone, CandidateHealthy,
     CandidateUnhealthy, Removes, UndoCreated, UndoStopped, Dies, Stale, Candidates, Existing,
     Running
<1> QED BY <1>1, <1>2, <1>4

LEMMA RowsStep ==
  ASSUME WritersInv, GraphNext
  PROVE  RowsInOrder'
<1>0. RowsInOrder /\ made \in Nat /\ \A i \in Ids : i \in Nat
  BY BoundAssumption DEF WritersInv, GraphTypeOK, Ids
<1>1. CASE QuietStep \/ OtherThrow
  <2>1. made' = made /\ inst' = inst
    BY <1>1, MadeStep DEF QuietStep, OtherThrow, JobStarts, JobSkipped, JobSucceeds, JobFails,
       Publishes, Completes, Rethrows, Crashes, Begins, Throws
  <2> QED BY <1>0, <2>1 DEF RowsInOrder
<1>2. CASE GateStep
  <2>1. exec.at = "starting" /\ made' = made
    BY <1>2 DEF GateStep, CreatedHealthy, CreatedUnhealthy, Throws
  <2>2. made \in Ids
    BY <2>1, GateEffects
  <2>3. UNCHANGED inst \/ \E status \in {"ready", "failed", "starting"},
                             container \in {inst[made].container, "exited"} :
                             RowSet(made, status, container)
    BY <1>2, <2>1, GateEffects DEF GateStep
  <2> QED BY <1>0, <2>1, <2>2, <2>3 DEF RowSet, RowsInOrder
<1>3. CASE Creates
  BY <1>0, <1>3, AddEffects DEF RowsInOrder
<1>4. CASE Retires
  <2>1. made' = made
    BY <1>4 DEF Retires
  <2>2. ASSUME NEW i \in Ids, i > made
        PROVE  inst'[i] = NoInstance
    BY <1>0, <1>4, <2>2, RetireEffects DEF RowsInOrder, NoInstance
  <2> QED BY <1>0, <1>4, <2>1, <2>2, RetireEffects DEF RowsInOrder
<1>5. ASSUME NEW i \in Ids, RowStep(i)
      PROVE  RowsInOrder'
  <2>1. i <= made /\ made' = made
    BY <1>5, MadeStep DEF RowStep, StopsStale, CandidateGone, CandidateHealthy,
       CandidateUnhealthy, Removes, UndoCreated, UndoStopped, Dies
  <2>2. inst[i].status = "removed" => ~ CandidateUnhealthy(i) /\ ~ Dies(i)
    BY <1>0 DEF CandidateUnhealthy, Candidates, Existing, Dies, Running, RowsInOrder
  <2>3. \E status \in {"stopped", "removed", "ready", "failed", inst[i].status},
           container \in {"exited", "absent", "running"} :
          /\ RowSet(i, status, container)
          /\ status = "removed" => container = "absent"
    BY <1>5, <2>2, RowEffects, RowFacts DEF RowStep, Revived
  <2> QED BY <1>0, <2>1, <2>3 DEF RowSet, RowsInOrder
<1> QED BY <1>1, <1>2, <1>3, <1>4, <1>5, StepKinds

(* What a row is never changes.                                            *)
LEMMA RowsKeep ==
  ASSUME WritersInv, GraphNext, NEW i \in Ids
  PROVE  /\ made' # i \/ ~ Creates => inst'[i].comp = inst[i].comp
                                        /\ inst'[i].release = inst[i].release
         /\ made <= made' /\ made \in Nat /\ i \in Nat
<1>0. made \in Nat /\ i \in Nat
  BY BoundAssumption DEF WritersInv, GraphTypeOK, Ids
<1>1. made <= made'
  BY <1>0, MadeStep, AddEffects
<1>2. CASE QuietStep \/ OtherThrow \/ Retires
  BY <1>0, <1>1, <1>2, MadeStep, RetireEffects
<1>3. CASE GateStep
  BY <1>0, <1>1, <1>3, GateEffects DEF GateStep, CreatedHealthy, CreatedUnhealthy, RowSet
<1>4. CASE Creates
  BY <1>0, <1>1, <1>4, AddEffects
<1>5. ASSUME NEW j \in Ids, RowStep(j)
      PROVE  inst'[i].comp = inst[i].comp /\ inst'[i].release = inst[i].release
  BY <1>5, RowEffects DEF RowStep, RowSet
<1> QED BY <1>0, <1>1, <1>2, <1>3, <1>4, <1>5, StepKinds

(* How the converge that runs goes on: its target and kind stay, it is at  *)
(* a gate only with what it made, and it is undone and ends in order.      *)
LEMMA ConvergeGoesOn ==
  ASSUME WritersInv, GraphNext
  PROVE  \/ exec' = Resting
         \/ /\ exec.at = "idle" /\ exec'.target \in Releases /\ exec'.at = "component"
            /\ exec'.selected = {} /\ exec'.created = {} /\ exec'.stopped = {}
         \/ /\ exec.at # "idle" /\ exec'.target = exec.target /\ exec'.force = exec.force
            /\ (exec.at = "undo" => exec'.at = "undo") /\ exec'.at # "idle"
         \/ exec' = exec
<1>0. exec \in Converge
  BY DEF WritersInv, GraphTypeOK
<1>1. ASSUME NEW r \in Releases, NEW force \in BOOLEAN, Begins(r, force)
      PROVE  /\ exec.at = "idle" /\ exec'.target \in Releases /\ exec'.at = "component"
             /\ exec'.selected = {} /\ exec'.created = {} /\ exec'.stopped = {}
  BY <1>1 DEF Begins, Resting
<1>2. CASE Completes \/ Rethrows \/ Crashes
  BY <1>2 DEF Completes, Rethrows, Crashes
<1>3. CASE JobStarts \/ JobSkipped \/ JobSucceeds \/ JobFails \/ Publishes \/ Throws
           \/ Creates \/ CreatedUnhealthy \/ CreatedHealthy \/ Retires
  BY <1>0, <1>3 DEF JobStarts, JobSkipped, JobSucceeds, JobFails, Publishes, Throws, Creates,
     CreatedUnhealthy, CreatedHealthy, Retires, Converge, AtComponent
<1>4. ASSUME NEW i \in Ids, RowStep(i), ~ (CandidateGone(i) \/ Removes(i) \/ Dies(i))
      PROVE  /\ exec.at # "idle" /\ exec'.target = exec.target /\ exec'.force = exec.force
             /\ (exec.at = "undo" => exec'.at = "undo") /\ exec'.at # "idle"
  BY <1>0, <1>4 DEF RowStep, StopsStale, CandidateHealthy, CandidateUnhealthy, UndoCreated,
     UndoStopped, Converge, AtComponent
<1>5. ASSUME NEW i \in Ids, CandidateGone(i) \/ Removes(i) \/ Dies(i)
      PROVE  exec' = exec
  BY <1>5 DEF CandidateGone, Removes, Dies
<1> QED BY <1>1, <1>2, <1>3, <1>4, <1>5 DEF GraphNext, Proceeds, RowStep

LEMMA GateStepKept ==
  ASSUME WritersInv, GraphNext
  PROVE  GateInOrder'
<1>0. exec \in Converge /\ GateInOrder
  BY DEF WritersInv, GraphTypeOK, ConvergeInOrder
<1>1. CASE Creates
  <2>1. exec'.target = exec.target /\ exec'.k = exec.k /\ exec.k <= Len(Order)
    BY <1>0, <1>1 DEF Creates, Converge, AtComponent
  <2> QED BY <1>1, <2>1, AddEffects DEF GateInOrder
<1>2. ASSUME NEW i \in Ids, Dies(i)
      PROVE  GateInOrder'
  <2>1. exec' = exec /\ made' = made /\ RowSet(i, inst[i].status, "exited")
    BY <1>2, RowEffects DEF Dies
  <2> QED BY <1>0, <2>1 DEF RowSet, GateInOrder
<1>3. CASE JobStarts \/ JobSkipped \/ JobSucceeds \/ JobFails \/ Publishes \/ Throws
           \/ CreatedUnhealthy \/ CreatedHealthy \/ Retires \/ Completes \/ Rethrows \/ Crashes
  <2>1. CASE Completes \/ Rethrows \/ Crashes
    BY <2>1 DEF Completes, Rethrows, Crashes, Resting, GateInOrder
  <2>2. CASE JobStarts \/ JobSkipped \/ JobSucceeds \/ JobFails
    BY <1>0, <2>2 DEF JobStarts, JobSkipped, JobSucceeds, JobFails, Converge, GateInOrder
  <2>3. CASE Publishes \/ Throws \/ CreatedUnhealthy \/ CreatedHealthy \/ Retires
    BY <1>0, <2>3 DEF Publishes, Throws, CreatedUnhealthy, CreatedHealthy, Retires, Converge,
       GateInOrder
  <2> QED BY <1>3, <2>1, <2>2, <2>3
<1>4. ASSUME NEW i \in Ids, RowStep(i), ~ Dies(i)
      PROVE  exec'.at # "starting"
  BY <1>0, <1>4 DEF RowStep, StopsStale, CandidateHealthy, CandidateUnhealthy, UndoCreated,
     UndoStopped, Converge, AtComponent, CandidateGone, Removes
<1>5. ASSUME NEW r \in Releases, NEW force \in BOOLEAN, Begins(r, force)
      PROVE  exec'.at # "starting"
  BY <1>5 DEF Begins, Resting
<1> QED BY <1>1, <1>2, <1>3, <1>4, <1>5 DEF GraphNext, Proceeds, RowStep, GateInOrder

(* What is selected, created and stopped, by step.                         *)
LEMMA ListEffects ==
  ASSUME WritersInv, GraphNext
  PROVE  \/ /\ exec'.selected = {} /\ exec'.created = {} /\ exec'.stopped = {}
            /\ exec'.at \in {"idle", "component"}
            /\ QuietStep
         \/ /\ exec'.selected = exec.selected /\ exec'.created = exec.created
            /\ exec'.stopped = exec.stopped
            /\ \/ QuietStep \/ OtherThrow \/ Creates \/ Retires \/ (GateStep /\ ~ CreatedHealthy)
               \/ \E i \in Ids :
                    CandidateGone(i) \/ CandidateUnhealthy(i) \/ Removes(i) \/ Dies(i)
         \/ /\ CreatedHealthy /\ exec'.selected = exec.selected \cup {made}
            /\ exec'.created = exec.created \cup {made} /\ exec'.stopped = exec.stopped
         \/ \E i \in Ids :
              /\ CandidateHealthy(i) /\ exec'.selected = exec.selected \cup {i}
              /\ exec'.created = exec.created /\ exec'.stopped = exec.stopped
         \/ \E i \in Ids :
              /\ StopsStale(i) /\ exec'.stopped = exec.stopped \cup {i}
              /\ exec'.selected = exec.selected /\ exec'.created = exec.created
         \/ \E i \in Ids :
              /\ UndoCreated(i) /\ exec'.created = exec.created \ {i}
              /\ exec'.selected = exec.selected /\ exec'.stopped = exec.stopped
         \/ \E i \in Ids :
              /\ UndoStopped(i) /\ exec'.stopped = exec.stopped \ {i}
              /\ exec'.selected = exec.selected /\ exec'.created = exec.created
<1>0. exec \in Converge
  BY DEF WritersInv, GraphTypeOK
<1>1. (\E r \in Releases, force \in BOOLEAN : Begins(r, force)) \/ Completes \/ Rethrows \/ Crashes
        => /\ exec'.selected = {} /\ exec'.created = {} /\ exec'.stopped = {}
           /\ exec'.at \in {"idle", "component"}
  <2>1. Completes \/ Rethrows \/ Crashes => exec' = Resting
    BY DEF Completes, Rethrows, Crashes
  <2>2. ASSUME NEW r \in Releases, NEW force \in BOOLEAN, Begins(r, force)
        PROVE  /\ exec'.selected = {} /\ exec'.created = {} /\ exec'.stopped = {}
               /\ exec'.at = "component"
    BY <2>2 DEF Begins, Resting
  <2>3. /\ Resting.selected = {} /\ Resting.created = {} /\ Resting.stopped = {}
        /\ Resting.at = "idle"
    BY DEF Resting
  <2> QED BY <2>1, <2>2, <2>3
<1>2. JobStarts \/ JobSkipped \/ JobSucceeds \/ JobFails \/ Publishes \/ OtherThrow \/ Creates
        \/ Retires \/ (GateStep /\ ~ CreatedHealthy)
        => /\ exec'.selected = exec.selected /\ exec'.created = exec.created
           /\ exec'.stopped = exec.stopped
  BY <1>0 DEF JobStarts, JobSkipped, JobSucceeds, JobFails, Publishes, OtherThrow, Throws,
     Creates, Retires, GateStep, CreatedUnhealthy, Converge
<1>3. \A i \in Ids : CandidateGone(i) \/ CandidateUnhealthy(i) \/ Removes(i) \/ Dies(i)
        => /\ exec'.selected = exec.selected /\ exec'.created = exec.created
           /\ exec'.stopped = exec.stopped
  BY <1>0 DEF CandidateGone, CandidateUnhealthy, Removes, Dies, Converge
<1>4. CreatedHealthy => /\ exec'.selected = exec.selected \cup {made}
                        /\ exec'.created = exec.created \cup {made}
                        /\ exec'.stopped = exec.stopped
  BY <1>0 DEF CreatedHealthy, Converge
<1>5. ASSUME NEW i \in Ids
      PROVE  /\ CandidateHealthy(i) => /\ exec'.selected = exec.selected \cup {i}
                                       /\ exec'.created = exec.created
                                       /\ exec'.stopped = exec.stopped
             /\ StopsStale(i) => /\ exec'.stopped = exec.stopped \cup {i}
                                 /\ exec'.selected = exec.selected
                                 /\ exec'.created = exec.created
             /\ UndoCreated(i) => /\ exec'.created = exec.created \ {i}
                                  /\ exec'.selected = exec.selected
                                  /\ exec'.stopped = exec.stopped
             /\ UndoStopped(i) => /\ exec'.stopped = exec.stopped \ {i}
                                  /\ exec'.selected = exec.selected
                                  /\ exec'.created = exec.created
  BY <1>0 DEF CandidateHealthy, StopsStale, UndoCreated, UndoStopped, Converge
<1>6. QuietStep => \/ JobStarts \/ JobSkipped \/ JobSucceeds \/ JobFails \/ Publishes
                   \/ Completes \/ Rethrows \/ Crashes
                   \/ \E r \in Releases, force \in BOOLEAN : Begins(r, force)
  BY DEF QuietStep
<1>7. CASE QuietStep
  BY <1>1, <1>2, <1>6, <1>7
<1>8. CASE \E i \in Ids : RowStep(i)
  BY <1>3, <1>5, <1>8 DEF RowStep
<1>9. CASE OtherThrow \/ Creates \/ Retires \/ GateStep
  BY <1>2, <1>4, <1>9
<1> QED BY <1>7, <1>8, <1>9, StepKinds

LEMMA SelectedStep ==
  ASSUME WritersInv, GraphNext
  PROVE  SelectedInOrder' /\ exec'.created \subseteq exec'.selected
<1>0. /\ SelectedInOrder /\ exec.created \subseteq exec.selected
      /\ exec \in Converge /\ exec.selected \subseteq Ids
      /\ \A i \in Ids : i <= made => inst[i] \in Instance
  BY ConvergeFields DEF WritersInv, GraphTypeOK, ConvergeInOrder, RowsInOrder
<1>1. exec'.created \subseteq exec'.selected
  BY <1>0, ListEffects
<1>2. CASE exec'.selected = {}
  BY <1>1, <1>2 DEF SelectedInOrder
<1>3. ASSUME exec'.selected # {}
      PROVE  exec'.target = exec.target /\ (exec'.at # "undo" => exec.at # "undo")
  BY <1>3, ConvergeGoesOn DEF Resting
<1>4. ASSUME NEW i \in exec.selected
      PROVE  i \in Ids /\ i <= made' /\ i # made + 1
  <2>1. i \in Ids /\ i <= made
    BY <1>0 DEF SelectedInOrder
  <2>2. made <= made' /\ made \in Nat /\ i \in Nat
    BY <2>1, RowsKeep
  <2>3. made' \in Nat
    BY <2>2, MadeStep, AddEffects
  <2> QED BY <2>1, <2>2, <2>3
<1>5. \A i \in exec.selected : inst'[i].release = inst[i].release
  BY <1>4, RowsKeep, AddEffects
<1>6. ASSUME exec'.selected # {}, exec'.at # "undo", NEW i \in exec.selected
      PROVE  inst'[i].container # "absent" /\ inst'[i].status \notin {"draining", "removed"}
  <2>0. inst[i].container # "absent" /\ inst[i].status \notin {"draining", "removed"}
    BY <1>0, <1>3, <1>6 DEF SelectedInOrder
  <2>1. CASE QuietStep \/ OtherThrow \/ Creates \/ Retires
    BY <1>4, <1>6, <2>0, <2>1, MadeStep, AddEffects, RetireEffects
  <2>2. CASE GateStep
    <3>1. CreatedHealthy
      BY <1>0, <1>6, <2>2 DEF GateStep, CreatedUnhealthy, Throws, Converge
    <3> QED BY <1>4, <2>0, <3>1, GateEffects DEF CreatedHealthy, RowSet
  <2>3. ASSUME NEW j \in Ids, RowStep(j)
        PROVE  inst'[i].container # "absent" /\ inst'[i].status \notin {"draining", "removed"}
    <3>1. exec.at # "undo" /\ i \in Ids
      BY <1>3, <1>4, <1>6
    <3>2. CASE i # j
      BY <2>0, <2>3, <3>1, <3>2, RowEffects DEF RowStep, RowSet
    <3>3. CASE i = j /\ StopsStale(j)
      BY <2>0, <3>1, <3>3, RowEffects, RowFacts DEF RowSet, StopsStale, Set, Running
    <3> QED BY <2>0, <2>3, <3>1, <3>2, <3>3, RowEffects DEF RowStep, RowSet, CandidateGone,
           Removes, UndoCreated, UndoStopped
  <2> QED BY <2>1, <2>2, <2>3, StepKinds
<1>7. CASE exec'.selected = exec.selected
  BY <1>0, <1>1, <1>2, <1>3, <1>4, <1>5, <1>6, <1>7 DEF SelectedInOrder
<1>8. CASE CreatedHealthy /\ exec'.selected = exec.selected \cup {made}
  <2>1. /\ made \in Ids /\ made' = made /\ RowSet(made, "ready", inst[made].container)
        /\ inst[made].release = exec.target /\ inst[made].container # "absent"
    BY <1>8, GateEffects DEF CreatedHealthy, WritersInv, ConvergeInOrder, GateInOrder
  <2> QED BY <1>0, <1>1, <1>3, <1>4, <1>5, <1>6, <1>8, <2>1, RowsKeep DEF SelectedInOrder, RowSet
<1>9. ASSUME NEW i \in Ids, CandidateHealthy(i), exec'.selected = exec.selected \cup {i}
      PROVE  SelectedInOrder'
  <2>1. i <= made' /\ RowSet(i, "ready", "running") /\ inst[i].release = exec.target
    BY <1>9, MadeStep, RowEffects DEF CandidateHealthy, Candidates, RowStep
  <2> QED BY <1>0, <1>3, <1>4, <1>5, <1>6, <1>9, <2>1 DEF SelectedInOrder, RowSet
<1> QED BY <1>1, <1>2, <1>7, <1>8, <1>9, ListEffects

LEMMA StoppedStep ==
  ASSUME WritersInv, GraphNext
  PROVE  StoppedInOrder'
<1>0. /\ StoppedInOrder /\ SelectedInOrder /\ exec.created \subseteq exec.selected
      /\ exec \in Converge /\ exec.stopped \subseteq Ids
  BY ConvergeFields DEF WritersInv, GraphTypeOK, ConvergeInOrder
<1>1. CASE exec'.stopped = {}
  BY <1>1 DEF StoppedInOrder
<1>2. ASSUME exec'.stopped # {}
      PROVE  exec'.target = exec.target /\ exec'.force = exec.force
  BY <1>2, ConvergeGoesOn DEF Resting
<1>3. ASSUME NEW i \in exec.stopped
      PROVE  i \in Ids /\ i <= made' /\ i # made + 1 /\ inst'[i].release = inst[i].release
  <2>1. i \in Ids /\ i <= made
    BY <1>0 DEF StoppedInOrder
  <2>2. made <= made' /\ made \in Nat /\ i \in Nat
    BY <2>1, RowsKeep
  <2>3. made' \in Nat
    BY <2>2, MadeStep, AddEffects
  <2> QED BY <2>1, <2>2, <2>3, RowsKeep, AddEffects
(* One that is started again is stopped no more.                           *)
<1>4. ASSUME NEW i \in exec.stopped, i \in exec'.stopped
      PROVE  inst'[i].container # "running"
  <2>0. inst[i].container # "running" /\ (exec.force \/ inst[i].release # exec.target)
    BY <1>0 DEF StoppedInOrder, Running
  <2>1. CASE QuietStep \/ OtherThrow \/ Creates \/ Retires
    BY <1>3, <2>0, <2>1, MadeStep, AddEffects, RetireEffects
  <2>2. CASE GateStep
    BY <1>3, <2>0, <2>2, GateEffects DEF GateStep, CreatedHealthy, CreatedUnhealthy, RowSet
  <2>3. ASSUME NEW j \in Ids, RowStep(j)
        PROVE  inst'[i].container # "running"
    <3>1. CASE i # j
      BY <1>3, <2>0, <2>3, <3>1, RowEffects DEF RowStep, RowSet
    <3>2. CASE i = j /\ (CandidateHealthy(j) \/ CandidateUnhealthy(j))
      BY <2>0, <3>2 DEF CandidateHealthy, CandidateUnhealthy, Candidates
    <3>3. CASE i = j /\ UndoStopped(j)
      BY <1>0, <1>4, <3>3 DEF UndoStopped, Converge
    <3> QED BY <2>3, <3>1, <3>2, <3>3, RowEffects DEF RowStep, RowSet
  <2> QED BY <2>1, <2>2, <2>3, StepKinds
<1>5. CASE exec'.stopped \subseteq exec.stopped
  BY <1>0, <1>1, <1>2, <1>3, <1>4, <1>5 DEF StoppedInOrder, Running
<1>6. ASSUME NEW i \in Ids, StopsStale(i), exec'.stopped = exec.stopped \cup {i}
      PROVE  StoppedInOrder'
  <2>1. /\ i <= made /\ made' = made /\ (exec.force \/ inst[i].release # exec.target)
        /\ inst'[i].container # "running" /\ inst'[i].release = inst[i].release
    BY <1>6, MadeStep, RowEffects DEF StopsStale, Stale, RowStep, RowSet
  <2> QED BY <1>0, <1>2, <1>3, <1>4, <1>6, <2>1 DEF StoppedInOrder, Running
<1> QED BY <1>1, <1>5, <1>6, ListEffects

LEMMA ConvergeInOrderStep ==
  ASSUME WritersInv, GraphNext
  PROVE  ConvergeInOrder'
<1>1. IF exec'.at = "idle" THEN exec'.created = {} ELSE exec'.target \in Releases
  BY ConvergeGoesOn DEF WritersInv, ConvergeInOrder, Resting
<1> QED BY <1>1, GateStepKept, SelectedStep, StoppedStep DEF ConvergeInOrder

-----------------------------------------------------------------------------
(* What is on its own account stays so until its converge is over.         *)
LEMMA EarlierStep ==
  ASSUME WritersInv, GraphNext, ~ Completes, NEW c \in Components
  PROVE  Earlier(c)' \subseteq Earlier(c)
<1>0. /\ exec.created \subseteq exec.selected /\ \A i \in exec.selected : i <= made
      /\ exec \in Converge /\ (exec.at = "idle" => exec.created = {})
  BY DEF WritersInv, GraphTypeOK, ConvergeInOrder, SelectedInOrder
<1> SUFFICES ASSUME NEW i \in Ids, i \in Earlier(c)'
             PROVE  i \in Earlier(c)
  BY DEF Earlier
<1>1. /\ i \notin leftBehind' /\ i \notin exec'.created /\ i \notin AtGate'
      /\ inst'[i].comp = c /\ inst'[i].container # "absent"
  BY DEF Earlier, New
<1>2. leftBehind \subseteq leftBehind'
  BY DEF GraphNext, Proceeds, Creates, CreatedHealthy,
     CreatedUnhealthy, Throws, JobStarts, JobSkipped, JobSucceeds, JobFails, Publishes, Retires,
     Completes, Rethrows, StopsStale, CandidateGone, CandidateHealthy, CandidateUnhealthy,
     Removes, UndoCreated, UndoStopped, Begins, Dies, Crashes, historyVars
<1>3. ~ (Creates /\ i = made')
  BY <1>0, <1>1 DEF AtGate, Creates, Converge
<1>4. inst[i].comp = c
  BY <1>1, <1>3, RowsKeep
<1>5. inst[i].container # "absent"
  <2>1. CASE QuietStep \/ OtherThrow \/ Creates \/ Retires
    BY <1>1, <1>3, <2>1, MadeStep, AddEffects, RetireEffects
  <2>2. CASE GateStep
    <3>1. exec.at = "starting" /\ inst[made].container # "absent"
      BY <2>2 DEF GateStep, CreatedHealthy, CreatedUnhealthy, Throws, WritersInv,
         ConvergeInOrder, GateInOrder
    <3> QED BY <1>1, <2>2, <3>1, GateEffects DEF GateStep, RowSet
  <2>3. ASSUME NEW j \in Ids, RowStep(j)
        PROVE  inst[i].container # "absent"
    BY <1>1, <2>3, RowEffects DEF RowStep, RowSet, CandidateHealthy, CandidateUnhealthy,
       Dies, Running, Revived
  <2> QED BY <2>1, <2>2, <2>3, StepKinds
<1>6. i \notin exec.created
  <2>1. CASE QuietStep
    <3>1. (\E r \in Releases, force \in BOOLEAN : Begins(r, force)) \/ Rethrows
             => exec.created = {}
      BY <1>0 DEF Begins, Rethrows
    <3>2. JobStarts \/ JobSkipped \/ JobSucceeds \/ JobFails \/ Publishes
             => exec'.created = exec.created
      BY <1>0 DEF JobStarts, JobSkipped, JobSucceeds, JobFails, Publishes, Converge
    <3>3. Crashes => exec.created \subseteq leftBehind'
      BY DEF Crashes
    <3> QED BY <1>1, <2>1, <3>1, <3>2, <3>3 DEF QuietStep
  <2>2. ASSUME NEW j \in Ids, UndoCreated(j)
        PROVE  i \notin exec.created
    <3>1. exec'.created = exec.created \ {j} /\ inst'[j].container = "absent"
      BY <1>0, <2>2, RowEffects DEF RowSet, UndoCreated, Converge
    <3> QED BY <1>1, <3>1
  <2> QED BY <1>0, <1>1, <2>1, <2>2, ListEffects
<1>7. i \notin AtGate
  <2> SUFFICES ASSUME exec.at = "starting", i = made
               PROVE  FALSE
    BY DEF AtGate
  <2>1. CreatedHealthy \/ CreatedUnhealthy \/ Throws \/ Crashes \/ \E j \in Ids : Dies(j)
    BY DEF GraphNext, Proceeds, Creates, JobStarts, JobSkipped, JobSucceeds, JobFails, Publishes,
       Retires, Completes, Rethrows, StopsStale, CandidateGone, CandidateHealthy,
       CandidateUnhealthy, Removes, UndoCreated, UndoStopped, Begins, AtComponent
  <2>2. CreatedHealthy => made \in exec'.created
    BY <1>0 DEF CreatedHealthy, Converge
  <2>3. CreatedUnhealthy \/ Throws \/ Crashes => made \in leftBehind'
    BY DEF CreatedUnhealthy, Throws, Crashes, AtGate
  <2>4. (\E j \in Ids : Dies(j)) => made \in AtGate'
    BY DEF Dies, AtGate
  <2> QED BY <1>1, <2>1, <2>2, <2>3, <2>4
<1> QED BY <1>2, <1>1, <1>4, <1>5, <1>6, <1>7 DEF Earlier, New

(* After a converge that completed, all there is was selected; needs what  *)
(* retired before it.                                                      *)
LEMMA CompletedRows ==
  ASSUME WritersInv, RetiredInOrder, Completes
  PROVE  \A i \in Ids : inst[i].container # "absent" =>
           i \in exec.selected /\ inst[i].release = exec.target
BY DEF WritersInv, RetiredInOrder, Completes, RowsInOrder, ConvergeInOrder, SelectedInOrder

(* Whatever may be started again is of one release.                        *)
LEMMA EarlierAgreeStep ==
  ASSUME WritersInv, RetiredInOrder, GraphNext
  PROVE  EarlierAgree'
<1> SUFFICES ASSUME NEW c \in Exclusive, NEW i \in Earlier(c)', NEW j \in Earlier(c)'
             PROVE  inst'[i].release = inst'[j].release
  BY DEF EarlierAgree
<1>1. i \in Ids /\ j \in Ids /\ c \in Components
  BY ExclusiveAssumption DEF Earlier
<1>2. CASE Completes
  <2>1. inst' = inst /\ inst'[i].container # "absent" /\ inst'[j].container # "absent"
    BY <1>2 DEF Completes, Earlier
  <2> QED BY <1>1, <1>2, <2>1, CompletedRows
<1>3. CASE ~ Completes
  <2>1. i \in Earlier(c) /\ j \in Earlier(c)
    BY <1>1, <1>3, EarlierStep
  <2>2. inst[i].release = inst[j].release
    BY <2>1 DEF WritersInv, EarlierAgree
  <2>3. ~ (Creates /\ (i = made' \/ j = made'))
    <3>1. Creates => inst[made'].container = "absent"
      BY AddEffects DEF WritersInv, RowsInOrder, NoInstance
    <3> QED BY <2>1, <3>1 DEF Earlier
  <2> QED BY <1>1, <2>2, <2>3, RowsKeep
<1> QED BY <1>2, <1>3

(* Who writes after a step wrote before it, or is a candidate, or new, or  *)
(* was started again by the undo.                                          *)
LEMMA WritingStep ==
  ASSUME WritersInv, GraphNext, NEW c \in Components, NEW i \in Writing(c)'
  PROVE  \/ i \in Writing(c)
         \/ /\ inst[i].release = exec.target /\ exec'.target = exec.target /\ ~ Creates
         \/ Creates /\ i = made' /\ c = Now
         \/ UndoStopped(i) /\ UNCHANGED leftBehind
         \/ i \in leftBehind'
<1>1. i \in Ids /\ inst'[i].comp = c /\ inst'[i].container = "running" /\ exec \in Converge
  BY DEF Writing, Running, WritersInv, GraphTypeOK
<1>2. CASE QuietStep \/ OtherThrow \/ Retires
  BY <1>1, <1>2, MadeStep, RetireEffects DEF Writing, Running
<1>3. CASE GateStep
  <2>1. exec.at = "starting"
    BY <1>3 DEF GateStep, CreatedHealthy, CreatedUnhealthy, Throws
  <2> QED BY <1>1, <1>3, <2>1, GateEffects DEF GateStep, RowSet, Writing, Running
<1>4. CASE Creates
  BY <1>1, <1>4, AddEffects DEF Writing, Running
<1>5. ASSUME NEW j \in Ids, RowStep(j)
      PROVE  \/ i \in Writing(c)
             \/ inst[i].release = exec.target /\ exec'.target = exec.target /\ ~ Creates
             \/ UndoStopped(i) /\ UNCHANGED leftBehind
             \/ i \in leftBehind'
  <2>1. CASE i # j
    BY <1>1, <1>5, <2>1, RowEffects DEF RowStep, RowSet, Writing, Running
  <2>2. CASE CandidateHealthy(j) \/ CandidateUnhealthy(j)
    <3>1. inst[j].release = exec.target /\ exec'.target = exec.target /\ ~ Creates
      BY <1>1, <2>2 DEF CandidateHealthy, CandidateUnhealthy, Candidates, Creates, Converge
    <3> QED BY <2>1, <3>1
  <2>3. CASE i = j /\ UndoStopped(j)
    BY <1>1, <2>3, RowEffects
  <2>4. CASE i = j /\ ~ (CandidateHealthy(j) \/ CandidateUnhealthy(j) \/ UndoStopped(j))
    BY <1>1, <1>5, <2>4, RowEffects DEF RowStep, RowSet
  <2> QED BY <2>1, <2>2, <2>3, <2>4
<1> QED BY <1>2, <1>3, <1>4, <1>5, StepKinds

(* Who is new after a step was so before it, or is the one just made; and  *)
(* only a converge that goes on has any.                                   *)
LEMMA NewStep ==
  ASSUME WritersInv, GraphNext, NEW j \in New'
  PROVE  /\ j \in New \/ (Creates /\ j = made')
         /\ exec'.target = exec.target /\ ~ Completes
<1>0. exec \in Converge
  BY DEF WritersInv, GraphTypeOK
<1>1. ASSUME j \in AtGate'
      PROVE  j \in New \/ (Creates /\ j = made')
  <2>1. exec'.at = "starting" /\ j = made'
    BY <1>1 DEF AtGate
  <2>2. CASE \E i \in Ids : RowStep(i)
    <3>1. exec.at = "starting" /\ made' = made
      BY <1>0, <2>1, <2>2 DEF RowStep, StopsStale, CandidateHealthy, CandidateUnhealthy,
         UndoCreated, UndoStopped, CandidateGone, Removes, Dies, Converge, AtComponent
    <3> QED BY <2>1, <3>1 DEF New, AtGate
  <2>3. ~ Retires /\ ~ GateStep /\ ~ OtherThrow
    BY <1>0, <2>1 DEF Retires, GateStep, OtherThrow, CreatedHealthy, CreatedUnhealthy, Throws,
       Converge
  <2>4. ~ (Completes \/ Rethrows \/ Crashes)
    BY <2>1 DEF Completes, Rethrows, Crashes, Resting
  <2>5. ~ (JobStarts \/ JobSkipped \/ JobSucceeds \/ JobFails \/ Publishes)
    BY <1>0, <2>1 DEF JobStarts, JobSkipped, JobSucceeds, JobFails, Publishes, Converge
  <2>6. ~ \E r \in Releases, force \in BOOLEAN : Begins(r, force)
    BY <2>1 DEF Begins, Resting
  <2> QED BY <2>1, <2>2, <2>3, <2>4, <2>5, <2>6, StepKinds DEF QuietStep
<1>2. ASSUME j \in exec'.created
      PROVE  j \in New
  BY <1>2, ListEffects DEF New, AtGate, CreatedHealthy
<1>3. exec' # Resting /\ (exec'.created # {} \/ exec'.at = "starting")
  BY DEF New, AtGate, Resting
<1>4. exec'.target = exec.target
  BY <1>3, ConvergeGoesOn
<1> QED BY <1>1, <1>2, <1>3, <1>4 DEF New, Completes

(* Once there is a new writer, all that writes is of its release.          *)
LEMMA NewWriteAloneStep ==
  ASSUME WritersInv, GraphNext
  PROVE  NewWriteAlone'
<1> SUFFICES ASSUME NEW c \in Exclusive, NEW j \in New', inst'[j].comp = c,
                    NEW i \in Writing(c)', i \notin leftBehind'
             PROVE  inst'[i].release = exec'.target
  BY DEF NewWriteAlone
<1>0. /\ c \in Components /\ i \in Ids /\ j \in Ids /\ exec'.target = exec.target
      /\ ~ Completes /\ exec \in Converge /\ RowsInOrder
  <2>1. New' \subseteq Ids
    <3>1. exec' \in Converge /\ GateInOrder'
      BY ConvergeStep, GateStepKept
    <3> QED BY <3>1, ConvergeFields DEF New, AtGate, GateInOrder
  <2> QED BY <2>1, NewStep, ExclusiveAssumption DEF Writing, WritersInv, GraphTypeOK
<1>1. leftBehind \subseteq leftBehind'
  BY <1>0 DEF GraphNext, Proceeds, Creates, CreatedHealthy,
     CreatedUnhealthy, Throws, JobStarts, JobSkipped, JobSucceeds, JobFails, Publishes, Retires,
     Completes, Rethrows, StopsStale, CandidateGone, CandidateHealthy, CandidateUnhealthy,
     Removes, UndoCreated, UndoStopped, Begins, Dies, Crashes, historyVars
<1>2. CASE Creates /\ i = made'
  BY <1>0, <1>2, AddEffects
<1>3. CASE ~ (Creates /\ i = made') /\ inst[i].release = exec.target
  BY <1>0, <1>3, RowsKeep
<1>4. CASE ~ (Creates /\ i = made') /\ i \in Writing(c) /\ Creates /\ j = made'
  <2>1. c = Now /\ StaleStopped
    BY <1>4, AddEffects DEF Creates
  <2>2. Running(i) /\ inst[i].comp = c /\ inst[i].status # "removed"
    BY <1>0, <1>4 DEF Writing, Running, RowsInOrder
  <2>3. i \notin exec.stopped
    BY <2>2 DEF WritersInv, ConvergeInOrder, StoppedInOrder
  <2>4. inst[i].release = exec.target
    BY <1>0, <2>1, <2>2, <2>3 DEF StaleStopped, Stale, Existing
  <2> QED BY <1>3, <1>4, <2>4
<1>5. CASE ~ (Creates /\ i = made') /\ i \in Writing(c) /\ ~ (Creates /\ j = made')
  <2>1. j \in New /\ inst[j].comp = c
    BY <1>0, <1>5, NewStep, RowsKeep
  <2>2. inst[i].release = exec.target
    BY <1>1, <1>5, <2>1 DEF WritersInv, NewWriteAlone
  <2> QED BY <1>3, <1>5, <2>2
<1>6. CASE UndoStopped(i)
  <2>1. New = {} /\ ~ Creates
    BY <1>6 DEF UndoStopped, New, AtGate, Creates, AtComponent
  <2> QED BY <2>1, NewStep
<1> QED BY <1>0, <1>2, <1>3, <1>4, <1>5, <1>6, WritingStep

-----------------------------------------------------------------------------
(* By which steps the later stages are reached and stayed in.              *)
LEMMA StageStep ==
  ASSUME WritersInv, GraphNext
  PROVE  /\ exec'.at = "job" =>
              JobStarts \/ \E i \in Ids : Dies(i) /\ exec' = exec
         /\ exec'.at = "publish" =>
              JobSkipped \/ JobSucceeds \/ Publishes \/ \E i \in Ids : Dies(i) /\ exec' = exec
         /\ exec'.at = "removing" =>
              Retires \/ \E i \in Ids : (Removes(i) \/ Dies(i)) /\ exec' = exec
<1>0. exec \in Converge
  BY DEF WritersInv, GraphTypeOK
<1>1. ASSUME NEW i \in Ids, RowStep(i), ~ Removes(i), ~ Dies(i)
      PROVE  exec'.at \in {"component", "undo"}
  BY <1>0, <1>1 DEF RowStep, StopsStale, CandidateGone, CandidateHealthy, CandidateUnhealthy,
     UndoCreated, UndoStopped, Converge, AtComponent
<1>2. \A i \in Ids : Removes(i) \/ Dies(i) => exec' = exec /\ (Removes(i) => exec.at = "removing")
  BY DEF Removes, Dies
<1>3. OtherThrow \/ GateStep \/ Creates => exec'.at \in {"component", "starting", "undo"}
  BY <1>0 DEF OtherThrow, GateStep, Throws, CreatedHealthy, CreatedUnhealthy, Creates, Converge
<1>4. /\ JobStarts \/ JobFails => exec'.at \in {"job", "undo"} /\ (JobFails => exec'.at = "undo")
      /\ JobSkipped \/ JobSucceeds => exec'.at = "publish"
      /\ Publishes => exec'.at = "publish"
      /\ Retires => exec'.at = "removing"
  BY <1>0 DEF JobStarts, JobFails, JobSkipped, JobSucceeds, Publishes, Retires, Converge
<1>5. Completes \/ Rethrows \/ Crashes => exec'.at = "idle"
  BY DEF Completes, Rethrows, Crashes, Resting
<1>6. (\E r \in Releases, force \in BOOLEAN : Begins(r, force)) => exec'.at = "component"
  BY DEF Begins, Resting
<1>7. CASE QuietStep
  BY <1>4, <1>5, <1>6, <1>7 DEF QuietStep
<1>8. CASE \E i \in Ids : RowStep(i)
  BY <1>1, <1>2, <1>8
<1>9. CASE OtherThrow \/ GateStep \/ Creates \/ Retires
  BY <1>3, <1>4, <1>9
<1> QED BY <1>7, <1>8, <1>9, StepKinds

LEMMA RetiredStep ==
  ASSUME WritersInv, RetiredInOrder, GraphNext
  PROVE  RetiredInOrder'
<1>0. exec \in Converge
  BY DEF WritersInv, GraphTypeOK
<1>1. CASE Retires
  <2>1. exec'.selected = exec.selected
    BY <1>0, <1>1 DEF Retires, Converge
  <2> QED BY <1>1, <2>1, RetireEffects DEF RetiredInOrder
<1>2. ASSUME NEW i \in Ids, Removes(i) \/ Dies(i), exec' = exec
      PROVE  RetiredInOrder'
  BY <1>2, RowEffects DEF RetiredInOrder, RowSet
<1> QED BY <1>1, <1>2, StageStep DEF RetiredInOrder

(* What is selected for a component does not change while it is published. *)
LEMMA SelectedKept ==
  ASSUME WritersInv, GraphNext, exec'.selected = exec.selected, NEW c
  PROVE  Selected(c)' = Selected(c)
<1>1. \A i \in exec.selected : i \in Ids /\ i <= made
  BY ConvergeFields DEF WritersInv, GraphTypeOK, ConvergeInOrder, SelectedInOrder
<1>2. ASSUME NEW i \in exec.selected
      PROVE  inst'[i].comp = inst[i].comp
  BY <1>1, RowsKeep, AddEffects
<1> QED BY <1>2 DEF Selected

LEMMA PublishedSoFarStep ==
  ASSUME WritersInv, PublishedSoFar, GraphNext
  PROVE  PublishedSoFar'
<1>0. /\ exec \in Converge /\ published \in [Components -> SUBSET Ids]
      /\ exec.k \in 1..(Len(Order) + 1)
  BY ConvergeFields DEF WritersInv, GraphTypeOK
<1>1. CASE JobSkipped \/ JobSucceeds
  <2>1. exec'.at = "publish" /\ exec'.k = 1
    BY <1>0, <1>1 DEF JobSkipped, JobSucceeds, Converge
  <2> QED BY <2>1 DEF PublishedSoFar
<1>2. CASE Publishes
  <2>1. /\ exec.at = "publish" /\ exec'.at = "publish" /\ exec'.k = exec.k + 1
        /\ exec.k \in 1..Len(Order) /\ exec'.selected = exec.selected
    BY <1>0, <1>2, OrderFacts DEF Publishes, Converge
  <2>2. published' = [published EXCEPT ![Now] = Selected(Now)]
    BY <1>2 DEF Publishes
  <2>3. ASSUME NEW m \in 1..(exec'.k - 1)
        PROVE  published'[Order[m]] = Selected(Order[m])'
    <3>1. m \in 1..exec.k /\ m \in 1..Len(Order) /\ Order[m] \in Components
      BY <2>1, OrderFacts
    <3>2. Selected(Order[m])' = Selected(Order[m])
      BY <2>1, SelectedKept
    <3>3. CASE m = exec.k
      BY <1>0, <2>2, <3>1, <3>2, <3>3 DEF Now
    <3>4. CASE m # exec.k
      <4>1. Order[m] # Now /\ m \in 1..(exec.k - 1)
        BY <2>1, <3>1, <3>4, OrderFacts DEF Now
      <4> QED BY <1>0, <2>1, <2>2, <3>1, <3>2, <4>1 DEF PublishedSoFar
    <3> QED BY <3>3, <3>4
  <2> QED BY <2>1, <2>3 DEF PublishedSoFar
<1>3. CASE Retires
  <2>1. /\ exec.at = "publish" /\ exec'.at = "removing" /\ exec.k - 1 = Len(Order)
        /\ exec'.selected = exec.selected /\ published' = published
    BY <1>0, <1>3, OrderFacts DEF Retires, Converge
  <2>2. \A c \in Components : published[c] = Selected(c)
    BY <2>1, OrderFacts DEF PublishedSoFar
  <2>3. \A c \in Components : Selected(c)' = Selected(c)
    BY <2>1, SelectedKept
  <2> QED BY <2>1, <2>2, <2>3 DEF PublishedSoFar
<1>4. ASSUME NEW i \in Ids, Removes(i) \/ Dies(i), exec' = exec
      PROVE  PublishedSoFar'
  <2>1. published' = published
    BY <1>4 DEF Removes, Dies
  <2>2. \A c : Selected(c)' = Selected(c)
    BY <1>4, SelectedKept
  <2> QED BY <1>4, <2>1, <2>2 DEF PublishedSoFar
<1> QED BY <1>1, <1>2, <1>3, <1>4, StageStep DEF PublishedSoFar

(* What gets traffic changes only by publishing what was selected.         *)
LEMMA PublishedStep ==
  ASSUME WritersInv, PublishedAreMade, GraphNext, NEW i \in Published'
  PROVE  /\ \/ i \in Published /\ UNCHANGED published
            \/ Publishes /\ (i \in Published \/ i \in exec.selected)
         /\ i \in Ids /\ i <= made /\ i <= made'
         /\ inst'[i].release = inst[i].release /\ inst[i].release \in Releases
         /\ ~ (Creates /\ i = made')
<1>0. /\ published \in [Components -> SUBSET Ids] /\ exec \in Converge
      /\ \A j \in exec.selected : j <= made
  BY DEF WritersInv, GraphTypeOK, ConvergeInOrder, SelectedInOrder
<1>1. \/ i \in Published /\ UNCHANGED published
      \/ Publishes /\ (i \in Published \/ i \in exec.selected)
  <2>1. CASE Publishes
    BY <1>0, <2>1 DEF Publishes, Published, Selected
  <2>2. CASE ~ Publishes
    <3>1. published' = published
      BY <2>2 DEF GraphNext, Proceeds, Creates, CreatedHealthy,
         CreatedUnhealthy, Throws, JobStarts, JobSkipped, JobSucceeds, JobFails, Retires,
         Completes, Rethrows, StopsStale, CandidateGone, CandidateHealthy, CandidateUnhealthy,
         Removes, UndoCreated, UndoStopped, Begins, Dies, Crashes
    <3> QED BY <3>1 DEF Published
  <2> QED BY <2>1, <2>2
<1>2. i \in Ids /\ i <= made
  <2>1. exec.selected \subseteq Ids /\ Published \subseteq Ids
    BY <1>0, ConvergeFields DEF Published
  <2> QED BY <1>0, <1>1, <2>1 DEF PublishedAreMade
<1>3. i <= made' /\ ~ (Creates /\ i = made')
  <2>1. made \in Nat /\ i \in Nat /\ (made' = made \/ (Creates /\ made' = made + 1))
    BY <1>2, RowsKeep, MadeStep, AddEffects
  <2>2. CASE Creates
    BY <1>2, <2>1, <2>2, AddEffects
  <2>3. CASE ~ Creates
    BY <1>2, <2>1, <2>3
  <2> QED BY <2>2, <2>3
<1> QED BY <1>1, <1>2, <1>3, RowsKeep, RowFacts

(* A release whose job is under way has no traffic yet.                    *)
LEMMA JobInOrderStep ==
  ASSUME WritersInv, PublishedAreMade, JobInOrder, JobsGateTraffic, GraphNext
  PROVE  JobInOrder'
<1>0. /\ exec \in Converge /\ job \in [Releases -> {"none", "running", "succeeded", "failed"}]
      /\ exec.at # "idle" => exec.target \in Releases
  BY DEF WritersInv, GraphTypeOK, ConvergeInOrder
<1>1. CASE JobStarts
  <2>1. exec'.at = "job" /\ exec'.target = exec.target /\ UNCHANGED <<inst, published>>
    BY <1>0, <1>1 DEF JobStarts, Converge
  <2>2. \A i \in Published : inst[i].release # exec.target
    BY <1>1 DEF JobStarts, NeedsJob, JobsGateTraffic
  <2>3. Published' = Published
    BY <2>1 DEF Published
  <2> QED BY <2>1, <2>2, <2>3 DEF JobInOrder
<1>2. CASE JobSkipped \/ Publishes
  <2>1. exec'.at = "publish" /\ exec'.target = exec.target /\ job' = job /\ ~ NeedsJob(exec.target)
    BY <1>0, <1>2 DEF JobSkipped, Publishes, Converge, JobInOrder
  <2> QED BY <2>1 DEF JobInOrder, NeedsJob
<1>3. CASE JobSucceeds
  <2>1. exec'.at = "publish" /\ exec'.target = exec.target /\ job'[exec.target] = "succeeded"
    BY <1>0, <1>3 DEF JobSucceeds, Converge
  <2> QED BY <2>1 DEF JobInOrder, NeedsJob
<1>4. ASSUME NEW i \in Ids, Dies(i), exec' = exec
      PROVE  JobInOrder'
  <2>1. job' = job /\ published' = published
    BY <1>4 DEF Dies
  <2>2. \A j \in Published' : j \in Published /\ inst'[j].release = inst[j].release
    BY <2>1, PublishedStep DEF Published
  <2> QED BY <1>4, <2>1, <2>2 DEF JobInOrder, NeedsJob
<1> QED BY <1>1, <1>2, <1>3, <1>4, StageStep DEF JobInOrder

(* No traffic for a release whose job has not let it through.              *)
LEMMA JobsGateStep ==
  ASSUME WritersInv, PublishedAreMade, JobInOrder, JobsGateTraffic, GraphNext
  PROVE  JobsGateTraffic'
<1>0. /\ exec \in Converge /\ job \in [Releases -> {"none", "running", "succeeded", "failed"}]
      /\ exec.at # "idle" => exec.target \in Releases
  BY DEF WritersInv, GraphTypeOK, ConvergeInOrder
<1> SUFFICES ASSUME NEW i \in Published'
             PROVE  job'[inst'[i].release] \notin {"none", "failed"}
  BY DEF JobsGateTraffic
<1>1. inst'[i].release = inst[i].release /\ inst[i].release \in Releases
  BY PublishedStep
<1>2. CASE Publishes
  <2>1. job' = job /\ ~ NeedsJob(exec.target)
    BY <1>2 DEF Publishes, JobInOrder
  <2>2. i \in exec.selected => inst[i].release = exec.target
    BY DEF WritersInv, ConvergeInOrder, SelectedInOrder
  <2> QED BY <1>1, <1>2, <2>1, <2>2, PublishedStep DEF NeedsJob, JobsGateTraffic
<1>3. CASE ~ Publishes
  <2>1. job[inst[i].release] \notin {"none", "failed"}
    BY <1>3, PublishedStep DEF JobsGateTraffic
  <2>2. CASE JobFails
    <3>1. inst[i].release # exec.target
      BY <1>3, <2>2, PublishedStep DEF JobFails, JobInOrder
    <3> QED BY <1>0, <1>1, <2>1, <2>2, <3>1 DEF JobFails
  <2>3. CASE JobStarts \/ JobSucceeds
    BY <1>0, <1>1, <2>1, <2>3 DEF JobStarts, JobSucceeds
  <2>4. job' = job \/ JobFails \/ JobStarts \/ JobSucceeds
    BY DEF GraphNext, Proceeds, Creates, CreatedHealthy, CreatedUnhealthy, Throws, JobSkipped,
       Publishes, Retires, Completes, Rethrows, StopsStale, CandidateGone, CandidateHealthy,
       CandidateUnhealthy, Removes, UndoCreated, UndoStopped, Begins, Dies, Crashes
  <2> QED BY <1>1, <2>1, <2>2, <2>3, <2>4
<1> QED BY <1>2, <1>3

(* No container that has traffic goes, but in an undo.                     *)
LEMMA PublishedThereStep ==
  ASSUME WritersInv, PublishedAreMade, PublishedSoFar, PublishedAreThere, GraphNext
  PROVE  PublishedAreThere'
<1> SUFFICES ASSUME NEW i \in Published', i \notin torn'
             PROVE  inst'[i].container # "absent"
  BY DEF PublishedAreThere
<1>0. /\ i \in Ids /\ ~ (Creates /\ i = made')
      /\ published \in [Components -> SUBSET Ids]
  BY PublishedStep DEF WritersInv, GraphTypeOK
<1>1. CASE Publishes
  <2>1. torn' = torn /\ inst' = inst /\ exec.at = "publish"
    BY <1>1 DEF Publishes, historyVars
  <2>2. i \in exec.selected => inst[i].container # "absent"
    BY <2>1 DEF WritersInv, ConvergeInOrder, SelectedInOrder
  <2> QED BY <1>1, <2>1, <2>2, PublishedStep DEF PublishedAreThere
<1>2. CASE ~ Publishes
  <2>1. torn \subseteq torn'
    BY DEF GraphNext, Proceeds, Creates, CreatedHealthy, CreatedUnhealthy, Throws, JobStarts,
       JobSkipped, JobSucceeds, JobFails, Publishes, Retires, Completes, Rethrows, StopsStale,
       CandidateGone, CandidateHealthy, CandidateUnhealthy, Removes, UndoCreated, UndoStopped,
       Begins, Dies, Crashes, historyVars
  <2>2. i \in Published /\ inst[i].container # "absent"
    BY <1>2, <2>1, PublishedStep DEF PublishedAreThere
  <2>3. CASE QuietStep \/ OtherThrow \/ Creates \/ Retires
    BY <1>0, <2>2, <2>3, MadeStep, AddEffects, RetireEffects
  <2>4. CASE GateStep
    BY <1>0, <2>2, <2>4, GateEffects DEF GateStep, CreatedHealthy, CreatedUnhealthy, RowSet
  <2>5. ASSUME NEW j \in Ids, RowStep(j)
        PROVE  inst'[i].container # "absent"
    <3>1. CASE i # j
      BY <1>0, <2>2, <2>5, <3>1, RowEffects DEF RowStep, RowSet
    <3>2. CASE i = j /\ Removes(j)
      <4>1. exec.at = "removing" /\ inst[i].status = "draining"
        BY <3>2 DEF Removes
      <4>2. i \in exec.selected
        BY <1>0, <2>2, <4>1 DEF PublishedSoFar, Published, Selected
      <4> QED BY <4>1, <4>2 DEF WritersInv, ConvergeInOrder, SelectedInOrder
    <3>3. CASE i = j /\ UndoCreated(j)
      BY <2>2, <3>3 DEF UndoCreated
    <3> QED BY <2>2, <2>5, <3>1, <3>2, <3>3, RowEffects DEF RowStep, RowSet, CandidateGone,
           Revived
  <2> QED BY <2>3, <2>4, <2>5, StepKinds
<1> QED BY <1>1, <1>2

LEMMA PublishedMadeStep ==
  ASSUME WritersInv, PublishedAreMade, GraphNext
  PROVE  PublishedAreMade'
BY PublishedStep DEF PublishedAreMade

-----------------------------------------------------------------------------
(* The invariant holds at first, and every step keeps it.                  *)
GraphInv == WritersInv /\ TrafficInv

LEMMA GraphInvInit == GraphInit => GraphInv
<1> SUFFICES ASSUME GraphInit PROVE GraphInv
  OBVIOUS
<1>1. GraphTypeOK
  BY RestingConverge, BoundAssumption DEF GraphInit, GraphTypeOK
<1>2. RowsInOrder
  BY BoundAssumption DEF GraphInit, RowsInOrder, NoInstance, Ids
<1>3. ConvergeInOrder
  BY DEF GraphInit, ConvergeInOrder, Resting, GateInOrder, SelectedInOrder, StoppedInOrder
<1>4. EarlierAgree /\ NewWriteAlone
  BY DEF GraphInit, EarlierAgree, NewWriteAlone, Earlier, New, AtGate, NoInstance, Resting
<1>5. Published = {}
  BY DEF GraphInit, Published
<1>6. TrafficInv
  BY <1>5 DEF GraphInit, TrafficInv, PublishedSoFar, RetiredInOrder, JobInOrder,
     PublishedAreMade, JobsGateTraffic, PublishedAreThere, Resting
<1> QED BY <1>1, <1>2, <1>3, <1>4, <1>6 DEF GraphInv, WritersInv

LEMMA GraphInvStutter == GraphInv /\ UNCHANGED executorVars => GraphInv'
<1> SUFFICES ASSUME GraphInv, UNCHANGED executorVars PROVE GraphInv'
  OBVIOUS
<1> USE DEF executorVars, historyVars
<1>1. GraphTypeOK' /\ RowsInOrder' /\ ConvergeInOrder'
  BY DEF GraphInv, WritersInv, GraphTypeOK, RowsInOrder, ConvergeInOrder, GateInOrder,
     SelectedInOrder, StoppedInOrder, Running
<1>2. EarlierAgree' /\ NewWriteAlone'
  BY DEF GraphInv, WritersInv, EarlierAgree, NewWriteAlone, Earlier, New, AtGate, Writing, Running
<1>3. TrafficInv'
  BY DEF GraphInv, TrafficInv, PublishedSoFar, RetiredInOrder, JobInOrder, PublishedAreMade,
     JobsGateTraffic, PublishedAreThere, Published, Selected, NeedsJob
<1> QED BY <1>1, <1>2, <1>3 DEF GraphInv, WritersInv

LEMMA GraphInvAlways == GraphSpec => []GraphInv
<1>1. GraphInv /\ GraphNext => GraphInv'
  BY TypeStep, RowsStep, ConvergeInOrderStep, EarlierAgreeStep, NewWriteAloneStep,
     PublishedSoFarStep, RetiredStep, JobInOrderStep, PublishedMadeStep, JobsGateStep,
     PublishedThereStep DEF GraphInv, WritersInv, TrafficInv
<1> QED BY <1>1, GraphInvInit, GraphInvStutter, PTL DEF GraphSpec

(* Single writers take turns, through every error, undo, retry and crash:  *)
(* the old one is stopped before the new one is made, and is started again *)
(* only when that one is gone.                                             *)
THEOREM WritersAreSound == GraphSpec => []WritersSound
<1>1. GraphInv => WritersSound
  <2> SUFFICES ASSUME GraphInv, NEW c \in Exclusive,
                      NEW i \in Writing(c) \ leftBehind, NEW j \in Writing(c) \ leftBehind
               PROVE  inst[i].release = inst[j].release
    BY DEF GraphInv, WritersInv, WritersSound, ReleasesWriteInTurn
  <2>1. /\ i \in Ids /\ inst[i].comp = c /\ inst[i].container # "absent"
        /\ j \in Ids /\ inst[j].comp = c /\ inst[j].container # "absent"
    BY DEF Writing, Running
  <2>2. CASE i \in New \/ j \in New
    BY <2>1, <2>2 DEF GraphInv, WritersInv, NewWriteAlone
  <2>3. CASE i \notin New /\ j \notin New
    BY <2>1, <2>3 DEF GraphInv, WritersInv, EarlierAgree, Earlier
  <2> QED BY <2>2, <2>3
<1> QED BY <1>1, GraphInvAlways, PTL

(* Traffic goes only to containers that are there, of releases that their  *)
(* before-traffic job let through, whatever was retried or undone.         *)
THEOREM TrafficIsSound == GraphSpec => []TrafficSound
<1>1. GraphInv => TrafficSound
  BY DEF GraphInv, TrafficInv, TrafficSound
<1> QED BY <1>1, GraphInvAlways, PTL

(* A converge that completes leaves no container but those it selected,    *)
(* and exactly these get the traffic: what earlier converges left behind,  *)
(* failed or abandoned, is gone.                                           *)
THEOREM CompletionsAreClean == GraphSpec => CompletesClean
<1> DEFINE Clean == /\ Published = exec.selected
                    /\ \A i \in Ids : inst[i].container # "absent" => i \in exec.selected
<1>1. GraphInv /\ Completes => Clean
  <2> SUFFICES ASSUME GraphInv, Completes PROVE Clean
    OBVIOUS
  <2>1. \A i \in Ids : inst[i].container # "absent" => i \in exec.selected
    BY CompletedRows DEF GraphInv, TrafficInv
  <2>2. ASSUME NEW i \in exec.selected
        PROVE  i \in Published
    <3>1. i \in Ids /\ i <= made
      BY ConvergeFields DEF GraphInv, WritersInv, GraphTypeOK, ConvergeInOrder, SelectedInOrder
    <3>2. inst[i].comp \in Components
      BY <3>1, RowFacts DEF GraphInv
    <3>3. i \in Selected(inst[i].comp)
      BY DEF Selected
    <3> QED BY <3>2, <3>3 DEF GraphInv, TrafficInv, PublishedSoFar, Completes, Published
  <2>3. Published \subseteq exec.selected
    BY DEF GraphInv, TrafficInv, PublishedSoFar, Completes, Published, Selected
  <2> QED BY <2>1, <2>2, <2>3
<1>2. GraphInv /\ [GraphNext]_executorVars => [Completes => Clean]_executorVars
  BY <1>1
<1> QED BY <1>2, GraphInvAlways, PTL DEF GraphSpec, CompletesClean
=============================================================================
