---------------------------- MODULE DataLineage ----------------------------
(***************************************************************************)
(* The shared data of an application that runs at Home and on suitcases:   *)
(* how a site's volume is captured as a changeset against its base         *)
(* checkpoint, merged three ways at Home and adopted again.  It models     *)
(* server/reconciliation-coordinator.ts, data-reconciliation.ts and        *)
(* suitcase-data-bridge.ts, the selection of fleet-replicas.ts and the     *)
(* capture and restore of suitcase-application-materializer.ts.            *)
(*                                                                         *)
(* One application under the automatic policy.  Its data is what each row  *)
(* or file holds, and a content is the set of the writes it builds on: a   *)
(* write adds its own number to the content it found.  Events travel in    *)
(* order and are not lost (FleetSync).                                     *)
(***************************************************************************)
EXTENDS Naturals, Sequences, FiniteSets

CONSTANTS
  Home,
  Suitcases,
  Keys,           \* the rows and the file paths of the profile
  Files,          \* those that are file paths
  ConflictPolicy, \* a suitcase's: "collect", "prefer-home" or "prefer-suitcase"
  MaxWrites,      \* bound: writes of the application, all sites together
  MaxSelections,  \* bound: selections of a replica
  MaxFaults       \* bound: crashes of Home, failures of single steps and
                  \* new revisions of a site

ASSUME HomeAssumption == Home \notin Suitcases
ASSUME KeysAssumption == Keys # {}
ASSUME FilesAssumption == Files \subseteq Keys
ASSUME BoundsAssumption == MaxWrites \in Nat /\ MaxFaults \in Nat

Sites == Suitcases \cup {Home}
Revisions == 0..MaxFaults

VARIABLES
  checkpoints,    \* data_checkpoints at Home, by sequence
  changesets,     \* data_changesets at Home, with their data_conflicts
  base,           \* base_checkpoint_id: Home's row, and each suitcase's own
  volume,         \* what the application's volume holds at each site
  up,             \* suitcases on which the application runs
  restored,       \* sites whose volume was there before or restored once
  marker,         \* the restored.json files of each site
  revision,       \* spec and configuration digests of each site
  selection,      \* selection events on their way to each suitcase
  branch,         \* the row a suitcase keeps of its own changeset
  queue,          \* coordinatorTail: the reconciliations that wait
  job,            \* the reconciliation that runs
  sweep,          \* reconcileAllAutomaticChangesets, run at Home's start
  adoption,       \* materializeHomeCheckpoint, as job and sweep call it
  writes,         \* number of the latest write
  dropped,        \* history: writes a conflict's resolution decided against
  disturbed,      \* history: see KeptWhenUndisturbed
  overtaken,      \* history: Home restored a checkpoint older than the latest
  count           \* the selections and faults so far

homeVars == <<checkpoints, changesets, base>>
siteVars == <<volume, up, restored, marker, revision>>
wireVars == <<selection, branch>>
coordinatorVars == <<queue, job, sweep, adoption>>
historyVars == <<dropped, disturbed, overtaken>>
dataVars == <<homeVars, siteVars, wireVars, coordinatorVars, writes, historyVars, count>>

Writes == 0..MaxWrites
Contents == SUBSET Writes
Data == [main : [Keys -> Contents], copies : SUBSET (Keys \X Contents)]
Empty == [main |-> [k \in Keys |-> {}], copies |-> {}]

Unfinished == {"pending", "conflicted", "blocked"}
Resolutions == {"none", "home", "suitcase", "keep-both"}
Unresolved == [k \in Keys |-> "none"]

NoBranch == [base |-> 0, data |-> Empty, sent |-> FALSE]
NoJob == [at |-> "idle", origin |-> Home, by |-> "none", todo |-> {}, own |-> FALSE]
NoAdoption == [at |-> "none", target |-> 0]
NoSweep == [at |-> "off", todo |-> {}]

DataTypeOK ==
  /\ \A i \in DOMAIN checkpoints :
       /\ checkpoints[i].data \in Data
       /\ checkpoints[i].parent \in 0..(i - 1)
       /\ checkpoints[i].from \in 0..Len(changesets)
  /\ \A i \in DOMAIN changesets :
       /\ changesets[i].site \in Sites /\ changesets[i].data \in Data
       /\ changesets[i].base \in DOMAIN checkpoints
       /\ changesets[i].status \in Unfinished \cup {"applied"}
       /\ changesets[i].open \subseteq Keys
       /\ changesets[i].resolution \in [Keys -> Resolutions]
  /\ base \in [Sites -> 0..Len(checkpoints)]
  /\ volume \in [Sites -> Data] /\ up \subseteq Suitcases
  /\ restored \subseteq Sites
  /\ marker \in [Sites -> SUBSET ((DOMAIN checkpoints) \X Revisions)]
  /\ revision \in [Sites -> Revisions]
  /\ \A s \in Suitcases :
       /\ branch[s].base \in 0..Len(checkpoints) /\ branch[s].data \in Data
       /\ \A n \in DOMAIN selection[s] : selection[s][n] \in DOMAIN checkpoints
  /\ job.at \in {"idle", "capture", "apply", "commit", "adopt"}
  /\ sweep.at \in {"off", "next", "waiting", "adopt"}
  /\ \A p \in DOMAIN adoption :
       adoption[p].at \in {"none", "choose", "restore", "mark"}
  /\ writes \in Writes /\ dropped \subseteq Writes

(* The application has data at Home and is nowhere else. *)
DataInit ==
  /\ checkpoints = <<>> /\ changesets = <<>>
  /\ base = [site \in Sites |-> 0]
  /\ volume = [site \in Sites |->
                 IF site = Home THEN [main |-> [k \in Keys |-> {0}], copies |-> {}]
                                ELSE Empty]
  /\ up = {}
  /\ restored = {Home}
  /\ marker = [site \in Sites |-> {}]
  /\ revision = [site \in Sites |-> 0]
  /\ selection = [s \in Suitcases |-> <<>>]
  /\ branch = [s \in Suitcases |-> NoBranch]
  /\ queue = <<>> /\ job = NoJob /\ sweep = NoSweep
  /\ adoption = [p \in {"job", "sweep"} |-> NoAdoption]
  /\ writes = 0 /\ dropped = {} /\ disturbed = FALSE /\ overtaken = FALSE
  /\ count = [selections |-> 0, faults |-> 0]

Fault ==
  /\ count.faults < MaxFaults
  /\ count' = [count EXCEPT !.faults = @ + 1]

(* latestVerifiedCheckpoint: the highest sequence. *)
Latest == Len(checkpoints)

(* pendingForOrigin; they are taken oldest first. *)
PendingOf(site) ==
  {n \in DOMAIN changesets : changesets[n].site = site /\ changesets[n].status = "pending"}

HasUnfinished(site) ==
  \E i \in DOMAIN changesets :
    changesets[i].site = site /\ changesets[i].status \in Unfinished

(* Some conflict is open.  The one of a blocked changeset stays open: its  *)
(* kind is schema or validation, which resolveDataConflict refuses.        *)
ConflictsOpen ==
  \E i \in DOMAIN changesets :
    changesets[i].open # {} \/ changesets[i].status = "blocked"

-----------------------------------------------------------------------------
(* The merge: b the shared base, h the current checkpoint ("home"), s the  *)
(* incoming branch ("suitcase").                                           *)

(* Variant: the branch wins wherever the two differ. *)
BranchWins(b, h, s) == IF h = s THEN h ELSE s

ThreeWay(b, h, s) == IF h = s \/ s = b THEN h ELSE IF h = b THEN s ELSE h
Clash(b, h, s) == h # s /\ h # b /\ s # b

Clashes(b, h, s) == {k \in Keys : Clash(b.main[k], h.main[k], s.main[k])}

MergedKey(k, b, h, s, resolution, policy) ==
  IF k \notin Clashes(b, h, s) THEN ThreeWay(b.main[k], h.main[k], s.main[k])
  ELSE IF resolution[k] = "suitcase" \/ (resolution[k] = "none" /\ policy = "prefer-suitcase")
       THEN s.main[k] ELSE h.main[k]

(* A path kept twice: Home's stays, the branch's is put beside it under a  *)
(* path made of its content.                                               *)
KeptBeside(b, h, s, resolution) ==
  {<<k, s.main[k]>> : k \in {k \in Clashes(b, h, s) : resolution[k] = "keep-both"}}

Merged(b, h, s, resolution, policy) ==
  [main   |-> [k \in Keys |-> MergedKey(k, b, h, s, resolution, policy)],
   copies |-> {c \in h.copies \cup s.copies :
                 ThreeWay(c \in b.copies, c \in h.copies, c \in s.copies)}
                \cup KeptBeside(b, h, s, resolution)]

Undecided(b, h, s, resolution, policy) ==
  {k \in Clashes(b, h, s) : resolution[k] = "none" /\ policy = "collect"}

PolicyOf(site) == IF site = Home THEN "collect" ELSE ConflictPolicy

Within(w, d) == (\E k \in Keys : w \in d.main[k]) \/ (\E c \in d.copies : w \in c[2])

(* What a merge leaves out of the two contents of a clash. *)
LeftOut(b, h, s, merged) ==
  {w \in UNION {h.main[k] \cup s.main[k] : k \in Clashes(b, h, s)} : ~ Within(w, merged)}

-----------------------------------------------------------------------------
(* The application, at any site.                                           *)

(* Home's containers are recorded under the node "coordinator".  The data  *)
(* bridge asks the executor to stop those of Home's site id, of which      *)
(* there are none but what a selection started: the application goes on.   *)
Running(site) == site = Home \/ site \in up

(* Home's branch was taken and its changeset or the merge is not adopted.  *)
AwaitingAdoption ==
  job.at \in {"apply", "commit", "adopt"} \/ HasUnfinished(Home)

Write(site, k) ==
  /\ Running(site) /\ writes < MaxWrites
  /\ writes' = writes + 1
  /\ volume' = [volume EXCEPT ![site].main[k] = @ \cup {writes'}]
  /\ disturbed' = (disturbed \/ (site = Home /\ AwaitingAdoption))
  /\ UNCHANGED <<homeVars, up, restored, marker, revision, wireVars, coordinatorVars,
                 dropped, overtaken, count>>

(* A deploy or an edit of the configuration at one site: the markers of    *)
(* its checkpoints no longer match.                                        *)
Revise(site) ==
  /\ site \in restored /\ Fault
  /\ revision' = [revision EXCEPT ![site] = @ + 1]
  /\ up' = up \cup ({site} \ {Home})
  /\ disturbed' = TRUE
  /\ UNCHANGED <<homeVars, volume, restored, marker, wireVars, coordinatorVars, writes,
                 dropped, overtaken>>

(* The graph supervisor of a suitcase converges what it finds down.        *)
SupervisorStarts(s) ==
  /\ s \in restored \ up
  /\ up' = up \cup {s}
  /\ UNCHANGED <<homeVars, volume, restored, marker, revision, wireVars, coordinatorVars,
                 writes, historyVars, count>>

-----------------------------------------------------------------------------
(* Selecting a replica.                                                    *)

(* The first selection captures Home's volume; a later one takes the       *)
(* latest checkpoint for the suitcase, whatever base it has, and for Home. *)
SelectReplica(s) ==
  /\ count.selections < MaxSelections
  /\ count' = [count EXCEPT !.selections = @ + 1]
  /\ IF checkpoints = <<>>
     THEN checkpoints' = <<[data |-> volume[Home], parent |-> 0, from |-> 0]>>
     ELSE UNCHANGED checkpoints
  /\ base' = [base EXCEPT ![Home] = Len(checkpoints')]
  /\ selection' = [selection EXCEPT ![s] = Append(@, Len(checkpoints'))]
  /\ disturbed' = (disturbed \/ base[s] # 0 \/ selection[s] # <<>>)
  /\ UNCHANGED <<changesets, siteVars, branch, coordinatorVars, writes, dropped,
                 overtaken>>

ProjectSelection(s) ==
  /\ selection[s] # <<>>
  /\ base' = [base EXCEPT ![s] = Head(selection[s])]
  /\ selection' = [selection EXCEPT ![s] = Tail(@)]
  /\ UNCHANGED <<checkpoints, changesets, siteVars, branch, coordinatorVars, writes,
                 historyVars, count>>

-----------------------------------------------------------------------------
(* A suitcase's pass.                                                      *)

(* Its own row of the changeset stays pending: no handler ends it.         *)
CaptureBranch(s) ==
  /\ base[s] # 0 /\ branch[s] = NoBranch
  /\ up' = up \cup {s}
  /\ branch' = IF volume[s] = checkpoints[base[s]].data THEN branch
               ELSE [branch EXCEPT ![s] = [base |-> base[s], data |-> volume[s], sent |-> FALSE]]
  /\ UNCHANGED <<homeVars, volume, restored, marker, revision, selection, coordinatorVars,
                 writes, dropped, overtaken>>

CaptureSuitcaseBranch(s) ==
  /\ s \in restored
  /\ CaptureBranch(s)
  /\ UNCHANGED <<disturbed, count>>

(* The materialisation failed and the next pass captures first: Docker     *)
(* makes the volume, empty; a profiled database would be missed.           *)
CaptureUnrestored(s) ==
  /\ s \notin restored /\ Keys = Files
  /\ Fault /\ CaptureBranch(s)
  /\ disturbed' = TRUE

Restores(site, c) ==
  /\ volume' = [volume EXCEPT ![site] = checkpoints[c].data]
  /\ restored' = restored \cup {site}

MarkersBut(site, c) == {m \in marker[site] : m[1] # c}

(* reconcileReplica: restore the base unless its marker matches, converge. *)
MaterialiseReplica(s) ==
  /\ base[s] # 0 /\ <<base[s], revision[s]>> \notin marker[s]
  /\ Restores(s, base[s])
  /\ up' = up \cup {s}
  /\ marker' = [marker EXCEPT ![s] = MarkersBut(s, base[s]) \cup {<<base[s], revision[s]>>}]
  /\ UNCHANGED <<homeVars, revision, wireVars, coordinatorVars, writes, historyVars, count>>

(* The same, ended before the marker is written. *)
MaterialiseCut(s) ==
  /\ base[s] # 0 /\ <<base[s], revision[s]>> \notin marker[s]
  /\ Fault /\ Restores(s, base[s])
  /\ up' = up \ {s}
  /\ marker' = [marker EXCEPT ![s] = MarkersBut(s, base[s])]
  /\ disturbed' = TRUE
  /\ UNCHANGED <<homeVars, revision, wireVars, coordinatorVars, writes, dropped, overtaken>>

Changeset(site, from, data) ==
  [site |-> site, base |-> from, data |-> data, status |-> "pending",
   open |-> {}, resolution |-> Unresolved]

Request(origin, by) == [origin |-> origin, by |-> by]

(* An exchange brings the changeset and asks for a reconciliation; the     *)
(* suitcase waits for its answer.                                          *)
Exchange(s) ==
  /\ base[s] # 0
  /\ \A n \in DOMAIN queue : queue[n] # Request(s, "exchange")
  /\ ~ (job.at # "idle" /\ job.origin = s /\ job.by = "exchange")
  /\ IF branch[s] # NoBranch /\ ~ branch[s].sent
     THEN /\ changesets' = Append(changesets, Changeset(s, branch[s].base, branch[s].data))
          /\ branch' = [branch EXCEPT ![s].sent = TRUE]
     ELSE UNCHANGED <<changesets, branch>>
  /\ queue' = Append(queue, Request(s, "exchange"))
  /\ UNCHANGED <<checkpoints, base, siteVars, selection, job, sweep, adoption, writes,
                 historyVars, count>>

-----------------------------------------------------------------------------
(* The coordinator at Home, one reconciliation at a time.                  *)

(* A reconciliation returns (ok) or throws; the sweep goes on, or ends.    *)
JobEnds(by, ok) ==
  /\ job' = NoJob
  /\ sweep' = IF by # "sweep" THEN sweep
              ELSE IF ok THEN [sweep EXCEPT !.at = "next"] ELSE NoSweep

(* Variant: Home's branch is not captured first. *)
StartsWithoutCapture ==
  /\ job.at = "idle" /\ queue # <<>>
  /\ queue' = Tail(queue)
  /\ LET request == Head(queue)
         todo == PendingOf(request.origin)
     IN IF todo = {} THEN JobEnds(request.by, TRUE)
        ELSE /\ job' = [at |-> "apply", origin |-> request.origin, by |-> request.by,
                        todo |-> todo, own |-> FALSE]
             /\ UNCHANGED sweep
  /\ UNCHANGED <<homeVars, siteVars, wireVars, adoption, writes, historyVars, count>>

StartJob ==
  /\ job.at = "idle" /\ queue # <<>>
  /\ queue' = Tail(queue)
  /\ LET request == Head(queue)
         todo == PendingOf(request.origin)
     IN IF todo = {} THEN JobEnds(request.by, TRUE)
        ELSE /\ job' = [at |-> IF request.origin = Home THEN "apply" ELSE "capture",
                        origin |-> request.origin, by |-> request.by, todo |-> todo,
                        own |-> FALSE]
             /\ UNCHANGED sweep
  /\ UNCHANGED <<homeVars, siteVars, wireVars, adoption, writes, historyVars, count>>

(* A branch whose site had adopted its base. *)
Grounded(c) ==
  LET b == checkpoints[c.base].data IN
    /\ \A k \in Keys : b.main[k] \subseteq c.data.main[k]
    /\ b.copies \subseteq c.data.copies

(* captureHomeDataBranch: nothing while an own changeset is unfinished;    *)
(* else export, which is to leave the graph cold until the adoption.       *)
CaptureHome ==
  /\ job.at = "capture"
  /\ job' = [job EXCEPT !.at = "apply"]
  /\ LET c == Changeset(Home, base[Home], volume[Home]) IN
       IF HasUnfinished(Home) THEN UNCHANGED <<changesets, disturbed>>
       ELSE /\ changesets' = IF c.data = checkpoints[c.base].data THEN changesets
                             ELSE Append(changesets, c)
            /\ disturbed' = (disturbed \/ ~ Grounded(c))
  /\ UNCHANGED <<checkpoints, base, siteVars, wireVars, queue, sweep, adoption, writes,
                 dropped, overtaken, count>>

(* The archive fails and the branch waits. *)
CaptureHomeFails ==
  /\ job.at = "capture" /\ Fault
  /\ JobEnds(job.by, TRUE)
  /\ UNCHANGED <<homeVars, siteVars, wireVars, queue, adoption, writes, historyVars>>

IsNext(i) == i \in job.todo /\ \A n \in job.todo : i <= n
Applying(i) == job.at = "apply" /\ IsNext(i)

Operands(i) ==
  [b |-> checkpoints[changesets[i].base].data, h |-> checkpoints[Latest].data,
   s |-> changesets[i].data, resolution |-> changesets[i].resolution,
   policy |-> PolicyOf(changesets[i].site)]

(* Variant: the conflicts are recorded, the changeset's status is not. *)
ConflictsStayPending(i) ==
  /\ Applying(i)
  /\ LET o == Operands(i) IN
       /\ Undecided(o.b, o.h, o.s, o.resolution, o.policy) # {}
       /\ changesets' = [changesets EXCEPT ![i].open = Clashes(o.b, o.h, o.s)]
  /\ job' = [job EXCEPT !.todo = @ \ {i}]
  /\ UNCHANGED <<checkpoints, base, siteVars, wireVars, queue, sweep, adoption, writes,
                 historyVars, count>>

(* Every clash is recorded open, those decided before too. *)
ApplyConflicts(i) ==
  /\ Applying(i)
  /\ LET o == Operands(i) IN
       /\ Undecided(o.b, o.h, o.s, o.resolution, o.policy) # {}
       /\ changesets' = [changesets EXCEPT ![i].status = "conflicted",
                                           ![i].open = Clashes(o.b, o.h, o.s)]
  /\ job' = [job EXCEPT !.todo = @ \ {i}]
  /\ UNCHANGED <<checkpoints, base, siteVars, wireVars, queue, sweep, adoption, writes,
                 historyVars, count>>

(* The merged checkpoint is recorded, in a transaction of its own. *)
ApplyMerges(i) ==
  /\ Applying(i)
  /\ LET o == Operands(i)
         merged == Merged(o.b, o.h, o.s, o.resolution, o.policy)
     IN /\ Undecided(o.b, o.h, o.s, o.resolution, o.policy) = {}
        /\ checkpoints' = Append(checkpoints, [data |-> merged, parent |-> Latest, from |-> i])
        /\ dropped' = dropped \cup LeftOut(o.b, o.h, o.s, merged)
  /\ job' = [job EXCEPT !.at = "commit"]
  /\ UNCHANGED <<changesets, base, siteVars, wireVars, queue, sweep, adoption, writes,
                 disturbed, overtaken, count>>

(* The commit gives Home's row the checkpoint Home has yet to adopt. *)
ApplyCommits(i) ==
  /\ job.at = "commit" /\ IsNext(i)
  /\ changesets' = [changesets EXCEPT ![i].status = "applied"]
  /\ base' = [base EXCEPT ![Home] = Latest]
  /\ job' = [job EXCEPT !.at = "apply", !.todo = @ \ {i}]
  /\ UNCHANGED <<checkpoints, siteVars, wireVars, queue, sweep, adoption, writes,
                 historyVars, count>>

(* A schema, integrity or changeset error blocks the changeset for good. *)
ApplyBlocks(i) ==
  /\ Applying(i) /\ Fault
  /\ changesets' = [changesets EXCEPT ![i].status = "blocked"]
  /\ job' = [job EXCEPT !.todo = @ \ {i}]
  /\ UNCHANGED <<checkpoints, base, siteVars, wireVars, queue, sweep, adoption, writes,
                 historyVars>>

(* Any other error ends the reconciliation where it stands. *)
ApplyThrows ==
  /\ job.at = "apply" /\ Fault
  /\ JobEnds(job.by, FALSE)
  /\ UNCHANGED <<homeVars, siteVars, wireVars, queue, adoption, writes, historyVars>>

(* After the incoming changesets Home's own, then the adoption. *)
ApplyDone ==
  /\ job.at = "apply" /\ job.todo = {}
  /\ IF job.origin # Home /\ ~ job.own
     THEN /\ job' = [job EXCEPT !.own = TRUE, !.todo = PendingOf(Home)]
          /\ UNCHANGED adoption
     ELSE /\ job' = [job EXCEPT !.at = "adopt"]
          /\ adoption' = [adoption EXCEPT !["job"].at = "choose"]
  /\ UNCHANGED <<homeVars, siteVars, wireVars, queue, sweep, writes, historyVars, count>>

-----------------------------------------------------------------------------
(* materializeHomeCheckpoint, by the reconciliation or by the sweep, which *)
(* calls it outside coordinatorTail.                                       *)

Callers == {"job", "sweep"}

AdoptionEnds(p) ==
  /\ adoption' = [adoption EXCEPT ![p] = NoAdoption]
  /\ IF p = "job" THEN JobEnds(job.by, TRUE) ELSE sweep' = NoSweep /\ UNCHANGED job

(* Variant: the marker is written before the restore. *)
MarksFirst(p) ==
  /\ adoption[p].at = "choose"
  /\ IF ConflictsOpen \/ <<Latest, revision[Home]>> \in marker[Home]
     THEN AdoptionEnds(p) /\ UNCHANGED marker
     ELSE /\ adoption' = [adoption EXCEPT ![p] = [at |-> "restore", target |-> Latest]]
          /\ marker' = [marker EXCEPT ![Home] =
                          MarkersBut(Home, Latest) \cup {<<Latest, revision[Home]>>}]
          /\ UNCHANGED <<job, sweep>>
  /\ UNCHANGED <<homeVars, volume, up, restored, revision, wireVars, queue, writes,
                 historyVars, count>>

(* The latest checkpoint, unless a conflict is open or its marker matches; *)
(* the marker goes first.                                                  *)
ChooseCheckpoint(p) ==
  /\ adoption[p].at = "choose"
  /\ IF ConflictsOpen \/ <<Latest, revision[Home]>> \in marker[Home]
     THEN AdoptionEnds(p) /\ UNCHANGED marker
     ELSE /\ adoption' = [adoption EXCEPT ![p] = [at |-> "restore", target |-> Latest]]
          /\ marker' = [marker EXCEPT ![Home] = MarkersBut(Home, Latest)]
          /\ UNCHANGED <<job, sweep>>
  /\ UNCHANGED <<homeVars, volume, up, restored, revision, wireVars, queue, writes,
                 historyVars, count>>

(* The volume is replaced under the running application. *)
RestoreHome(p) ==
  /\ adoption[p].at = "restore"
  /\ Restores(Home, adoption[p].target)
  /\ adoption' = [adoption EXCEPT ![p].at = "mark"]
  /\ disturbed' = (disturbed \/ p = "sweep")
  /\ overtaken' = (overtaken \/ adoption[p].target # Latest)
  /\ UNCHANGED <<homeVars, up, marker, revision, wireVars, queue, job, sweep, writes,
                 dropped, count>>

RestoreHomeFails(p) ==
  /\ adoption[p].at = "restore" /\ Fault
  /\ AdoptionEnds(p)
  /\ UNCHANGED <<homeVars, siteVars, wireVars, queue, writes, historyVars>>

MarkRestored(p) ==
  /\ adoption[p].at = "mark"
  /\ marker' = [marker EXCEPT ![Home] =
                  MarkersBut(Home, adoption[p].target)
                    \cup {<<adoption[p].target, revision[Home]>>}]
  /\ AdoptionEnds(p)
  /\ UNCHANGED <<homeVars, volume, up, restored, revision, wireVars, queue, writes,
                 historyVars, count>>

-----------------------------------------------------------------------------
(* An administrator decides a conflict.                                    *)

Swapped(choice) ==
  CASE choice = "home" -> "suitcase" [] choice = "suitcase" -> "home" [] OTHER -> choice

(* For Home's own changeset the branch is Home's and the two are swapped.  *)
(* The last one makes the changeset pending and asks to reconcile it.      *)
ResolveConflict(i, k, choice) ==
  /\ k \in changesets[i].open
  /\ choice = "keep-both" => k \in Files
  /\ LET stored == IF changesets[i].site = Home THEN Swapped(choice) ELSE choice
         last == changesets[i].open = {k}
     IN /\ changesets' =
             [changesets EXCEPT ![i].open = @ \ {k}, ![i].resolution[k] = stored,
                                ![i].status = IF last THEN "pending" ELSE @]
        /\ queue' = IF last THEN Append(queue, Request(changesets[i].site, "admin")) ELSE queue
  /\ UNCHANGED <<checkpoints, base, siteVars, wireVars, job, sweep, adoption, writes,
                 historyVars, count>>

-----------------------------------------------------------------------------
(* Home's control process ends and starts again; the containers go on.     *)

RestartHome ==
  /\ Fault
  /\ queue' = <<>> /\ job' = NoJob
  /\ adoption' = [p \in Callers |-> NoAdoption]
  /\ sweep' = IF Latest = 0 THEN NoSweep
              ELSE [at |-> "next", todo |-> {site \in Sites : PendingOf(site) # {}}]
  /\ UNCHANGED <<homeVars, siteVars, wireVars, writes, historyVars>>

(* One origin at a time, each awaited. *)
SweepOrigin(site) ==
  /\ sweep.at = "next" /\ site \in sweep.todo
  /\ sweep' = [at |-> "waiting", todo |-> sweep.todo \ {site}]
  /\ queue' = Append(queue, Request(site, "sweep"))
  /\ UNCHANGED <<homeVars, siteVars, wireVars, job, adoption, writes, historyVars, count>>

(* Then Home's adoption. *)
SweepAdopts ==
  /\ sweep.at = "next" /\ sweep.todo = {}
  /\ sweep' = [sweep EXCEPT !.at = "adopt"]
  /\ adoption' = [adoption EXCEPT !["sweep"].at = "choose"]
  /\ UNCHANGED <<homeVars, siteVars, wireVars, queue, job, writes, historyVars, count>>

-----------------------------------------------------------------------------
Adopts(p) == ChooseCheckpoint(p) \/ RestoreHome(p) \/ MarkRestored(p)

Reconciles ==
  \/ StartJob \/ CaptureHome \/ ApplyDone \/ Adopts("job")
  \/ \E i \in DOMAIN changesets : ApplyConflicts(i) \/ ApplyMerges(i) \/ ApplyCommits(i)

Sweeps == SweepAdopts \/ Adopts("sweep") \/ \E site \in Sites : SweepOrigin(site)

Fails ==
  \/ CaptureHomeFails \/ ApplyThrows \/ RestartHome
  \/ \E i \in DOMAIN changesets : ApplyBlocks(i)
  \/ \E p \in Callers : RestoreHomeFails(p)
  \/ \E s \in Suitcases : CaptureUnrestored(s) \/ MaterialiseCut(s)

DataNext ==
  \/ Reconciles \/ Sweeps \/ Fails
  \/ \E site \in Sites : Revise(site) \/ \E k \in Keys : Write(site, k)
  \/ \E s \in Suitcases :
       \/ SelectReplica(s) \/ ProjectSelection(s) \/ CaptureSuitcaseBranch(s)
       \/ MaterialiseReplica(s) \/ Exchange(s) \/ SupervisorStarts(s)
  \/ \E i \in DOMAIN changesets, k \in Keys, choice \in Resolutions \ {"none"} :
       ResolveConflict(i, k, choice)

DataSpec == DataInit /\ [][DataNext]_dataVars

(* The coordinator's promises run on, and a suitcase's sync loop passes    *)
(* again and again.                                                        *)
DataFairness ==
  /\ WF_dataVars(Reconciles) /\ WF_dataVars(Sweeps)
  /\ \A s \in Suitcases :
       /\ WF_dataVars(ProjectSelection(s))
       /\ WF_dataVars(CaptureSuitcaseBranch(s))
       /\ WF_dataVars(MaterialiseReplica(s))
       /\ WF_dataVars(Exchange(s))

FairDataSpec == DataSpec /\ DataFairness

-----------------------------------------------------------------------------
(* Properties.                                                             *)

(* A write is still somewhere: in the latest checkpoint, a volume or a     *)
(* branch that is not merged yet; or somebody decided against it.          *)
Kept(w) ==
  \/ w \in dropped
  \/ Latest # 0 /\ Within(w, checkpoints[Latest].data)
  \/ \E site \in Sites : Within(w, volume[site])
  \/ \E i \in DOMAIN changesets :
       changesets[i].status # "applied" /\ Within(w, changesets[i].data)
  \/ \E s \in Suitcases : ~ branch[s].sent /\ Within(w, branch[s].data)

NoWriteLost == \A w \in 0..writes : Kept(w)

(* No write is lost as long as the protocol is left alone: Home does not   *)
(* write between its capture and the adoption, it adopts what its row      *)
(* names before its next capture, no site gets a new revision or a second  *)
(* selection, a suitcase's restore is complete before its first capture,   *)
(* and no start of Home restores a checkpoint.                             *)
KeptWhenUndisturbed == ~ disturbed => NoWriteLost

(* A checkpoint keeps every write of the one before it unless a resolution *)
(* decided otherwise, when the branch merged had adopted its own base: a   *)
(* changeset applied again after a crash, or against a base long replaced, *)
(* takes nothing back.                                                     *)
LineageKeeps ==
  \A i \in DOMAIN checkpoints :
    checkpoints[i].from # 0 /\ Grounded(changesets[checkpoints[i].from]) =>
      \A w \in 0..writes :
        Within(w, checkpoints[checkpoints[i].parent].data) =>
          Within(w, checkpoints[i].data) \/ w \in dropped

(* The rows that Home keeps are typed, and its checkpoints one lineage.    *)
CheckpointsSound == DataTypeOK /\ LineageKeeps

(* A marker tells the truth: the volume of a site that has one for its     *)
(* current checkpoint holds that checkpoint, so leaving it alone is right. *)
MarkerTellsTruth ==
  ~ overtaken =>
    \A site \in Sites : \A m \in marker[site] :
      m[1] = (IF site = Home THEN Latest ELSE base[site]) =>
        \A w \in 0..writes :
          Within(w, checkpoints[m[1]].data) => Within(w, volume[site])

(* A changeset a suitcase sent is merged or found in conflict, through     *)
(* crashes and failures of the reconciliations that take it up.            *)
ChangesetsSettle ==
  \A s \in Suitcases : PendingOf(s) # {} ~> PendingOf(s) = {}
=============================================================================
