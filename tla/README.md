# deploy.local in TLA+

deploy.local is a self-hosted deployment platform. A *Home* server takes
uploads, builds and runs applications behind its own TLS edge; *suitcases* are
portable copies of it that keep chosen applications and their data, work away
from Home and synchronise when they can reach it. This directory holds TLA+
models of the parts of it where order, loss, crashes and concurrency decide
correctness, TLC configurations for small instances, and proofs of their
invariants for all instances.

Contents: [1 the system](#1-the-system) · [2 the modules](#2-the-modules) ·
[3 the runs](#3-the-runs) · [4 fairness](#4-fairness) ·
[5 findings](#5-findings) · [6 proofs](#6-proofs) ·
[7 limits](#7-what-is-not-covered) · [8 plan](#8-plan)

## 1 The system

All paths are below `src/`. Everything in one node process is single threaded:
code between two `await`s is atomic, SQLite transactions are synchronous.
Interleavings come from `await`, from separate processes (control, edge, sync
worker, `docker exec` commands) and from several sites.

| Component | State it keeps | Operations | Talks to |
|---|---|---|---|
| Deploy admission `server/deploy-admission.ts` | waiting queue, active applications (memory) | acquire, release, cancel, dispatch | API routes, graph supervisor |
| Fleet event exchange `server/suitcase-transport.ts`, `lib/suitcase-sync-client.ts`, `server/suitcase-runtime.ts`, `suitcase-local-outbox.ts`, `suitcase-projector.ts`, `multisite.ts` | event logs (SQLite of every site), membership file with outbox, inbox, cursors (suitcase), content (Home) | write, request, set policy, capture, exchange, upload, project, acknowledge | HTTP between suitcase and Home |
| Suitcase core container `lib/suitcase-sync-loop.ts`, `server/suitcase-control-main.ts`, `suitcase-bootstrap.ts`, entrypoint | membership file, its lock file, failure count of the worker | sync pass, dock, mark away, queue a candidate, restart | local SQLite, exchange |
| Fleet mutations `server/fleet-mutation-guard.ts`, `fleet-replicas.ts` | requests and acknowledgements as fleet events, selected replicas | inspect gate, request, acknowledge, mutate | exchange (control lane) |
| Revision admission `server/api.ts`, `application-revision.ts`, `store.ts` | desired and active revision of an application | upload, save, activate, delete, migrate | admission, executor |
| Application reconciler and executor `server/application-*.ts`, `graph-*.ts` | instances, admitted endpoints, jobs | plan actions, apply them, converge, report | Docker, agents, edge |
| Data policy `server/data-policy-transitions.ts` and worker | policy per application and site, pending transitions | request, prepare, complete, block | exchange, data |
| Manual sync `server/manual-data-sync.ts` | requests and terminal events | request, consume, record | exchange, data |
| Data merge `server/data-reconciliation.ts`, `reconciliation-coordinator.ts` | checkpoints, changesets, conflicts | capture, apply, conflict, resolve, materialise | content store |
| Volumes `server/volume*.ts` | writer, attachments, deltas | attach, transfer, commit | Docker, content store |
| Content store `server/content-store.ts` | blobs by digest, transfers with a cursor | begin, append chunk, complete, pin | exchange |
| Edge `server/edge/*`, `ipc.ts` | route table, response cache, hint queue | route, proxy, purge, reload | control process, containers |
| Supervisor `server/supervisor.ts` | children, backoff | start, restart, shut down | control and edge processes |
| Recovery `server/recovery-*.ts`, `offline-auth.ts`, `site-identity.ts` | bundles, credentials, quarantine | create, verify, restore, re-adopt, rotate | exchange |
| Suitcase target `lib/suitcase-target.ts` | release slots A and B, compose files | update, activate, restore, roll back | Docker |
| Catalog, metrics, mDNS, CLI, dashboard, scripts | see `PROJECT.json` | | |

How they interact. An upload acquires a *deploy lease*, stores a revision, and
lets the graph executor converge; the graph supervisor repeats that under a
lease of its own. Each change that other sites must hear of becomes a *fleet
event* with the number its origin gives it. A suitcase's worker runs a *pass*:
it captures data the policy admits, copies its own new events into the outbox,
exchanges batches, uploads the content Home misses, projects what it received
and acknowledges requests. Control commands of the user run as processes of
their own beside the worker and share the membership file with it.

What makes it hard, and what would make it correct:

- **Admission.** Callers arrive, hang up, release twice and cancel. Leases
  exclude per application and never exceed the limit; nobody starves; no slot
  idles.
- **Exchange.** An answer is lost after Home has acted; a request of a crashed
  client arrives late; a batch waits for content; data is deferred by policy
  while other origins go on; the client crashes between any two of its writes.
  Nothing is lost, reordered, projected twice or acknowledged too early, and
  what is not held back arrives.
- **Core container.** Two processes write one file; the lock file survives its
  owner; process numbers repeat in a restarted container; Home comes and goes.
  No event and no queued candidate is lost, passes continue after a crash, and
  the recorded mode follows the reachability of Home.
- **Fleet mutations.** A mutation runs only if every replica selected *now* has
  acknowledged *this* mutation since it was selected; an obstacle on one
  application must not keep the gate of another shut.
- **Revisions.** State read before an `await` is used after it; some writers take
  the application's lease and some do not; a lease can end before the work does.
  No edit is lost, one build at a time, no status without a worker behind it.
- **Executor.** Docker calls fail between any two steps, the process dies, a
  failed converge undoes what it did. One writer, no traffic before its job, no
  container out of live traffic, nothing left over.
- **Data and volumes.** Two sites change one application's data and a third party
  resolves conflicts. Merges are computed from one checkpoint and adopted on
  another; the authority over an opaque volume moves while events, workers and
  crashes interleave. No write disappears; one line of snapshots; every handoff
  ends the same way at both sites.
- **Edge.** Rows change in one process and are routed in another; hints get lost,
  queues fill, either side restarts. The table catches up, purged responses are
  gone, what hangs off a route goes with it.
- **Recovery, target.** A restored Home never reuses numbers suitcases have
  seen; the recorded active slot is the one that runs.

`PROJECT.json` lists every component with its status, and every hazard at its
line with the properties that cover it, or the module that is to cover it.

## 2 The modules

| Module | What it is | Uses |
|---|---|---|
| `DeployAdmission` | the admission queue | – |
| `RevisionAdmission` | the handlers that change the revision of one application, around one lease of that queue | – |
| `GraphExecutor` | one converge at a time: containers of a release, health gates, job, traffic, undo | – |
| `EdgeRouting` | rows, hints, route table, response cache, requests | – |
| `EventUplink` | abstract promise: written ≥ durable ≥ released, each a mark that only moves forward | – |
| `FleetSync` | Home, suitcases and the network between them | refines `EventUplink` |
| `SuitcaseCore` | worker, commands, lock, membership file | – |
| `FleetMutation` | selected replicas, requests and the gate, over the order `FleetSync` gives | – |
| `DataLineage` | captures, changesets, merges, checkpoints, restores | – |
| `VolumeAuthority` | writer of an opaque volume, its snapshots, the handoff | – |
| `AdmissionProofs` | theorems (section 6) | `DeployAdmission` and `RevisionAdmission`, each on its own |
| `EdgeAndCoreProofs` | theorems (section 6) | `EdgeRouting` and `SuitcaseCore`, each on its own |
| `GraphExecutorProofs`, `FleetSyncProofs`, `FleetMutationProofs`, `DataLineageProofs`, `VolumeAuthorityProofs` | theorems (section 6) | the module each is named after |
| `VolumeEventsProofs` | the order of events (section 6) | `VolumeAuthority`, on `VolumeAuthorityProofs` |
| `MC…` | the constants of an instance for TLC | the module they name |

The modules meet where one states what another may assume. `RevisionAdmission`
takes from `DeployAdmission` that an application has one lease and that waiters
get it in order. `GraphExecutor` takes from `RevisionAdmission` that converges of
an application do not overlap (`BuildsAlone`, where it holds). `FleetMutation`,
`DataLineage` and `VolumeAuthority` take from `FleetSync` that the events of a site
arrive once and in order (`HomeHoldsPrefix`, `ProjectedOnceInOrder`), and model a
channel as a sequence or as marks into the sender's log.

Definitions whose comment begins with *Variant* or *A variant* are never used by
a specification. They are faulty forms of the definition after them (a dropped
guard, a missing reset, a swapped order), kept to show that the properties notice
the fault: `PROJECT.json` pairs each property of a passing run with the variant
that violates it.

### DeployAdmission

`status[r]` follows a request from idle to queued, leased and released or
cancelled; `ahead[r]` is the set of requests in front of it, which is the order
of the array without its indices; `active` is `activeApps`. `dispatch()` is
called at the end of `acquireDeploySlot`, `release` and `cancelQueuedDeploy` and
is part of those actions: `DispatchFrom` lets exactly the requests go that the
loop would (a waiter whose application is free, the frontmost per application,
as far as the limit allows, front first), without recursion so that it can be
proved about. `ReleaseAgain` is a second `release()` of a lease.

### RevisionAdmission

`row` is the deployment (status, desired and active digest), `revisions` and
`transitions` are the tables of those names, `runtime` is the spec the instances
run. `caller[c]` is where a handler stands and what it read before its last
`await`: every handler is cut there and nowhere else.

| Actions | Code |
|---|---|
| `Upload…`, `ClientHangsUp` | the deploy route of `api.ts`: staged, admitted, committed, converged or failed; a hang-up gives the lease back while the build goes on |
| `Edit…`, `Scale…` | manifest edit and component scale: compare-and-set on the digest shown, no lease |
| `Apply…`, `Recreate…` | the routes of those names, under the lease |
| `Delete…` | deletion with its purge; no lease |
| `Supervise…` | `application-graph-supervisor.ts`, with its `onError` after the release |
| `Crash`, `Boot…` | the control process ends; `lifecycle.ts` and the start |

`SuperviseOnError` and `Admitted` are the continuations of promises settled
already: they run before any other step, as microtasks do. `disturbed` is a
history variable: something without a lease interfered, or a lease was lost to a
hang-up. `Forget`, the one action without code behind it, starts the history
afresh when everything is at rest, so that properties of undisturbed histories
are also checked after a disturbance.

### GraphExecutor

`inst` is `component_instances` with the state of each container, `published` the
endpoints of the current generation, `job` the before-traffic job of each
release, `exec` the converge with its local sets (`created`, `stopped`,
`selected`). One action per awaited call: `StopsStale`, `Candidate…` (an existing
instance is asked and kept, or not), `Creates`, `CreatedHealthy`,
`CreatedUnhealthy`, `Job…`, `Publishes`, `Retires`, `Removes`, `Completes`; `Throws`
goes to the undo (`UndoCreated`, `UndoStopped`, `Rethrows`). `Crashes` drops the
converge at any of them, `Dies` ends a container, `Begins` starts any release
again (deploy, rollback, supervisor, start).

### EdgeRouting

Control side: `db` with the published service, `built` and `live` releases. Link:
per client `link`, the capped queue `pending`, and `wire`, the bytes the edge has
not read. Edge: `table`, `pool` of ready endpoints, `served` and `announced` (TCP
proxies and mDNS hosts), `cache`, `request`.

| Actions | Code |
|---|---|
| `StartsRelease`, `Publishes`, `StopsOld`, `Deletes`, `Notifies` | row first, hint after it: `store.ts`, `api.ts` |
| `Connects`, `NoticesClose` | `EdgeIpcClient`: hello on connect, queue with its cap, redial |
| `Receives` | handlers of `edge/index.ts`; `Rereads` is `reloadAll` and `reconcile` of `edge/routes.ts` with their side effects |
| `Arrives`, `Answers`, `Fails`, `Retries`, `Stores`, `Ends`, `Expires` | `edge/proxy.ts` and `edge/response-cache.ts` |
| `ControlCrashes`, `ControlCrashesAtPublish`, `EdgeCrashes`, `EdgeBoots` | either process ends at any point, also between row and hint |

### FleetSync

State at Home: `rows` (table `fleet_events` in the order Home walks it),
`artifacts`, `homePolicy`. At a suitcase: `db` and `applied` (SQLite), `policy`,
and the membership file (`outbox`, `inbox`, `cursor`, `acked`, `projected`,
`queuedArtifacts`). `pass` says where the sync pass stands; `wire` is the
exchange in flight and `stale` the requests whose client has gone. `excluded`
is a history variable: what the policy has withheld for good from a suitcase.

| Action | Code |
|---|---|
| `HomeWrites`, `HomeRequests`, `HomeSetsPolicy` | `appendLocalFleetEvent` and its callers |
| `LocalWrites`, `Captures` | local events, the capture before a pass |
| `BeginPass`, `SendExchange`, `ReceiveAnswer`, `ReceiveFailure` | `syncSuitcaseRuntimeNow`, `syncSuitcaseNow` |
| `HomeExchange`, `LateExchange` | `exchangeSuitcaseEvents`: policy check, content, `ingestEvents`, `outgoingEvents`, control lane |
| `UploadStore`, `UploadForget` | upload of one piece of content, its removal from the queue |
| `Project`, `MarkProjected` | one projection in SQLite, then its note in the file |
| `Acknowledge`, `FinishPass` | answers to fleet mutation requests, end of the pass |
| `Interrupted` | crash of the process, loss of a message |

An event is a record of origin, number, kind and what properties tell apart;
payloads and signatures are left out. Events whose `created_at` is equal come in
the order of random ids: with `SameInstant`, Home may insert a row before the
last one. The reports of telemetry and downloads of content are left out.

### SuitcaseCore

`lock` is the lock file (whether it names its owner yet, and whom), `file` the
membership file or `Torn` in the middle of a write, `log` the local events,
`home` what Home holds of this suitcase, `proc[p]` a process with its program
counter, its pid and the copy of the file it has read. The steps `Open`,
`RemoveStale`, `NameOwner`, `Enqueue`, `Load`, `Exchange`, `Truncate`, `Write`
and `Release` are the file operations between which another process can act:
these are separate processes, so even synchronous code interleaves. The worker's
`dock` and `mark` go from `Load` to `Write` without the lock, as
`setSuitcaseMode` and `setSuitcaseLocalMode` do. `Turn` is the head of the
worker's loop, `Crash`, `Restart`, `Flip` the environment. The exchange is one
step that either takes the whole outbox or fails; `FleetSync` has what happens
inside it.

`OutboxFollowsAck` is about histories without candidates (`HasCandidate`): the
worker's unlocked save can write back a copy that is older than a candidate queued
meanwhile, and the file then offers the candidate's number again.

### FleetMutation

At Home `replica[a][s]` is the row of `app_replicas` (active, and the token of its
last selection), `requests` the fleet mutation requests with the tokens they were
made for. A suitcase has `local` replicas, `known` requests, its `log` of data and
acknowledgements, and two marks into it: `queued` (in the outbox) and `received`
(at Home). `GateReady` is `buildGate` of `fleet-mutation-guard.ts`, `CurrentRequest` the latest
request whose targets and tokens are those of now. `PrepareMutation` asks when the
gate is shut and no current request exists; `Passes` are the three steps of a
suitcase's sync pass (exchange, answer, flush of the answer); `Administers` selects,
removes, moves to another policy, or is cut off by a crash between the row and
its event. `agreed` and `cut` are history.

### DataLineage

A content is the set of writes it builds on, so losing a write and reviving an
overwritten one can be told apart without any bytes. `checkpoints`, `changesets`
and `base` are Home's tables; `volume`, `marker`, `restored` and `branch` belong to
a site; `queue` and `job` are the promise chain `coordinatorTail`, `sweep` is
`reconcileAllAutomaticChangesets`, `adoption` is `materializeHomeCheckpoint` as
either of them calls it. What a reconciliation still has to apply is the set
`job.todo` of changeset numbers, of which `IsNext` takes the oldest.

| Actions | Code |
|---|---|
| `SelectReplica`, `ProjectSelection` | `fleet-replicas.ts`, `suitcase-projector.ts`, with the base checkpoint |
| `CaptureSuitcaseBranch`, `MaterialiseReplica`, `Exchange` | the materializer before and after a pass, the changeset on its way |
| `StartJob`, `CaptureHome`, `Apply…` | `reconciliation-coordinator.ts`, `data-reconciliation.ts`: capture of Home, merge, conflicts, checkpoint and, as a second step, the changeset's status |
| `ChooseCheckpoint`, `RestoreHome`, `MarkRestored` | `suitcase-data-bridge.ts`: adoption and its marker file |
| `ResolveConflict` | `resolveDataConflict`: both choices and keep-both |
| `Fails` | crash of Home, a failing capture, merge or restore; `MaterialiseCut`, `CaptureUnrestored` at the suitcase |

### VolumeAuthority

Every site has rows of its own: `known` snapshots, `row` per handoff, `writer`.
`job[w]` is what a worker awaits (a capture or a restore); workers at Home run
beside each other. `outgoing` and `incoming` are the event streams, `Accepts` says
when a projection throws. `TakeUp`, `BeginCapture`, `RecordSnapshot`,
`SnapshotReady`, `AcceptSnapshot`, `BeginRestore`, `RestoreVolume`, `TargetReady`,
`CommitTransfer`, `ResumeSource`, `CaptureFails`, `RestoreFails`, `AbortTransfer`
and `EnsureEvent` are the steps of `volume-sync.ts` in the order of its list;
`ScheduledCapture` and `Materialise` are those of the materializer. A step takes an
outcome: done, or the crash between the row and its event where the code has two
transactions.

## 3 The runs

`tlc -workers 2 -config <cfg> <module>`; sizes are distinct states.

| Run (cfg) | Instance | States | Shows |
|---|---|---|---|
| admission (`MCDeployAdmission`) | 5 requests, 3 applications, 2 users, 2 slots | 1,109 | `LeasesSound`, `WorkConserving`; `FifoPerApp`; `EveryWaiterServed` |
| fleet (`MCFleetSync`) | 1 suitcase, batches of 2, 2 events per origin, 1 fault, all kinds, policy changes | 525,834 | `HomeHoldsPrefix`, `CursorLosesNothing`, `ProjectionFollowsLogs`, `ArtifactsAvailable`, `AnswersAreAccepted`; refinement of `EventUplink` |
| fleet_live (`MCFleetSyncLive`) | batches of 1, manual data, requests, 1 fault | 82,681 | `HomeEventsArrive`, `RequestsAnswered`, fair refinement of `EventUplink` |
| core (`MCSuitcaseCore`) | worker and 1 command slot, 2 commands, 3 changes of reachability, no crash | 397,191 | `CoreSound`; `LogReachesHome`, `ModeFollowsHome` |
| core_crash (`MCSuitcaseCoreCrash`) | also candidates, 1 crash anywhere, also inside a write, pids repeat | 5,475,855 | `OutboxFollowsAck` |
| mutation (`MCFleetMutation`) | 2 applications, 2 suitcases, 2 tokens, 2 requests, 1 data event, 1 fault | 600,246 | `EveryReplicaAgreed`, `RequestsSound`; `GateOpens` |
| revisions (`MCRevisionAdmission`) | 2 callers, 2 digests, 3 transitions, 1 crash | 1,046,851 | `RevisionsSound`, `BuildsUndisturbed`, `StatusIsSomeones`; `NoLostEdit` |
| executor (`MCGraphExecutor`) | a database of one writer and a web component, 2 releases, 3 instances, 1 fault | 1,208,224 | `WritersSound`, `TrafficSound`; `CompletesClean`; `ConvergeEnds` |
| edge (`MCEdgeRouting`) | 1 application, 2 releases, 1 service, 2 clients, queue of 1, 1 request with 1 retry, 2 faults | 760,739 | `RoutesSound`, `StaleRouteIsNoticed`, `OldResponseIsPurged`; `RoutesConverge` |
| data (`MCDataLineage`) | 1 suitcase, 2 files, 2 writes, 2 selections, 1 fault | 504,193 | `CheckpointsSound`, `KeptWhenUndisturbed`, `MarkerTellsTruth`; `ChangesetsSettle` |
| data_lost (`MCDataLineageLost`) | the same without faults | small | violates `NoWriteLost` (section 5) |
| volume (`MCVolumeAuthority`) | Home with two workers and a suitcase with one, 2 handoffs, 1 snapshot, 1 write, 1 setback | 328,304 | `AuthoritySound`, `EventsAccepted`, `KeptUnlessUndone`; `TransfersSettle` |

A property whose name ends in *Sound* is a conjunction of named parts: the type
invariant of the module and the relations between its variables that hold
whatever else happens. The parts stand before it, each with its own comment.

Bounds, and why the interesting cases fit in them:

- *Admission.* Five requests: two of one user and one of another for one
  application, and one each for two more, so that a cancellation has to choose the
  first, waiters overtake and a repeated release finds a successor. Three
  applications on two slots make both reasons to wait occur.
- *Fleet.* `MaxSeq` bounds events per origin; two suffice for a batch that must
  be split, a gap, an event that waits behind another, and a conflict of order.
  `BatchLimit` 2 stands for the 200 of the code, 1 forces `more` and repeated
  rounds. `MaxFaults` counts losses and crashes together: one at any point,
  including a request that arrives after its client has restarted. `HomeHoldsPrefix`
  and the refinement are proved without these bounds (section 6).
- *Core.* `AwayAfter` 2 stands for the threshold of the loop, so that one failure
  is not enough. Two commands: the second meets what the first left behind.
  `MaxFlips` 3 lets Home go, come back and go again. Crashes and the torn file are
  in `core_crash` only: with them liveness fails (section 5).
- *Mutation.* Two tokens are two selections of one replica, a selection and a
  change of its policy, or two replicas; two requests meet both the repeated
  mutation and one for changed targets; the data event makes a suitcase hold
  data of an application it no longer has while the other one still needs it.
- *Revisions.* Two callers are every pair of handlers in every interleaving; a
  caller that ends may begin another. Two digests tell an edit from what it was
  based on, three transitions let an edit be replaced and come back. Callers and
  digests are interchangeable, hence the symmetry; the one temporal property is a
  property of steps, for which the symmetry is sound.
- *Executor.* Three instances: two of the replaced component and one more, so a
  retry finds what an abandoned converge left; one fault is a crash of the
  process or a container that exits. Failing health gates, jobs and calls of
  Docker are not counted against it.
- *Edge.* A queue of one message and two clients are enough to drop a hint that
  matters while another client is connected; two faults are both processes once
  or one of them twice. The second release is what a stale route differs in.
- *Data.* Two writes collide on one file or touch both; two selections are a base
  and a later one; the fault falls at any step. Two file keys allow keep-both
  copies.
- *Volume.* Two handoffs are there and back, and the abort of one before the
  next. Two workers at Home are two requests that take up the same row. The one
  setback is an abort, a crash (also between a row and its event) or a failing
  capture or restore.

Deadlock checking is off except for admission: the bounds on events, tokens,
writes, instances and faults let the others come to rest. In the admission queue a
released lease may be released again for ever, so the check stays on.

*Excepted histories.* Where the code does not keep a property in all histories the
model keeps the faulty step and a history variable says that it was taken:
`disturbed` (revisions, data), `overtaken` (data), `torn` and `undone` (volume),
`leftBehind` and `torn` (executor), `cut` (mutation), `overtaken` (a cached
response). The property is then about all other histories, and section 5 says what
happens in these.

## 4 Fairness

- `FairAdmissionSpec`: a lease that is out is released. Every caller releases in
  `finally` or on the end of the response. Nothing is assumed of arrivals or
  cancellations.
- `FairFleetSpec`: a pass that has begun takes its steps, and background passes
  begin again and again: `runSuitcaseSyncLoop` is an endless loop with bounded
  waits. Manual passes, events, policy changes and faults are never forced. Weak
  fairness is enough because a step of a pass stays enabled until it is taken.
- `FairCoreSpec`: each process runs, the worker begins its next turn, Docker
  restarts the container (`restart: unless-stopped`). Commands, crashes and the
  network are free; properties that need Home say `[]reachable`.
- `FairMutationSpec`: the same loop, per suitcase. Selections, removals, requests
  and data are free.
- `FairGraphSpec`: a converge goes on. Docker's calls return or throw, health
  gates have deadlines, and a before-traffic job is assumed to end (the code has
  no time-out of its own for it).
- `FairEdgeSpec`: the supervisor starts the edge, clients redial every second,
  a closed socket is noticed and a message that arrived is handled. Requests,
  deploys and expiry are free.
- `FairDataSpec`: the promise chain of the coordinator and the sweep at its start
  run on; the passes of a suitcase project, capture, exchange and materialise.
  Writes, resolutions, selections and failures are free.
- `FairAuthoritySpec`: each worker comes round again and one of its steps
  succeeds in the end; events keep arriving. Aborts, failures and the supervisor
  are free.
- `RevisionSpec` assumes none: its properties are about safety.

## 5 Findings

**Home's own writes can be lost** (run `data_lost`). Home's containers are recorded
under the node id `coordinator`, while the data bridge asks the executor to stop
those of the fleet's Home site. It finds none, so the application goes on writing
between Home's capture and the adoption of the merged checkpoint, which overwrites
the volume (`server/suitcase-data-bridge.ts:375`, against its comment at line 377
and `docs/plans/suitcase.md:3890`).

The following were met while modelling and are described by the models, each as a
step of its module and, where a property would be violated, as an excepted history.
No run of its own checks them again.

*Exchange and mutations*

- Home checks the data policy of every event of a batch and throws before it
  answers (`suitcase-transport.ts:698`, `737`). One data event it does not admit
  keeps the suitcase from every later exchange: after a manual pass that was cut
  short, after a change of policy, or after the suitcase was removed from the
  application whose data it still holds. It then never hears of the removal, and
  the gates of its other applications stay shut; `docs/plans/suitcase.md:958`
  speaks of a quarantined branch. `GateOpens` excepts a wedged suitcase.
- Rows of one `created_at` are walked in the order of random ids
  (`suitcase-transport.ts:849`): the later row can be sent while the earlier one,
  manual, is deferred, and the suitcase rejects the answer as a gap.
- A selection made in three transactions and cut off by a crash keeps the token of
  the one before, so its old acknowledgement opens the gate
  (`fleet-replicas.ts:342`; `fleet-mutation-guard.ts:147` says that a newly
  selected replica "requires a new request"). Of a request made again after a
  replica came and went, the remaining targets must acknowledge anew, though their
  acknowledgements are said to stay valid (`fleet-mutation-guard.ts:145`).
- The fingerprint of a deletion is a constant and its acknowledgement never
  expires (`fleet-mutation-guard.ts:411`); the gate is a check of one moment, and
  a replica may be selected while the deletion that follows awaits the executor
  (`api.ts:5068`).

*Core container*

- A command that waits for Home saves its older copy of the file after the worker
  marked the suitcase away; the failure counter is past its threshold and the
  suitcase stays docked. `AwayWhenUndisturbed` is what holds without commands.
- The worker docks without the lock and overwrites the file, with a candidate that
  was queued meanwhile.
- Candidates take their numbers from the file, events from SQLite: the log stops at
  the first number given twice (`suitcase-sync-client.ts:696`).
- After a crash an empty lock file is busy for ever, the pid in it may belong to
  another process of the restarted container, and two processes may both remove
  one stale lock and enter (`suitcase-sync-client.ts:230`, `238`).

*Revisions*

- An upload's base is compared with a row read before it queued (`api.ts:2010`):
  the upload replaces a revision saved meanwhile.
- The lease of an upload whose client hangs up is released while its build goes on
  (`api.ts:2206`); scale takes no lease (`api.ts:4648`).
- Apply compares its body with a row read before the body (`api.ts:3768`), and on
  failure restores whatever status it found, that of a running build included
  (`api.ts:4018`).
- The supervisor writes back the row of an application deleted meanwhile, bare
  (`application-graph-supervisor.ts:126`). A failed start leaves `starting`, a crash
  `recreating`, which nothing takes up (`lifecycle.ts:114`).

*Edge and executor*

- A response under way during a purge is stored after it (`edge/proxy.ts:337`).
- The IPC server swallows an exception of a handler with the line it skips
  (`ipc.ts:68`): that hint is lost on a live connection.
- An undo after publication removes instances that get traffic
  (`application-graph-executor.ts:448`); a container that did not stop and the next
  one of its release write to a single-writer volume at once (`1542`;
  `graph-docker-adapter.ts:253` swallows the error of stop and remove).
- After a crash a job recorded as running is taken for done
  (`application-jobs.ts:79`); a job has no time-out.

*Data*

- A suitcase captures nothing while the row of its earlier changeset is pending,
  and nothing ends that row at the suitcase: its first capture is its last
  (`suitcase-data-bridge.ts:304`; `docs/plans/suitcase.md:3482`).
- Home's row names the merged checkpoint before Home adopted it, so a failed
  adoption followed by a capture reads as a revert of the suitcase's change.
- A suitcase that only uploads may be captured before its base was restored: its
  branch says that all was deleted (`651`). A new revision or selection restores
  the base over what the suitcase wrote since.
- The sweep restores a checkpoint beside a reconciliation and without a capture
  (`reconciliation-coordinator.ts:334`); a changeset of Home itself waits for the
  next incoming one (`267`).

*Volumes*

- The materializer restores the latest recovery snapshot over the live volume of
  the writer that made it (`suitcase-application-materializer.ts:499`): writes since
  then are gone. `KeptUnlessUndone` excepts it.
- A pass at Home that still restores for a handoff aborted meanwhile, without a lock
  (`application-graph-executor.ts:1358`), may do so after another pass restored the
  next handoff to Home and found it healthy: Home then commits, and its volume is
  the older one. It takes three handoffs, so the run cannot meet it; the history
  `undone` counts it (`Overtaken`).
- A handoff takes a snapshot that an aborted handoff or the schedule left for its
  own (`volume-sync.ts:1034`).
- A crash between a row and its event leaves an event unsent for ever (`269`,
  `1229`) or makes it be sent twice (`1014`), and its projection then throws and
  blocks the stream behind it.
- `deploy suitcase sync` runs a pass of its own beside the loop of the container
  (`suitcase-control-main.ts:24`, `suitcase-runtime.ts:183`), and the membership lock
  does not cover it. Both passes may capture for one handoff: the capture refused
  (`volume-sync.ts:1083`) fails the row and resumes the source (`1220`) after the
  other pass announced its snapshot. Home commits, and the source goes on as a writer
  without an open handoff, against "exactly one current writer" (`README.md:423`).
  TLC finds all three safety properties of the run `volume` violated when
  `WorkerSite` gives the suitcase two workers. The run has one, and the theorems of
  section 6 say so as `OnePass`.
- Rows of old handoffs act in each pass (`571`, `629`), the supervisor starts a
  source that a handoff keeps stopped (`application-graph-supervisor.ts:102`), and
  Home's graph is never stopped, for the reason of the finding above: at most one
  *authority* holds, one running writer (`README.md:423`) does not.

## 6 Proofs

`tlapm <module>.tla` for each of the eight modules whose name ends in *Proofs*. The
theorems are about every value of the constants. The only assumptions are the named
`ASSUME`s of the modules: finite sets where something is counted (requests,
suitcases, applications, process numbers), bounds that are numbers, positive limits,
an application that has some data, special values (`Home`, `NoCaller`, `NoService`,
`NoRelease`) outside the sets they are told apart from, an order of components without
repetition. Four theorems have a hypothesis of their own, named below.

**Admission** (`LeasesAreSound`, from `AdmissionTypeCorrect`, `LeasesExclude` and
`LeasesWithinLimit`; `NoIdleSlot`; `WaitersStayInOrder`). `AdmissionInv` joins types,
`ActiveIsHeld`, exclusion, the limit on `active` and work conservation. Exclusion
is not inductive alone: a release deletes a *name* from `active`, which is
right only because `active` is exactly the names of the leases. `DispatchSound`
proves once that `dispatch()` re-establishes everything from any queue whose
leases exclude each other, and acquire, release and cancel cite it. `WithinLimit`
counts leases while the code counts names; exclusion makes the two counts equal. The
order of the queue (`WaitersStayInOrder`) needs that no request stands ahead of
itself, and work conservation again: a cancellation ends in a dispatch too, and only
because it frees no slot does the waiter behind the cancelled one stay where it is.

**Fleet** (`FleetInvariant`, `FleetTypeCorrect`, `HomeHoldsAPrefix`,
`AcknowledgedIsDurable`, `UplinkImplemented`). `HomeHoldsPrefix` is not inductive:
a late request could carry anything. `FleetInv` adds where data in transit comes
from:

- `LogInv`: each local log is numbered 1, 2, … without gaps.
- `RowsInv`: the same of each origin at Home, and rows of a suitcase are rows of
  its log.
- `FileInv`: outboxes hold events of the own log; the acknowledgement is not
  beyond Home's copy.
- `NetInv`: requests on the wire, late ones too, carry events of the sender's log;
  answers report no more than Home holds.

One lemma per action of `FleetNext` keeps the four parts. With it each
step is shown to be a `Write`, `Accept` or `Release` of `EventUplink`, or to
leave its marks alone, for any number of suitcases, events, faults and any batch
limit. This rests on a lemma (`LastSeqIs`) that the last number of a gapless origin
is the size of its numbering.

**Delivery** (`CursorsLoseNothing`, `ProjectionsFollowLogs`, `RequestedContentIsThere`,
`AnswersAccepted`, on top of `FleetInv`). Three invariants:

- `DeliveryInv`: an answer skips only what the policy excludes or what is addressed
  to others (`AnswerOK`), so a cursor that moves past a row leaves nothing behind
  (`CursorOK`); the inbox is in order except for requests, which may run ahead of
  the cursor (`InboxOK`); what has been applied is a beginning of the inbox, and what
  the file notes of it is all or all but the last (`ProjectionOK`), which is what a
  crash between the two leaves; policies, at Home and projected, are those of the
  last event about them (`PolicyOK`).
- `ContentInv`: whatever an outbox, a request or an answer under way refers to is
  queued at the suitcase or stored at Home.
- `AcceptInv`: rows ascend by origin, the outbox goes on from the acknowledgement,
  and an answer goes on from both. It needs `~ SameInstant`, the hypothesis of
  `AnswersAccepted`: with two rows of one `created_at` the code does break it
  (section 5).

`CountReaches` and `ReachFacts` say what the cursor computation of an answer
returns, for any set of numbers.

**Revisions** (`RevisionsAreSound`, `EditsReplaceWhatWasShown`; `BuildsStayUndisturbed`,
`RowStatusIsSomeones`). First, for every step, disturbed or not, what it does to the
row (`RowSteps`: keeps, saves, inserts or deletes it); from that the chain of
transitions (`ChainInv`), which is inductive once the digests that callers carry are
known to be digests, and the compare-and-set of the editors as an action property.
Then `BuildInv`: who stands at a leased place holds the lease except an upload whose
client hung up (`LeaseIsHeld`), and while nothing is disturbed the row and the places
of the callers agree (`WorkInOrder`). Each conjunct of it alone is broken by some
handler; together they say that lease and status keep the other writers out.

**Executor** (`WritersAreSound`, `TrafficIsSound`, `CompletionsAreClean`). `WritersInv`:
rows are numbered as made, the local sets of the converge (`created`, `stopped`,
`selected`) agree with the rows (`ConvergeInOrder`), all earlier containers of a
single-writer component are of one release (`EarlierAgree`), and once a new one
exists whatever writes is of the target (`NewWriteAlone`). Mutual exclusion of
writers follows; it is not inductive because the undo starts what was stopped.
`TrafficInv` adds how far publication has come and that no traffic goes to a release
whose job runs.

**Edge** (`RoutesAreSound`, `StaleRoutesAreNoticed`, `OldResponsesArePurged`).
`StaleRouteIsNoticed` says that a route that differs from its row will be read again:
a hint is queued or on the wire, or a client that lost one still has to connect and
say hello. It is inductive only with what a request in flight may hold
(`RequestsFresh`), what a removed route leaves (`RemovedIsOvertaken`) and that the
newest release of a row answers (`NewestAnswers`); the purge of the cache rests on the
three.

**Mutations** (`RequestsAreSound`, `EveryReplicaHasAgreed`). A token is never given
twice (`TokensPast`), so an answer in a suitcase's log to a request for the token
that the replica still has was given since it has it (`AnswersAgree`): the gate, which
compares tokens, then reads agreement. No bound on tokens, requests or faults enters.

**Core** (`CoreTypeCorrect`, `OutboxGoesOn`; `LockKeepsApart`, `CalmLockKeepsApart`).
`OutboxFollowsAck` is not inductive: the next writer puts back what it read earlier.
`CopyInv` therefore says of *every copy* of the file, on disk or in the memory of a
process, what `CopyOf` says: its acknowledgement is not beyond Home, its numbers are
below the next one and each used once, and without candidates its outbox is a stretch
of the log that begins behind the acknowledgement. Such a statement of an old copy
stays true while the log and Home's history grow (`CopyGrows`), so it does not matter
who overwrites whom, with or without the lock, nor where a process dies. `IngestFacts`
proves that a batch Home does not refuse leaves no hole in its history.
The lock is weaker. `LockInv` says that whoever is inside created the lock file, and
that a lock found stale is nobody's; it survives crashes, restarts, repeated process
numbers and torn files as long as no two processes have found the same lock stale and
not yet removed it (`OneRemover`, the hypothesis of `LockKeepsApart`). That race, of
section 5, is thus the only way for two to get in. `CalmLockKeepsApart` shows that
without deaths and reads of half-written files no lock is ever found stale; these are
the constants of the run `core`, where the hypothesis holds by itself.

**Data** (`CheckpointsAreSound`, `MarkersTellTheTruth`, `UndisturbedWritesAreKept`).
`TypesInv` says what the coordinator works on: there is a checkpoint, what a
reconciliation has to do is pending, its own adoption restores the latest.
`MergeKeepsHome` and `MergeKeepsBranch` say of the three-way merge, for any contents,
that a branch which builds on its base loses nothing of either side but what a clash
leaves out; the lineage follows from the first. For the markers what a suitcase
selects never goes back (`SelectionUp`), so that an old marker is not taken for a new
base, and a new checkpoint of Home has no marker.
`KeptWhenUndisturbed` is far from inductive. `WritesInv` adds, while nothing is
disturbed: every branch builds on its base (`BranchesGrounded`); any checkpoint is
contained in any later one (`OneLine`, through merges in any order and applied
twice); a suitcase has one base, and its volume builds on it from its first restore
on (`OneBase`); what is merged and not yet committed is in the latest checkpoint
(`MergedIsIn`, which is what a crash between the two transactions leaves); and from
Home's capture to its adoption Home's volume holds nothing that the restore would lose
(`HomeIsSaved`). Each disturbance of section 3 breaks one of them.

**Volumes** (`AuthorityIsSound`, `WritesAreKept`, `EventsAreAccepted`). All three have the
hypothesis `OnePass`: a suitcase runs one pass at a time, Home any number. Section 5
says what happens without it; nothing else is bounded, neither suitcases, handoffs and
captures nor aborts, failures, crashes between a row and its event and scheduled
captures. `LineInv` is what
keeps everything else countable: snapshots are numbered as made, so the latest one a
site knows is the greatest number (`NewestIsGreatest`). It holds only because every
capture that is recorded extends the newest snapshot anywhere, which no site can see.
`AuthorityInv` says why:

- `TransfersInv`: Home has at most one handoff open, the newest, from its writer.
- `RowsInv`, `JobsInv`: a snapshot in a row or in the hands of a pass is the one its
  source handed over (`Handed`); a capture under way whose base is still the latest of
  its site has the newest snapshot of all as its base.
- `EventsInv`, `HandoffInv`: what is in a stream was true at its sender, and what Home
  was told of a handoff still holds at the site that told it unless the handoff has
  failed. That is the part two passes at one suitcase break.
- `OwnerInv`: all snapshots Home does not know yet are of its writer; a suitcase
  whose latest snapshot is its own has the newest one, or a commit has taken the
  authority from it (`HandedOver`) and it still has that handoff open.
- `UnderwayInv`: while a snapshot is handed over, no later one is made.

No part is inductive without the others. A lemma for each step that writes a row and
tells the other site of it (`RowTold`) carries them through the thirteen steps of a
pass; captures, commits and projections have lemmas of their own.

`WritesAreKept` rests on it. That the writer's volume holds every write says nothing of
a handoff under way, so `KeptInv` follows the writes along it:

- `WriterInv`: a suitcase that Home takes for the writer is the target of the handoff
  committed last, and has finished it or still has its row ready: nobody else can be
  restored over.
- `RestoresInv`: a pass at a suitcase restores only for a row that waits for it, and
  a row that has not come so far has no restore under way.
- `HoldsInv`: while a handoff can still be committed, all writes are in what a pass of
  the source exported (as long as its base is the latest), in the snapshot handed over
  and in the target's volume from its restore on. `Write` counts what the
  writer writes while its graph is not meant to be stopped, so none comes between;
  that the handoff is then the newest and its snapshot too is `AuthorityInv`.

Restores and commits have lemmas of their own; all other steps only turn a row that
holds nothing new (`TurnKeeps`). It needs no exception for a crash between a row and
its event. `undone` counts the two restores of section 5 that put an older copy over
the writer's, and without it the statement is false.

`EventsAreAccepted` (in `VolumeEventsProofs`) is about the order of events. A snapshot
event is accepted if it is the next of its line (`volume-sync.ts:1655`, `1658`), a ready
target or a commit if the row already names the snapshot (`1518`, `1542`); otherwise the
projection throws. What has arrived does not say so of what is still on the way, so
`CalmInv` describes the whole streams. It holds beside `AuthorityInv` as long as no
crash fell between a row and its event, and `torn`, once set, stays set:

- `SentInv`, `OrderInv`, `EndsInv`: every event is sent with its row, and a suitcase hears
  the end of a handoff before anything of the next one.
- `OutgoingInv`, `IncomingInv`: a stream brings the snapshots between what its receiver
  and its sender know in their order and without a gap (`Ordered`); only the writer
  sends any, and Home returns none to the suitcase that made it.
- `HandoverInv`, `RecordedInv`, `BehindInv`: the snapshot handed over is the newest and the
  last one its source sends, and nobody else is ahead of Home.
- `OfferInv`, `ReadyInv`: a suitcase has the snapshot handed over, or hears of it before
  it hears what becomes of the handoff; a target says once that it is ready.

TLC checked `CalmInv` with two suitcases before it was proved. What a step adds to a
stream or takes from it is said once, of any stream (`Longer`, `Shorter` and the lemmas
that carry each part along them), and each kind of step has a lemma per part.

**Only model-checked.** Liveness (`EveryWaiterServed`, `HomeEventsArrive`,
`RequestsAnswered`, `LogReachesHome`, `ModeFollowsHome`, `GateOpens`, `ConvergeEnds`,
`RoutesConverge`, `ChangesetsSettle`, `TransfersSettle`, the fair refinement) is out
of the prover's reach. Every safety property that a run checks is stated by a theorem.

## 7 What is not covered

- *Exchange.* Payloads, signatures, TLS, telemetry, downloads of content and
  time-outs as durations (a time-out is a failure or an interruption). Growth of
  `inbox` and `projectedEventIds`, and an event whose projection always throws
  (`suitcase-sync-client.ts:1129`; of volume events `EventsAccepted` says that
  none does). In the core the exchange is one step and an answer is never lost:
  `FleetSync` has that. `FleetSync` in turn writes the membership file atomically.
- *Mutations.* Which plan needs the gate, topology and portability checks, data of
  Home deferred by a manual policy (`FleetSync` has it).
- *Revisions.* Legacy single-container builds, moves between nodes, agent jobs,
  profiles, site-scoped counts, the three-way rebase of a manifest.
- *Executor.* One slot per component; placement, profiles and provisioning, drain
  periods as durations, a container created but not recorded when the process
  dies. `maxSurge` and `maxUnavailable` are not read by `converge`, and the
  functions of `application-reconciler.ts` are called by tests only.
- *Edge.* One path per application and one port; in-flight counts, drain
  deadlines, the round-robin cursor, upgrades, TLS reload, request logging, the
  event feed from edge to control.
- *Data.* The policies manual and none, acknowledgements (nothing calls them),
  removal of lost replicas, SQLite sessions (a content is a set of writes), branch
  signatures; a deletion counts as a write.
- *Volumes.* `transferOpaqueVolumeAuthority` (nothing calls it), changes of the data
  mode, artifacts, a third site.
- *Hazards left for later modules.* A crash between the policy event and its rows
  (`data-policy-transitions.ts:1062`), between the consumption and the terminal
  event of a manual sync (`manual-data-sync.ts:271`), while a transferred file is
  verified or moved (`content-store.ts:265`, `275`), between a running candidate
  and the release state (`suitcase-target.ts:926`); a `spawn` that fails in the
  supervisor (`supervisor.ts:173`).
- *Other components.* Listed in `PROJECT.json` with the reason. Parsers,
  validators, reports, metrics, mDNS, the catalog, the dashboard, scripts and
  generated migrations have no protocol a model would say much about.

## 8 Plan

Modules, the most important first:

1. `ManualSync` and `PolicyTransition` on the uplink of `EventUplink`: a request is
   consumed once and answered once; a policy changes only when what the old one
   admitted has arrived.
2. `ArtifactTransfer`: chunks, cursor, digest, crash while verifying.
3. `ReleaseSlots`: the recorded slot is the one that runs, through crashes of an
   update, a restoration and a rollback.
4. `Supervisor`, then `Recovery`: a restored Home that lags what suitcases hold.

Of the modules there are, only liveness is unproved; a new module brings its own
theorems.
