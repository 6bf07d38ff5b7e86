-------------------------- MODULE VolumeAuthority --------------------------
(***************************************************************************)
(* An application that "follows one site": its opaque volume has one       *)
(* writer at a time, the others keep recovery snapshots, and a durable     *)
(* handoff moves the authority.  It models server/volume-sync.ts, and of   *)
(* suitcase-application-materializer.ts the scheduled snapshots and the    *)
(* restore on the writer.                                                  *)
(*                                                                         *)
(* Every site has its own rows of snapshots and transfers; events carry    *)
(* them between Home and the suitcases, in order and without loss          *)
(* (FleetSync).  Home runs one worker for every exchange and every request *)
(* of an administrator, beside each other and without a lock.  A worker    *)
(* may take up any row of its list.  The version a row is compared with    *)
(* before an update changes exactly when its state does in the states an   *)
(* update starts from, so the state stands for it.  A write is one of the  *)
(* site in authority: nothing is promised of any other, and none of the    *)
(* code tells them apart.                                                  *)
(***************************************************************************)
EXTENDS Naturals, Sequences, FiniteSets

CONSTANTS
  Home,
  Suitcases,
  WorkerSite,     \* the site of each concurrent worker
  MaxTransfers,   \* bound: handoffs an administrator starts
  MaxCaptures,    \* bound: scheduled recovery snapshots
  MaxWrites,      \* bound: writes of the application, all sites together
  MaxSetbacks     \* bound: aborts, crashes and failures of the executor

ASSUME AuthoritySites ==
  /\ Home \notin Suitcases
  /\ \A w \in DOMAIN WorkerSite : WorkerSite[w] \in Suitcases \cup {Home}

ASSUME AuthorityBounds == {MaxTransfers, MaxCaptures, MaxWrites, MaxSetbacks} \subseteq Nat

Sites == Suitcases \cup {Home}
Workers == DOMAIN WorkerSite
Transfers == 1..MaxTransfers
Writes == 0..MaxWrites

VARIABLES
  snapshots,  \* the manifests ever made, by number
  known,      \* volume_snapshots of each site
  transfers,  \* what each handoff was started with
  row,        \* volume_authority_transfers of each site
  writer,     \* the site app_replicas calls the writer, at each site
  volume,     \* the writes the volume of each site holds
  up,         \* suitcases whose graph runs
  placed,     \* suitcases whose deployment row names them
  available,  \* the snapshot a suitcase's "data" materialisation names
  outgoing,   \* events of each suitcase on their way to Home
  incoming,   \* events on their way to each suitcase
  job,        \* what a worker awaits
  writes,     \* number of the latest write
  torn,       \* history: a crash fell between a row and its event
  undone,     \* history: see KeptUnlessUndone
  count       \* the scheduled captures and setbacks so far

durableVars == <<snapshots, known, transfers, row, writer>>
siteVars == <<volume, up, placed, available>>
wireVars == <<outgoing, incoming>>
authorityVars == <<durableVars, siteVars, wireVars, job, writes, torn, undone,
                   count>>

(* Variant: a site that handed its snapshot over has nothing open. *)
ActiveUntilReady == {"requested", "source-capturing", "target-restoring", "target-ready"}

Active == {"requested", "source-capturing", "snapshot-ready", "target-restoring", "target-ready"}

Broken == {"failed", "aborted"}
States == Active \cup Broken \cup {"none", "snapshot-ready", "committed"}

NoRow == [state |-> "none", snap |-> 0, resumed |-> FALSE, sent |-> {}]
NoJob == [at |-> "idle", t |-> 0, snap |-> 0, data |-> {}]
Event(op, t, snap) == [op |-> op, t |-> t, snap |-> snap, resumed |-> FALSE]

AuthorityTypeOK ==
  /\ \A n \in DOMAIN snapshots :
       /\ snapshots[n].authority \in Sites /\ snapshots[n].data \subseteq Writes
       /\ snapshots[n].parent \in 0..(n - 1)
  /\ known \in [Sites -> SUBSET (DOMAIN snapshots)]
  /\ \A t \in DOMAIN transfers : transfers[t].source # transfers[t].target
  /\ \A site \in Sites, t \in Transfers :
       /\ row[site][t].state \in States
       /\ row[site][t].state # "none" => t \in DOMAIN transfers
       /\ row[site][t].snap \in {0} \cup known[site]
  /\ writer \in [Sites -> Sites] /\ volume \in [Sites -> SUBSET Writes]
  /\ up \subseteq Suitcases /\ placed \subseteq Suitcases
  /\ \A w \in Workers : job[w].at \in {"idle", "exported", "recorded", "restoring", "probing"}

(* The replica is selected, and Home is the first writer. *)
AuthorityInit ==
  /\ snapshots = <<>> /\ transfers = <<>>
  /\ known = [site \in Sites |-> {}]
  /\ row = [site \in Sites |-> [t \in Transfers |-> NoRow]]
  /\ writer = [site \in Sites |-> Home]
  /\ volume = [site \in Sites |-> IF site = Home THEN {0} ELSE {}]
  /\ up = {} /\ placed = {}
  /\ available = [s \in Suitcases |-> 0]
  /\ outgoing = [s \in Suitcases |-> <<>>] /\ incoming = [s \in Suitcases |-> <<>>]
  /\ job = [w \in Workers |-> NoJob]
  /\ writes = 0 /\ torn = FALSE /\ undone = FALSE
  /\ count = [captures |-> 0, setbacks |-> 0]

Setbacks(n) ==
  /\ count.setbacks + n <= MaxSetbacks
  /\ count' = [count EXCEPT !.setbacks = @ + n]

-----------------------------------------------------------------------------
(* Snapshots.                                                              *)

(* By authority epoch, then data sequence. *)
Above(m, n) == m.epoch > n.epoch \/ (m.epoch = n.epoch /\ m.seq > n.seq)

(* latestSnapshot; 0 when there is none. *)
Latest(site) ==
  IF known[site] = {} THEN 0
  ELSE CHOOSE n \in known[site] :
         \A k \in known[site] : ~ Above(snapshots[k], snapshots[n])

EpochOf(n) == IF n = 0 THEN 1 ELSE snapshots[n].epoch
SeqOf(n) == IF n = 0 THEN 0 ELSE snapshots[n].seq

(* The checks of recordVerifiedSnapshot on manifest m, which is number n.  *)
Recordable(site, m, n, detached) ==
  LET previous == Latest(site)
  IN IF previous = 0 THEN m.parent = 0 \/ detached
     ELSE n = previous \/ (Above(m, snapshots[previous]) /\ m.parent = previous)

(* currentAuthorityBoundary: who has the authority, by what a site knows.  *)
AuthoritySite(site) ==
  IF Latest(site) = 0 THEN writer[site] ELSE snapshots[Latest(site)].authority

Manifest(site, previous, data) ==
  [authority |-> site, epoch |-> EpochOf(previous), seq |-> SeqOf(previous) + 1,
   parent |-> previous, data |-> data]

-----------------------------------------------------------------------------
(* Rows and events.                                                        *)

ActiveRows(site) == {t \in Transfers : row[site][t].state \in Active}
OldestActive(site) == CHOOSE t \in ActiveRows(site) : \A u \in ActiveRows(site) : t <= u

(* appendLocalFleetEvent. *)
Emit(site, events) ==
  IF site = Home
  THEN /\ incoming' = [s \in Suitcases |-> incoming[s] \o events]
       /\ UNCHANGED outgoing
  ELSE /\ outgoing' = [outgoing EXCEPT ![site] = @ \o events]
       /\ UNCHANGED incoming

(* A row and the event that tells of it are written one after the other.   *)
(* The process may end between them ("unsent"), or before the row notes    *)
(* the event ("unmarked").                                                 *)
Outcomes == {"done"} \cup IF count.setbacks < MaxSetbacks THEN {"unsent", "unmarked"} ELSE {}

Idle(site) == [w \in Workers |-> IF WorkerSite[w] = site THEN NoJob ELSE job[w]]

Price(how) == IF how = "done" THEN 0 ELSE 1

Tells(site, events, how) ==
  /\ torn' = (torn \/ how # "done")
  /\ IF how = "unsent" THEN UNCHANGED wireVars ELSE Emit(site, events)

Noted(how, op) == IF how = "done" THEN {op} ELSE {}

(* failTransfer, as an effect on a row and the events it sends. *)
Fails(r) == r.state \notin {"committed", "aborted"}
FailedRow(r, resumed) ==
  IF Fails(r) THEN [r EXCEPT !.state = "failed", !.resumed = resumed] ELSE r
FailedEvents(r, t, resumed) ==
  IF Fails(r) THEN <<[Event("failed", t, 0) EXCEPT !.resumed = resumed]>> ELSE <<>>

FailTransfer(site, t, resumed, how) ==
  /\ row' = [row EXCEPT ![site][t] = FailedRow(@, resumed)]
  /\ Tells(site, FailedEvents(row[site][t], t, resumed), how)

JobAfter(w, how, next) ==
  job' = IF how = "done" THEN [job EXCEPT ![w] = next] ELSE Idle(WorkerSite[w])

StartsGraph(site) == up' = up \cup ({site} \ {Home})
StopsGraph(site) == up' = up \ {site}

-----------------------------------------------------------------------------
(* The administrator, at Home.                                             *)

(* planOpaqueVolumeAuthorityTransfer. *)
MayStart(target) == ActiveRows(Home) = {} /\ AuthoritySite(Home) # target

StartTransfer(target, how) ==
  /\ Len(transfers) < MaxTransfers /\ MayStart(target)
  /\ LET t == Len(transfers) + 1
     IN /\ transfers' = Append(transfers, [source |-> AuthoritySite(Home), target |-> target,
                                           expected |-> Latest(Home)])
        /\ row' = [row EXCEPT ![Home][t] =
                     [NoRow EXCEPT !.state = "requested", !.sent = Noted(how, "requested")]]
        /\ Tells(Home, <<Event("requested", t, 0)>>, how)
  /\ Setbacks(Price(how))
  /\ job' = IF how = "done" THEN job ELSE Idle(Home)
  /\ UNCHANGED <<snapshots, known, writer, siteVars, writes, undone>>

AbortTransfer(t, how) ==
  /\ row[Home][t].state \notin {"none", "committed", "aborted"}
  /\ Setbacks(1 + Price(how))
  /\ row' = [row EXCEPT ![Home][t].state = "aborted", ![Home][t].resumed = FALSE]
  /\ Tells(Home, <<Event("aborted", t, 0)>>, how)
  /\ job' = IF how = "done" THEN job ELSE Idle(Home)
  /\ UNCHANGED <<snapshots, known, transfers, writer, siteVars, writes, undone>>

-----------------------------------------------------------------------------
(* The source.                                                             *)

MayTake(w, t, side, states) ==
  /\ job[w] = NoJob /\ t \in DOMAIN transfers
  /\ transfers[t][side] = WorkerSite[w]
  /\ row[WorkerSite[w]][t].state \in states

(* The request is announced if it was not yet. *)
TakeUp(w, t, how) ==
  LET site == WorkerSite[w] IN
  /\ MayTake(w, t, "source", {"requested"})
  /\ LET new == site = Home /\ "requested" \notin row[site][t].sent
     IN IF new THEN Tells(site, <<Event("requested", t, 0)>>, how)
               ELSE how = "done" /\ UNCHANGED <<wireVars, torn>>
  /\ Setbacks(Price(how))
  /\ row' = [row EXCEPT ![site][t].state = IF how = "done" THEN "source-capturing" ELSE @,
                        ![site][t].sent = @ \cup Noted(how, "requested")]
  /\ JobAfter(w, how, NoJob)
  /\ UNCHANGED <<snapshots, known, transfers, writer, siteVars, writes, undone>>

(* A snapshot this transfer seems to have made before a crash. *)
Reusable(site, t) ==
  LET latest == Latest(site)
      expected == transfers[t].expected
  IN /\ latest # 0 /\ snapshots[latest].authority = site
     /\ snapshots[latest].epoch = EpochOf(expected)
     /\ snapshots[latest].seq = SeqOf(expected) + 1
     /\ snapshots[latest].parent = expected

(* assertBoundary and the first checks of captureOpaqueVolumeSnapshot. *)
MayCapture(site, t) ==
  /\ AuthoritySite(site) = site /\ Latest(site) = transfers[t].expected
  /\ OldestActive(site) = t

(* The graph is stopped and its volume exported, or a snapshot reused. *)
BeginCapture(w, t) ==
  LET site == WorkerSite[w] IN
  /\ MayTake(w, t, "source", {"source-capturing"})
  /\ StopsGraph(site)
  /\ \/ /\ Reusable(site, t)
        /\ job' = [job EXCEPT ![w] = [NoJob EXCEPT !.at = "recorded", !.t = t,
                                                   !.snap = Latest(site)]]
        /\ undone' = (undone \/ volume[site] # snapshots[Latest(site)].data)
     \/ /\ ~ Reusable(site, t) /\ MayCapture(site, t)
        /\ job' = [job EXCEPT ![w] = [at |-> "exported", t |-> t, snap |-> Latest(site),
                                      data |-> volume[site]]]
        /\ UNCHANGED undone
  /\ UNCHANGED <<durableVars, volume, placed, available, wireVars, writes, torn, count>>

(* Refused: the boundary moved, another worker recorded its snapshot       *)
(* first, or the transfer changed meanwhile.                               *)
CaptureRefused(w, t) ==
  LET site == WorkerSite[w] IN
  \/ /\ MayTake(w, t, "source", {"source-capturing"})
     /\ ~ Reusable(site, t) /\ ~ MayCapture(site, t)
  \/ job[w].t = t /\ job[w].at = "exported" /\ Latest(site) # job[w].snap
  \/ /\ job[w].t = t /\ job[w].at = "recorded"
     /\ row[site][t].state # "source-capturing"

(* That, or the export failed: the source is resumed, or cannot be, and    *)
(* the transfer fails.                                                     *)
CaptureFails(w, t, resumed, how) ==
  /\ CaptureRefused(w, t) \/ (job[w].t = t /\ job[w].at = "exported")
  /\ Setbacks(Price(how) + IF CaptureRefused(w, t) /\ resumed THEN 0 ELSE 1)
  /\ IF resumed THEN StartsGraph(WorkerSite[w]) ELSE UNCHANGED up
  /\ FailTransfer(WorkerSite[w], t, resumed, how)
  /\ JobAfter(w, how, NoJob)
  /\ UNCHANGED <<snapshots, known, transfers, writer, volume, placed, available, writes, undone>>

(* The snapshot is recorded and announced, then the await of its caller. *)
RecordSnapshot(w, how) ==
  LET site == WorkerSite[w]
      manifest == Manifest(site, job[w].snap, job[w].data)
      n == Len(snapshots) + 1
  IN
  /\ job[w].at = "exported"
  /\ Recordable(site, manifest, n, FALSE)
  /\ snapshots' = Append(snapshots, manifest)
  /\ known' = [known EXCEPT ![site] = @ \cup {n}]
  /\ Tells(site, <<Event("created", 0, n)>>, how) /\ how # "unmarked"
  /\ Setbacks(Price(how))
  /\ JobAfter(w, how, [NoJob EXCEPT !.at = "recorded", !.t = job[w].t, !.snap = n])
  /\ UNCHANGED <<transfers, row, writer, siteVars, writes, undone>>

SnapshotReady(w, how) ==
  LET site == WorkerSite[w]
      t == job[w].t
  IN
  /\ job[w].at = "recorded" /\ row[site][t].state = "source-capturing"
  /\ row' = [row EXCEPT ![site][t].state = "snapshot-ready", ![site][t].snap = job[w].snap,
                        ![site][t].sent = @ \cup Noted(how, "snapshot-ready")]
  /\ Tells(site, <<Event("snapshot-ready", t, job[w].snap)>>, how)
  /\ Setbacks(Price(how))
  /\ JobAfter(w, how, NoJob)
  /\ UNCHANGED <<snapshots, known, transfers, writer, siteVars, writes, undone>>

-----------------------------------------------------------------------------
(* The target.                                                             *)

AcceptSnapshot(w, t) ==
  /\ MayTake(w, t, "target", {"snapshot-ready"})
  /\ row' = [row EXCEPT ![WorkerSite[w]][t].state = "target-restoring"]
  /\ UNCHANGED <<snapshots, known, transfers, writer, siteVars, wireVars, job, writes, torn,
                 undone, count>>

(* Whether replacing a volume takes a write from the site in authority. *)
TakesBack(site, n) == writer[site] = site /\ ~ volume[site] \subseteq snapshots[n].data

(* The artifacts are verified. *)
BeginRestore(w, t) ==
  /\ MayTake(w, t, "target", {"target-restoring"})
  /\ job' = [job EXCEPT ![w] = [NoJob EXCEPT !.at = "restoring", !.t = t,
                                             !.snap = row[WorkerSite[w]][t].snap]]
  /\ UNCHANGED <<durableVars, siteVars, wireVars, writes, torn, undone, count>>

(* Another handoff to this site has come as far meanwhile. *)
Overtaken(w) ==
  \E t \in ActiveRows(WorkerSite[w]) :
    /\ transfers[t].target = WorkerSite[w] /\ t # job[w].t
    /\ row[WorkerSite[w]][t].state \in {"target-restoring", "target-ready"}

(* The volume is replaced and the graph started for its health gate. *)
RestoreVolume(w) ==
  LET site == WorkerSite[w] IN
  /\ job[w].at = "restoring"
  /\ job' = [job EXCEPT ![w].at = "probing"]
  /\ volume' = [volume EXCEPT ![site] = snapshots[job[w].snap].data]
  /\ undone' = (undone \/ TakesBack(site, job[w].snap) \/ Overtaken(w))
  /\ StartsGraph(site)
  /\ UNCHANGED <<durableVars, placed, available, wireVars, writes, torn, count>>

(* Healthy: the graph is stopped again and the row moves on. *)
TargetReady(w, how) ==
  LET site == WorkerSite[w]
      t == job[w].t
  IN
  /\ job[w].at = "probing" /\ row[site][t].state = "target-restoring"
  /\ StopsGraph(site)
  /\ row' = [row EXCEPT ![site][t].state = "target-ready",
                        ![site][t].sent = @ \cup Noted(how, "target-ready")]
  /\ Tells(site, <<Event("target-ready", t, job[w].snap)>>, how)
  /\ Setbacks(Price(how))
  /\ JobAfter(w, how, NoJob)
  /\ UNCHANGED <<snapshots, known, transfers, writer, volume, placed, available, writes, undone>>

(* An artifact is missing, the health gate fails or the transfer changed. *)
RestoreFails(w, how) ==
  /\ job[w].at \in {"restoring", "probing"}
  /\ Setbacks(Price(how) + IF row[WorkerSite[w]][job[w].t].state = "target-restoring" THEN 1 ELSE 0)
  /\ StopsGraph(WorkerSite[w])
  /\ FailTransfer(WorkerSite[w], job[w].t, FALSE, how)
  /\ JobAfter(w, how, NoJob)
  /\ UNCHANGED <<snapshots, known, transfers, writer, volume, placed, available, writes, undone>>

-----------------------------------------------------------------------------
(* Home commits.                                                           *)

(* Variant: Home commits what the target has not restored yet. *)
CommittableEarly == {"snapshot-ready", "target-ready"}

(* Variant: an abort in between is not noticed. *)
CommittableAborted == {"target-ready", "aborted"}

Committable == {"target-ready"}

AtCommit(w, t) ==
  /\ WorkerSite[w] = Home /\ job[w] = NoJob
  /\ row[Home][t].state \in Committable /\ row[Home][t].snap # 0

(* The authority is where the snapshot left it. *)
MayCommit(t) == Latest(Home) = row[Home][t].snap

CommitTransfer(w, t, how) ==
  LET r == row[Home][t]
      target == transfers[t].target
      source == snapshots[r.snap]
      n == Len(snapshots) + 1
  IN
  /\ AtCommit(w, t)
  /\ IF MayCommit(t)
     THEN /\ snapshots' = Append(snapshots,
                 [authority |-> target, epoch |-> source.epoch + 1, seq |-> source.seq + 1,
                  parent |-> r.snap, data |-> source.data])
          /\ known' = [known EXCEPT ![Home] = @ \cup {n}]
          /\ row' = [row EXCEPT ![Home][t] =
                       [state |-> "committed", snap |-> n, resumed |-> FALSE,
                        sent |-> r.sent \cup Noted(how, "committed")]]
          /\ writer' = [writer EXCEPT ![Home] = target]
          /\ Tells(Home, <<Event("committed", t, n)>>, how)
     ELSE /\ FailTransfer(Home, t, FALSE, how)
          /\ UNCHANGED <<snapshots, known, writer>>
  /\ Setbacks(Price(how))
  /\ JobAfter(w, how, NoJob)
  /\ UNCHANGED <<transfers, siteVars, writes, undone>>

-----------------------------------------------------------------------------
(* What every pass does again.                                             *)

(* The events a crash held back. *)
Owed(site, t) ==
  LET r == row[site][t] IN
  {op \in {"snapshot-ready", "target-ready", "committed"} \ r.sent :
     /\ r.state = op
     /\ site = CASE op = "snapshot-ready" -> transfers[t].source
                 [] op = "target-ready" -> transfers[t].target
                 [] op = "committed" -> Home}

EnsureEvent(w, t, op) ==
  LET site == WorkerSite[w] IN
  /\ job[w] = NoJob
  /\ Emit(site, <<Event(op, t, row[site][t].snap)>>)
  /\ row' = [row EXCEPT ![site][t].sent = @ \cup {op}]
  /\ UNCHANGED <<snapshots, known, transfers, writer, siteVars, job, writes, torn, undone, count>>

ResumeSource(w, t) ==
  LET site == WorkerSite[w] IN
  /\ MayTake(w, t, "source", Broken) /\ ~ row[site][t].resumed
  /\ StartsGraph(site)
  /\ row' = [row EXCEPT ![site][t].resumed = TRUE]
  /\ Emit(site, <<Event("source-resumed", t, 0)>>)
  /\ UNCHANGED <<snapshots, known, transfers, writer, volume, placed, available, job, writes,
                 torn, undone, count>>

(* Of every row there ever was: the graph of a site that was once the      *)
(* target of a broken transfer is stopped, that of one that was once       *)
(* committed to is started, and that of a source that committed stopped.   *)
StopTarget(w, t) ==
  /\ MayTake(w, t, "target", Broken)
  /\ StopsGraph(WorkerSite[w])
  /\ UNCHANGED <<durableVars, volume, placed, available, wireVars, job, writes, torn, undone,
                 count>>

ActivateTarget(w, t) ==
  LET site == WorkerSite[w] IN
  /\ MayTake(w, t, "target", {"committed"}) /\ site # Home
  /\ StartsGraph(site)
  /\ available' = [available EXCEPT ![site] = row[site][t].snap]
  /\ UNCHANGED <<durableVars, volume, placed, wireVars, job, writes, torn, undone, count>>

StopSource(w, t) ==
  /\ MayTake(w, t, "source", {"committed"})
  /\ StopsGraph(WorkerSite[w])
  /\ UNCHANGED <<durableVars, volume, placed, available, wireVars, job, writes, torn, undone,
                 count>>

-----------------------------------------------------------------------------
(* Projection of an event at a site.                                       *)

RowAt(site, t) ==
  IF row[site][t] = NoRow THEN [NoRow EXCEPT !.state = "requested", !.sent = {"requested"}]
  ELSE row[site][t]

(* What makes a projection throw: the event then stays where it is.        *)
Accepts(site, e) ==
  LET m == snapshots[e.snap]
      r == RowAt(site, e.t)
  IN CASE e.op = "created" -> Recordable(site, m, e.snap, FALSE)
       [] e.op = "snapshot-ready" -> Recordable(site, m, e.snap, TRUE)
       [] e.op = "target-ready" -> r.snap = e.snap
       [] e.op = "committed" ->
            /\ Recordable(site, m, e.snap, FALSE)
            /\ r.snap # 0
            /\ m.epoch = snapshots[r.snap].epoch + 1 /\ m.seq = snapshots[r.snap].seq + 1
       [] OTHER -> TRUE

(* Variant: only a failed transfer is marked. *)
ResumesFailed(r, e) == e.op = "source-resumed" /\ r.state = "failed"

Resumes(r, e) == e.op = "source-resumed" /\ r.state \in Broken

Projected(r, e) ==
  CASE e.op = "snapshot-ready" /\ r.state \in Active ->
         [r EXCEPT !.snap = e.snap,
                   !.state = IF @ \in {"requested", "source-capturing"} THEN e.op ELSE @]
    [] e.op = "target-ready" /\ r.state \in {"snapshot-ready", "target-restoring"} ->
         [r EXCEPT !.state = e.op]
    [] e.op = "committed" /\ r.state \notin Broken ->
         [r EXCEPT !.state = e.op, !.snap = e.snap, !.resumed = FALSE]
    [] e.op \in Broken /\ r.state # "committed" ->
         [r EXCEPT !.state = e.op, !.resumed = e.resumed]
    [] Resumes(r, e) -> [r EXCEPT !.resumed = TRUE]
    [] OTHER -> r

Projects(site, e) ==
  /\ Accepts(site, e)
  /\ known' = [known EXCEPT ![site] = @ \cup ({e.snap} \ {0})]
  /\ row' = IF e.t = 0 THEN row
            ELSE [row EXCEPT ![site][e.t] = Projected(RowAt(site, e.t), e)]
  /\ writer' = IF e.op = "committed"
               THEN [writer EXCEPT ![site] = transfers[e.t].target] ELSE writer
  /\ UNCHANGED <<snapshots, transfers, siteVars, job, writes, torn, undone, count>>

(* Home ingests an event of a suitcase and passes it to the others. *)
IngestAtHome(s) ==
  /\ outgoing[s] # <<>>
  /\ Projects(Home, Head(outgoing[s]))
  /\ outgoing' = [outgoing EXCEPT ![s] = Tail(@)]
  /\ incoming' = [other \in Suitcases |->
                    IF other = s THEN incoming[s]
                    ELSE Append(incoming[other], Head(outgoing[s]))]

ProjectAtSuitcase(s) ==
  /\ incoming[s] # <<>>
  /\ Projects(s, Head(incoming[s]))
  /\ incoming' = [incoming EXCEPT ![s] = Tail(@)]
  /\ UNCHANGED outgoing

-----------------------------------------------------------------------------
(* A suitcase that is the writer.                                          *)

(* The scheduled recovery snapshot: stop, export, start, record, announce. *)
ScheduledCapture(s, how) ==
  LET n == Len(snapshots) + 1 IN
  /\ writer[s] = s /\ ActiveRows(s) = {} /\ AuthoritySite(s) = s
  /\ count.captures < MaxCaptures /\ how # "unmarked"
  /\ snapshots' = Append(snapshots, Manifest(s, Latest(s), volume[s]))
  /\ known' = [known EXCEPT ![s] = @ \cup {n}]
  /\ StartsGraph(s)
  /\ \/ /\ how = "done" /\ Emit(s, <<Event("created", 0, n)>>)
        /\ count' = [count EXCEPT !.captures = @ + 1]
        /\ UNCHANGED <<torn, job>>
     \/ /\ how = "unsent" /\ Setbacks(1) /\ torn' = TRUE
        /\ job' = Idle(s) /\ UNCHANGED wireVars
  /\ UNCHANGED <<transfers, row, writer, volume, placed, available, writes, undone>>

(* reconcileReplica: the latest snapshot is restored unless the "data"     *)
(* materialisation names it, which no capture makes it do.  (What it names *)
(* on a recovery-only replica is left out: the commit that makes it the    *)
(* writer brings another snapshot.)                                        *)
Materialise(s) ==
  LET latest == Latest(s)
      restores == available[s] # latest
  IN
  /\ writer[s] = s /\ ActiveRows(s) = {} /\ AuthoritySite(s) = s
  /\ volume' = IF restores THEN [volume EXCEPT ![s] = snapshots[latest].data] ELSE volume
  /\ undone' = (undone \/ (restores /\ TakesBack(s, latest)))
  /\ available' = [available EXCEPT ![s] = latest]
  /\ StartsGraph(s)
  /\ placed' = placed \cup {s}
  /\ UNCHANGED <<durableVars, wireVars, job, writes, torn, count>>

(* The graph supervisor converges what it finds down and takes for local.  *)
SupervisorStarts(s) ==
  /\ s \in placed \ up
  /\ StartsGraph(s)
  /\ UNCHANGED <<durableVars, volume, placed, available, wireVars, job, writes, torn, undone,
                 count>>

-----------------------------------------------------------------------------
(* The application and the processes.                                      *)

(* Home's containers are recorded under the node "coordinator", and no     *)
(* stop of its site finds them.                                            *)
Running(site) == site = Home \/ site \in up

(* The site is the writer and its graph is not meant to be stopped. *)
Rightful(site) ==
  /\ site = writer[Home]
  /\ \A w \in Workers :
       WorkerSite[w] = site => job[w].at \notin {"exported", "recorded"}
  /\ \A t \in DOMAIN transfers :
       transfers[t].source = site =>
         row[site][t].state \notin Active \ {"requested", "source-capturing"}

Write(site) ==
  /\ Running(site) /\ Rightful(site) /\ writes < MaxWrites
  /\ writes' = writes + 1
  /\ volume' = [volume EXCEPT ![site] = @ \cup {writes'}]
  /\ UNCHANGED <<durableVars, up, placed, available, wireVars, job, torn, undone, count>>

Crash(site) ==
  /\ Setbacks(1) /\ job # Idle(site)
  /\ job' = Idle(site)
  /\ UNCHANGED <<durableVars, siteVars, wireVars, writes, torn, undone>>

-----------------------------------------------------------------------------
AdvancesTransfer(w, t, how) ==
  \/ TakeUp(w, t, how) \/ CommitTransfer(w, t, how)
  \/ BeginCapture(w, t) \/ AcceptSnapshot(w, t) \/ BeginRestore(w, t) \/ ResumeSource(w, t)
  \/ \E resumed \in BOOLEAN : CaptureFails(w, t, resumed, how)
  \/ \E op \in Owed(WorkerSite[w], t) : EnsureEvent(w, t, op)

AdvancesJob(w, how) ==
  \/ RecordSnapshot(w, how) \/ SnapshotReady(w, how) \/ RestoreVolume(w)
  \/ TargetReady(w, how) \/ RestoreFails(w, how)

Advances(w, how) ==
  AdvancesJob(w, how) \/ \E t \in DOMAIN transfers : AdvancesTransfer(w, t, how)

Repeats(w) ==
  \E t \in DOMAIN transfers : StopTarget(w, t) \/ ActivateTarget(w, t) \/ StopSource(w, t)

Administers(how) ==
  \/ \E target \in Sites : StartTransfer(target, how)
  \/ \E t \in DOMAIN transfers : AbortTransfer(t, how)

AuthorityNext ==
  \/ \E how \in Outcomes : Administers(how) \/ \E w \in Workers : Advances(w, how)
  \/ \E w \in Workers : Repeats(w)
  \/ \E s \in Suitcases :
       \/ IngestAtHome(s) \/ ProjectAtSuitcase(s) \/ Materialise(s) \/ SupervisorStarts(s)
       \/ \E how \in Outcomes : ScheduledCapture(s, how)
  \/ \E site \in Sites : Write(site) \/ Crash(site)

AuthoritySpec == AuthorityInit /\ [][AuthorityNext]_authorityVars

(* Exchanges and passes go on: each runs a worker, and carries events.     *)
AuthorityFairness ==
  /\ \A w \in Workers : WF_authorityVars(Advances(w, "done"))
  /\ \A s \in Suitcases :
       WF_authorityVars(IngestAtHome(s)) /\ WF_authorityVars(ProjectAtSuitcase(s))

FairAuthoritySpec == AuthoritySpec /\ AuthorityFairness

-----------------------------------------------------------------------------
(* Properties.                                                             *)

(* The snapshots of all sites are one line, each above its parent: workers *)
(* beside each other, aborts, and captures of a site that does not know    *)
(* yet that it lost the authority never fork it.                           *)
OneLineage ==
  \A n \in DOMAIN snapshots :
    /\ snapshots[n].parent = n - 1
    /\ n > 1 => Above(snapshots[n], snapshots[n - 1])

(* A site that still calls itself the writer after Home gave the authority *)
(* to another has the handoff open: it takes no snapshot and starts        *)
(* nothing of its own.                                                     *)
StaleWriterWaits ==
  \A s \in Suitcases :
    writer[s] = s /\ writer[Home] # s =>
      \E t \in ActiveRows(s) : transfers[t].source = s

(* The authority is of one piece: rows of their types, one line of         *)
(* snapshots, and no site at work on an authority it has lost.             *)
AuthoritySound == AuthorityTypeOK /\ OneLineage /\ StaleWriterWaits

(* No event makes its projection throw, which would block the stream       *)
(* behind it for ever, unless a crash fell between a row and its event.    *)
EventsAccepted ==
  ~ torn =>
    \A s \in Suitcases :
      /\ outgoing[s] # <<>> => Accepts(Home, Head(outgoing[s]))
      /\ incoming[s] # <<>> => Accepts(s, Head(incoming[s]))

(* The volume of the writer holds every write that the writer of its time  *)
(* made.                                                                   *)
WritesHeld == 0..writes \subseteq volume[writer[Home]]

(* It does, through any aborts, crashes and lost events, until a site      *)
(* restores a snapshot over the writes of its own authority, or one of an  *)
(* earlier handoff beside a later one, or hands over one that is older     *)
(* than its volume.                                                        *)
KeptUnlessUndone == ~ undone => WritesHeld

Settled(t) ==
  \/ \A site \in Sites : row[site][t].state = "committed"
  \/ /\ \A site \in Sites : row[site][t].state \in Broken
     /\ row[Home][t].resumed /\ row[transfers[t].source][t].resumed

(* Again and again every handoff started has ended, and the same way       *)
(* everywhere; one that failed or was aborted with its source resumed.  A  *)
(* crash in an await, a failure of the executor, an abort while events are *)
(* on their way only delay that, not a crash between a row and its event.  *)
TransfersSettle == []<>(torn \/ \A t \in DOMAIN transfers : Settled(t))
=============================================================================
