-------------------------- MODULE RevisionAdmission --------------------------
(***************************************************************************)
(* How the revision an application should run is changed, and how it gets  *)
(* to run: the handlers of server/api.ts that write deployments.           *)
(* desiredSpecDigest and activeSpecDigest (upload, manifest edit, apply,   *)
(* recreate, component scale, delete), the graph supervisor and the start  *)
(* of the control process, over the compare-and-set of server/store.ts.    *)
(*                                                                         *)
(* One application of one user, in the deploy.yaml format, materialised by *)
(* the coordinator itself.  A handler is cut at its awaits: what it read   *)
(* before one, it still holds after it.  Upload, apply, recreate and the   *)
(* supervisor work under the application's lease (DeployAdmission, of      *)
(* which this module keeps one application: at most one lease); edit,      *)
(* scale, delete and the start take none.                                  *)
(***************************************************************************)
EXTENDS Naturals, Sequences, FiniteSets

CONSTANTS
  Callers,        \* requests under way, and the supervisor's loop
  Digests,        \* digests of application specs
  NoDigest,       \* null
  NoCaller,       \* nobody holds the lease
  MaxChanges,     \* bound: recorded transitions
  MaxCrashes      \* bound: crashes of the control process

ASSUME NoDigestAssumption == NoDigest \notin Digests
ASSUME NoCallerAssumption == NoCaller \notin Callers
ASSUME MaxCrashesAssumption == MaxCrashes \in Nat

VARIABLES
  row,            \* the row of deployments, or NoRow
  revisions,      \* application_spec_revisions: the digests recorded
  transitions,    \* application_spec_transitions, oldest first
  runtime,        \* the spec the application's instances run
  lease,          \* the caller whose deploy lease is out
  caller,         \* what each caller is doing, and what it read earlier
  disturbed,      \* history: a build lost its exclusivity (see Undisturbed)
  crashes

revisionVars ==
  <<row, revisions, transitions, runtime, lease, caller, disturbed, crashes>>

Digest == Digests \cup {NoDigest}

PreContainer == {"building", "starting", "recreating"}
Reconcilable == {"running", "degraded", "failed"}
Statuses == PreContainer \cup Reconcilable \cup
              {"none", "unknown", "configuration-required"}

Row == [status : Statuses, desired : Digest, active : Digest]
NoRow == [status |-> "none", desired |-> NoDigest, active |-> NoDigest]
NewRow == [NoRow EXCEPT !.status = "unknown"]

(* desiredSpecDigest || activeSpecDigest || null *)
Current(r) == IF r.desired # NoDigest THEN r.desired ELSE r.active

(* What a handler still uses of a row it read: an edit or a scale its      *)
(* current digest, the supervisor and the start its active digest.         *)
ForEdit(r) == [NoRow EXCEPT !.desired = Current(r)]
ForConverge(r) == [NoRow EXCEPT !.active = r.active]

(* Where a caller stands.  Those at a Waiting place are in the admission   *)
(* queue; those at a Converging place await the executor.                  *)
Waiting == {"upload-queued", "apply-queued", "recreate-queued", "supervise-queued"}
Leased == {"upload-staged", "uploading", "apply-reading", "applying",
           "recreating", "supervising"}
Converging == {"uploading", "applying", "recreating", "supervising", "scaling", "booting"}
Places == {"idle", "editing", "scale-reading", "deleting", "supervise-failed",
           "restarted"}
            \cup Waiting \cup Leased \cup Converging

Caller == [at : Places, seen : Row, cand : Digest, base : Digest, replace : BOOLEAN]
Idle == [at |-> "idle", seen |-> NoRow, cand |-> NoDigest, base |-> NoDigest,
         replace |-> FALSE]

At(c, place) == caller[c].at = place
Becomes(c, state) == caller' = [caller EXCEPT ![c] = state]
Moves(c, place) == caller' = [caller EXCEPT ![c].at = place]
Ends(c) == Becomes(c, Idle)

(* lease.release(), which only the holder can do. *)
Releases(c) == lease' = IF lease = c THEN NoCaller ELSE lease

(* updateDeploymentStatus: an UPDATE, which finds no row once it is gone.  *)
WithStatus(r, status) == IF r = NoRow THEN NoRow ELSE [r EXCEPT !.status = status]

(* saveDeployment, registerDeploymentStart: upserts that leave the digests *)
(* of a row alone and insert a row without any.                            *)
Upserted(r) == IF r = NoRow THEN NewRow ELSE r

(* Variants of saveDesiredApplicationSpec without its parent check, and    *)
(* with the status checked by the handler only.                            *)
SavesAnyParent(r, d, parent, rejected) ==
  r # NoRow /\ r.status \notin rejected

SavesAnyStatus(r, d, parent, rejected) ==
  r # NoRow /\ (r.desired = d \/ parent = Current(r))

(* saveDesiredApplicationSpec's transaction lets d become desired. *)
CanSave(r, d, parent, rejected) ==
  /\ r # NoRow
  /\ r.status \notin rejected
  /\ r.desired = d \/ parent = Current(r)

(* What it then writes. *)
Saves(r, d) ==
  /\ revisions' = revisions \cup {d}
  /\ transitions' = IF r.desired = d THEN transitions
                    ELSE Append(transitions, [from |-> Current(r), to |-> d])

(* activateDesiredApplicationSpec(d) succeeds on row r. *)
CanActivate(r, d) == r.desired = d /\ d \in revisions

RevisionInit ==
  /\ row = NoRow /\ revisions = {} /\ transitions = <<>>
  /\ runtime = NoDigest
  /\ lease = NoCaller
  /\ caller = [c \in Callers |-> Idle]
  /\ disturbed = FALSE
  /\ crashes = 0

(* Bound on the history: callers that may still record a transition. *)
Changers == {c \in Callers : caller[c].at \in
               {"upload-queued", "upload-staged", "editing", "scale-reading"}}
MayChange == Len(transitions) + Cardinality(Changers) < MaxChanges

-----------------------------------------------------------------------------
(* POST /api/upload.  The deployment is read before the wait for a slot.   *)
UploadArrives(c) ==
  /\ At(c, "idle") /\ MayChange
  /\ \E d \in Digests, b \in Digest, replace \in BOOLEAN :
       /\ replace => b = NoDigest
       /\ Becomes(c, [at |-> "upload-queued", seen |-> row, cand |-> d, base |-> b,
                      replace |-> replace])
  /\ UNCHANGED <<row, revisions, transitions, runtime, lease, disturbed, crashes>>

(* acquireDeploySlot resolves. *)
UploadAdmitted(c) ==
  /\ At(c, "upload-queued") /\ lease = NoCaller
  /\ lease' = c
  /\ Moves(c, "upload-staged")
  /\ UNCHANGED <<row, revisions, transitions, runtime, disturbed, crashes>>

(* A conflict, a client gone while it queued, an unreadable archive, a     *)
(* blocked or unconfirmed plan: nothing is written and the lease goes back.*)
UploadRefused(c) ==
  /\ At(c, "upload-staged")
  /\ Releases(c) /\ Ends(c)
  /\ UNCHANGED <<row, revisions, transitions, runtime, disturbed, crashes>>

(* admitRepositoryRevision *)
AdmitsRevision(cur, d, b, replace) ==
  \/ d = cur
  \/ cur = NoDigest /\ b = NoDigest
  \/ cur # NoDigest /\ (b = cur \/ replace)

(* repositoryUploadCanSkipRuntime, on the deployment read on arrival. *)
CanSkipRuntime(r, d, forced, sourceChanged) ==
  /\ ~ forced
  /\ d = Current(r)
  /\ r.active # NoDigest
  /\ \/ r.desired # NoDigest /\ r.desired # r.active
     \/ r.status = "running" /\ ~ sourceChanged

(* From the swap of the source directory to the executor: both checks use  *)
(* the deployment read on arrival, the parent of the new revision is read  *)
(* now.                                                                    *)
UploadCommits(c) ==
  /\ At(c, "upload-staged")
  /\ AdmitsRevision(Current(caller[c].seen), caller[c].cand, caller[c].base,
                    caller[c].replace)
  /\ LET d == caller[c].cand
         r == Upserted(row)
     IN \E forced, sourceChanged \in BOOLEAN :
          IF row # NoRow /\ CanSkipRuntime(caller[c].seen, d, forced, sourceChanged)
            THEN /\ CanSave(row, d, Current(row), {})
                 /\ row' = [row EXCEPT !.desired = d]
                 /\ Saves(row, d)
                 /\ Releases(c) /\ Ends(c)
            ELSE /\ CanSave(r, d, Current(row), {})
                 /\ row' = [r EXCEPT !.desired = d, !.status = "building"]
                 /\ Saves(r, d)
                 /\ Becomes(c, [Idle EXCEPT !.at = "uploading", !.cand = d])
                 /\ UNCHANGED lease
  /\ UNCHANGED <<runtime, disturbed, crashes>>

(* The response of a deploy that is not detached closes: the listener on   *)
(* 'close' releases the lease, the build goes on.                          *)
ClientHangsUp(c) ==
  /\ At(c, "uploading") /\ lease = c
  /\ lease' = NoCaller
  /\ disturbed' = TRUE
  /\ UNCHANGED <<row, revisions, transitions, runtime, caller, crashes>>

(* converge resolved: status, row and active revision in one go. *)
UploadConverged(c) ==
  /\ At(c, "uploading")
  /\ LET r == Upserted(row)
         d == caller[c].cand
     IN /\ runtime' = d
        /\ row' = IF CanActivate(r, d)
                    THEN [r EXCEPT !.status = "running", !.active = d]
                    ELSE [r EXCEPT !.status = "failed"]
  /\ Releases(c) /\ Ends(c)
  /\ UNCHANGED <<revisions, transitions, disturbed, crashes>>

(* converge rejected, possibly after it replaced the instances. *)
UploadFails(c) ==
  /\ At(c, "uploading")
  /\ runtime' \in {runtime, caller[c].cand}
  /\ row' = WithStatus(row, "failed")
  /\ Releases(c) /\ Ends(c)
  /\ UNCHANGED <<revisions, transitions, disturbed, crashes>>

(* prepare resolved: the images are built, configuration is missing. *)
UploadGated(c) ==
  /\ At(c, "uploading")
  /\ row' = WithStatus(row, "configuration-required")
  /\ Releases(c) /\ Ends(c)
  /\ UNCHANGED <<revisions, transitions, runtime, disturbed, crashes>>

-----------------------------------------------------------------------------
(* PUT application: the deployment is read, then the body. *)
EditArrives(c) ==
  /\ At(c, "idle") /\ MayChange
  /\ row # NoRow /\ row.status \notin PreContainer
  /\ \E d \in Digests :
       Becomes(c, [Idle EXCEPT !.at = "editing", !.seen = ForEdit(row), !.cand = d])
  /\ UNCHANGED <<row, revisions, transitions, runtime, lease, disturbed, crashes>>

EditSaves(c) ==
  /\ At(c, "editing")
  /\ CanSave(row, caller[c].cand, Current(caller[c].seen), PreContainer)
  /\ row' = [row EXCEPT !.desired = caller[c].cand]
  /\ Saves(row, caller[c].cand)
  /\ Ends(c)
  /\ UNCHANGED <<runtime, lease, disturbed, crashes>>

(* The body's expected parent or plan is refused, or the store throws. *)
EditRefused(c) ==
  /\ At(c, "editing")
  /\ Ends(c)
  /\ UNCHANGED <<row, revisions, transitions, runtime, lease, disturbed, crashes>>

-----------------------------------------------------------------------------
(* POST application-apply *)
ApplyArrives(c) ==
  /\ At(c, "idle") /\ row # NoRow
  /\ Moves(c, "apply-queued")
  /\ UNCHANGED <<row, revisions, transitions, runtime, lease, disturbed, crashes>>

(* The deployment is read under the lease, then the body. *)
ApplyAdmitted(c) ==
  /\ At(c, "apply-queued") /\ lease = NoCaller
  /\ IF row = NoRow
       THEN Ends(c) /\ UNCHANGED lease
       ELSE /\ lease' = c
            /\ Becomes(c, [Idle EXCEPT !.at = "apply-reading", !.seen = row])
  /\ UNCHANGED <<row, revisions, transitions, runtime, disturbed, crashes>>

(* The body names the desired revision as it was read. *)
ApplyStarts(c) ==
  /\ At(c, "apply-reading")
  /\ LET d == Current(caller[c].seen)
     IN /\ d \in revisions /\ d # caller[c].seen.active
        /\ row' = WithStatus(row, "recreating")
        /\ Becomes(c, [caller[c] EXCEPT !.at = "applying", !.cand = d])
  /\ UNCHANGED <<revisions, transitions, runtime, lease, disturbed, crashes>>

(* It does not, or nothing differs, or the plan is refused; or only        *)
(* configuration is missing.                                               *)
ApplyEnds(c) ==
  /\ At(c, "apply-reading")
  /\ row' \in {row, WithStatus(row, "configuration-required")}
  /\ Releases(c) /\ Ends(c)
  /\ UNCHANGED <<revisions, transitions, runtime, disturbed, crashes>>

ApplyConverged(c) ==
  /\ At(c, "applying")
  /\ LET d == caller[c].cand
     IN /\ runtime' = d
        /\ row' = IF CanActivate(row, d)
                    THEN [row EXCEPT !.status = "running", !.active = d]
                    ELSE WithStatus(row, caller[c].seen.status)
  /\ Releases(c) /\ Ends(c)
  /\ UNCHANGED <<revisions, transitions, disturbed, crashes>>

ApplyFails(c) ==
  /\ At(c, "applying")
  /\ runtime' \in {runtime, caller[c].cand}
  /\ row' = WithStatus(row, caller[c].seen.status)
  /\ Releases(c) /\ Ends(c)
  /\ UNCHANGED <<revisions, transitions, disturbed, crashes>>

-----------------------------------------------------------------------------
(* POST recreate: replaces the instances of the active revision. *)
RecreateArrives(c) ==
  /\ At(c, "idle") /\ row # NoRow
  /\ Moves(c, "recreate-queued")
  /\ UNCHANGED <<row, revisions, transitions, runtime, lease, disturbed, crashes>>

RecreateAdmitted(c) ==
  /\ At(c, "recreate-queued") /\ lease = NoCaller
  /\ IF row.active \in revisions /\ row.status \notin PreContainer
       THEN \/ /\ lease' = c
               /\ Becomes(c, [Idle EXCEPT !.at = "recreating", !.seen = row])
               /\ row' = WithStatus(row, "recreating")
            \/ /\ row' = WithStatus(row, "configuration-required")
               /\ Ends(c) /\ UNCHANGED lease
       ELSE Ends(c) /\ UNCHANGED <<row, lease>>
  /\ UNCHANGED <<revisions, transitions, runtime, disturbed, crashes>>

RecreateConverged(c) ==
  /\ At(c, "recreating")
  /\ runtime' = caller[c].seen.active
  /\ row' = [Upserted(row) EXCEPT !.status = "running"]
  /\ Releases(c) /\ Ends(c)
  /\ UNCHANGED <<revisions, transitions, disturbed, crashes>>

(* A variant that would leave the status as it set it. *)
RecreateForgetsStatus(c) ==
  /\ At(c, "recreating")
  /\ Releases(c) /\ Ends(c)
  /\ UNCHANGED <<row, revisions, transitions, runtime, disturbed, crashes>>

RecreateFails(c) ==
  /\ At(c, "recreating")
  /\ runtime' \in {runtime, caller[c].seen.active}
  /\ row' = WithStatus(row, caller[c].seen.status)
  /\ Releases(c) /\ Ends(c)
  /\ UNCHANGED <<revisions, transitions, disturbed, crashes>>

-----------------------------------------------------------------------------
(* PUT components/:component/scale, default scope: no lease, no status     *)
(* check.  The deployment is read, then the body.                          *)
ScaleArrives(c) ==
  /\ At(c, "idle") /\ MayChange
  /\ row # NoRow
  /\ \E d \in Digests \ {Current(row)} :
       Becomes(c, [Idle EXCEPT !.at = "scale-reading", !.seen = ForEdit(row), !.cand = d])
  /\ UNCHANGED <<row, revisions, transitions, runtime, lease, disturbed, crashes>>

(* The new revision is recorded; without its configuration it waits. *)
ScaleStarts(c) ==
  /\ At(c, "scale-reading")
  /\ Current(caller[c].seen) \in revisions
  /\ CanSave(row, caller[c].cand, Current(caller[c].seen), {})
  /\ row' = [row EXCEPT !.desired = caller[c].cand]
  /\ Saves(row, caller[c].cand)
  /\ Becomes(c, [Idle EXCEPT !.at = "scaling", !.cand = caller[c].cand]) \/ Ends(c)
  /\ disturbed' = TRUE
  /\ UNCHANGED <<runtime, lease, crashes>>

ScaleRefused(c) ==
  /\ At(c, "scale-reading")
  /\ Ends(c)
  /\ UNCHANGED <<row, revisions, transitions, runtime, lease, disturbed, crashes>>

ScaleConverged(c) ==
  /\ At(c, "scaling")
  /\ LET d == caller[c].cand
     IN /\ runtime' = d
        /\ row' = IF CanActivate(row, d)
                    THEN [row EXCEPT !.status = "running", !.active = d]
                    ELSE row
  /\ Ends(c)
  /\ UNCHANGED <<revisions, transitions, lease, disturbed, crashes>>

ScaleFails(c) ==
  /\ At(c, "scaling")
  /\ runtime' \in {runtime, caller[c].cand}
  /\ Ends(c)
  /\ UNCHANGED <<row, revisions, transitions, lease, disturbed, crashes>>

-----------------------------------------------------------------------------
(* DELETE: no lease; the instances are removed, then the row and all that  *)
(* is kept under its name.                                                 *)
DeleteArrives(c) ==
  /\ At(c, "idle") /\ row # NoRow
  /\ Moves(c, "deleting")
  /\ disturbed' = TRUE
  /\ UNCHANGED <<row, revisions, transitions, runtime, lease, crashes>>

DeleteFinishes(c) ==
  /\ At(c, "deleting")
  /\ row' = NoRow /\ revisions' = {} /\ transitions' = <<>>
  /\ runtime' = NoDigest
  /\ Ends(c)
  /\ UNCHANGED <<lease, disturbed, crashes>>

DeleteFails(c) ==
  /\ At(c, "deleting")
  /\ runtime' \in {runtime, NoDigest}
  /\ Ends(c)
  /\ UNCHANGED <<row, revisions, transitions, lease, disturbed, crashes>>

-----------------------------------------------------------------------------
(* The graph supervisor: one pass at a time. *)
Supervisable(r) == r.status \in Reconcilable /\ r.active \in revisions

SuperviseArrives(c) ==
  /\ At(c, "idle")
  /\ \A o \in Callers :
       caller[o].at \notin {"supervise-queued", "supervising", "supervise-failed"}
  /\ Supervisable(row)
  /\ Moves(c, "supervise-queued")
  /\ UNCHANGED <<row, revisions, transitions, runtime, lease, disturbed, crashes>>

SuperviseAdmitted(c) ==
  /\ At(c, "supervise-queued") /\ lease = NoCaller
  /\ IF Supervisable(row)
       THEN /\ lease' = c
            /\ Becomes(c, [Idle EXCEPT !.at = "supervising", !.seen = ForConverge(row)])
       ELSE Ends(c) /\ UNCHANGED lease
  /\ UNCHANGED <<row, revisions, transitions, runtime, disturbed, crashes>>

(* A variant of the supervisor that would write the active digest back. *)
SuperviseWritesDigest(c) ==
  /\ At(c, "supervising")
  /\ runtime' = caller[c].seen.active
  /\ row' = [Upserted(row) EXCEPT !.status = "running",
                                  !.active = caller[c].seen.active]
  /\ Releases(c) /\ Ends(c)
  /\ UNCHANGED <<revisions, transitions, disturbed, crashes>>

(* saveDeployment with the values read before converge. *)
SuperviseConverged(c) ==
  /\ At(c, "supervising")
  /\ runtime' = caller[c].seen.active
  /\ row' = [Upserted(row) EXCEPT !.status = "running"]
  /\ Releases(c) /\ Ends(c)
  /\ UNCHANGED <<revisions, transitions, disturbed, crashes>>

(* The finally block releases the lease; onError runs afterwards, behind   *)
(* the first synchronous part of whoever was waiting for it.               *)
SuperviseFails(c) ==
  /\ At(c, "supervising")
  /\ runtime' \in {runtime, caller[c].seen.active}
  /\ Releases(c) /\ Becomes(c, [Idle EXCEPT !.at = "supervise-failed"])
  /\ UNCHANGED <<row, revisions, transitions, disturbed, crashes>>

SuperviseOnError(c) ==
  /\ At(c, "supervise-failed")
  /\ row' = WithStatus(row, "degraded")
  /\ disturbed' = (disturbed \/ lease # NoCaller)
  /\ Ends(c)
  /\ UNCHANGED <<revisions, transitions, runtime, lease, crashes>>

-----------------------------------------------------------------------------
(* The control process dies and starts again: cleanupStaleBuildLogs, then  *)
(* startAllContainers, which lists the deployments before it awaits.       *)
Cleaned(r) ==
  IF r.status \in {"building", "starting"} THEN WithStatus(r, "unknown") ELSE r

Crash ==
  /\ crashes < MaxCrashes
  /\ crashes' = crashes + 1
  /\ row' = Cleaned(row)
  /\ lease' = NoCaller
  /\ runtime' \in {runtime} \cup {caller[c].cand : c \in {o \in Callers :
                        caller[o].at \in {"uploading", "applying", "scaling"}}}
  /\ disturbed' = TRUE
  /\ \E c \in Callers :
       caller' = [o \in Callers |->
                    IF o = c THEN [Idle EXCEPT !.at = "restarted", !.seen = ForConverge(row)]
                    ELSE Idle]
  /\ UNCHANGED <<revisions, transitions>>

(* startContainer of startAllContainers, for a graph: no lease. *)
BootStarts(c) ==
  /\ At(c, "restarted")
  /\ IF caller[c].seen.active \in revisions
       THEN \/ row' = WithStatus(row, "starting") /\ Moves(c, "booting")
            \/ row' = WithStatus(row, "configuration-required") /\ Ends(c)
       ELSE Ends(c) /\ UNCHANGED row
  /\ disturbed' = TRUE
  /\ UNCHANGED <<revisions, transitions, runtime, lease, crashes>>

BootConverged(c) ==
  /\ At(c, "booting")
  /\ runtime' = caller[c].seen.active
  /\ row' = [Upserted(row) EXCEPT !.status = "running"]
  /\ Ends(c)
  /\ UNCHANGED <<revisions, transitions, lease, disturbed, crashes>>

(* The error is logged and the status stays as it is. *)
BootFails(c) ==
  /\ At(c, "booting")
  /\ runtime' \in {runtime, caller[c].seen.active}
  /\ Ends(c)
  /\ UNCHANGED <<row, revisions, transitions, lease, disturbed, crashes>>

-----------------------------------------------------------------------------
AtRest == \A c \in Callers : caller[c].at = "idle"

(* Not a step of the code: the history starts afresh once all is at rest   *)
(* and no trace of the disturbance is left in the row.                     *)
Forget ==
  /\ disturbed /\ AtRest /\ row.status \notin PreContainer
  /\ disturbed' = FALSE
  /\ UNCHANGED <<row, revisions, transitions, runtime, lease, caller, crashes>>

(* The continuations of a settled promise, which run before anything else. *)
Admitted(c) ==
  UploadAdmitted(c) \/ ApplyAdmitted(c) \/ RecreateAdmitted(c) \/ SuperviseAdmitted(c)

Uploads(c) ==
  UploadArrives(c) \/ UploadRefused(c) \/ UploadCommits(c) \/ ClientHangsUp(c)
    \/ UploadConverged(c) \/ UploadFails(c) \/ UploadGated(c)
Edits(c) == EditArrives(c) \/ EditSaves(c) \/ EditRefused(c)
Applies(c) ==
  ApplyArrives(c) \/ ApplyStarts(c) \/ ApplyEnds(c) \/ ApplyConverged(c) \/ ApplyFails(c)
Recreates(c) == RecreateArrives(c) \/ RecreateConverged(c) \/ RecreateFails(c)
Scales(c) ==
  ScaleArrives(c) \/ ScaleStarts(c) \/ ScaleRefused(c) \/ ScaleConverged(c) \/ ScaleFails(c)
Deletes(c) == DeleteArrives(c) \/ DeleteFinishes(c) \/ DeleteFails(c)
Supervises(c) == SuperviseArrives(c) \/ SuperviseConverged(c) \/ SuperviseFails(c)
Boots(c) == BootStarts(c) \/ BootConverged(c) \/ BootFails(c)

RevisionNext ==
  \/ \E c \in Callers : Admitted(c) \/ SuperviseOnError(c)
  \/ /\ \A c \in Callers : caller[c].at # "supervise-failed"
     /\ \/ \E c \in Callers :
             \/ Uploads(c) \/ Edits(c) \/ Applies(c) \/ Recreates(c)
             \/ Scales(c) \/ Deletes(c) \/ Supervises(c) \/ Boots(c)
        \/ Crash
        \/ Forget

RevisionSpec == RevisionInit /\ [][RevisionNext]_revisionVars

-----------------------------------------------------------------------------
RevisionTypeOK ==
  /\ row \in Row
  /\ revisions \subseteq Digests
  /\ transitions \in Seq([from : Digest, to : Digests])
  /\ runtime \in Digest
  /\ lease \in Callers \cup {NoCaller}
  /\ caller \in [Callers -> Caller]
  /\ disturbed \in BOOLEAN
  /\ crashes \in 0..MaxCrashes

(* What the row desires and what it calls active are recorded revisions,   *)
(* whatever a deletion, a late build and the supervisor write back.        *)
DigestsRecorded ==
  {row.desired, row.active} \ {NoDigest} \subseteq revisions

(* The transitions are one chain that ends at the desired revision: each   *)
(* starts from what was desired when it was recorded.                      *)
TransitionsChain ==
  /\ \A i \in 1..Len(transitions) - 1 : transitions[i].to = transitions[i + 1].from
  /\ transitions # <<>> => row.desired = transitions[Len(transitions)].to

(* What holds whatever hangs up, crashes or comes late: the row names      *)
(* recorded revisions, and how it came to them is one line of transitions. *)
RevisionsSound == RevisionTypeOK /\ DigestsRecorded /\ TransitionsChain

(* Two callers converge under a lease at once only after one lost it to a  *)
(* client that hung up: a leased caller still at work holds the lease.     *)
BuildsAlone ==
  ~ disturbed =>
    \A c, o \in Callers :
      caller[c].at \in Converging /\ caller[o].at \in Converging => c = o

(* While an upload, an apply or a recreate is at work the row says so,     *)
(* which is all that keeps edits out.                                      *)
BuildIsVisible ==
  ~ disturbed =>
    \A c \in Callers :
      caller[c].at \in {"uploading", "applying", "recreating"} =>
        row.status \in PreContainer

(* The revision an upload builds is the desired one until it is activated: *)
(* neither an edit nor another upload slips in between.                    *)
BuildStaysDesired ==
  ~ disturbed =>
    \A c \in Callers : At(c, "uploading") => row.desired = caller[c].cand

(* A build that nothing without a lease disturbed is alone, shows in the   *)
(* row, and builds what is desired.                                        *)
BuildsUndisturbed == BuildsAlone /\ BuildIsVisible /\ BuildStaysDesired

(* A row that says it is being worked on is: "recreating" and "building"   *)
(* never outlive the caller that set them, since they lock the editor and  *)
(* recreate out.                                                           *)
StatusIsSomeones ==
  ~ disturbed /\ row.status \in PreContainer =>
    \E c \in Callers : caller[c].at \in Converging

(* An edit or a scale replaces exactly the revision its author was shown.  *)
NoLostEditStep ==
  \A c \in Callers :
    /\ caller[c].at \in {"editing", "scale-reading"}
    /\ caller'[c] # caller[c] /\ row'.desired # row.desired
    /\ row' # NoRow
    => Current(row) = Current(caller[c].seen)

NoLostEdit == [][NoLostEditStep]_revisionVars
=============================================================================
