------------------------- MODULE DataLineageProofs -------------------------
(***************************************************************************)
(* Theorems about DataLineage, for any suitcases, keys, conflict policy    *)
(* and bounds.                                                             *)
(***************************************************************************)
EXTENDS DataLineage, TLAPS

-----------------------------------------------------------------------------
(* TYPES                                                                   *)

Statuses == Unfinished \cup {"applied"}
CheckpointRow == [data : Data, parent : Nat, from : Nat]
ChangesetRow ==
  [site : Sites, base : Nat, data : Data, status : Statuses, open : SUBSET Keys,
   resolution : [Keys -> Resolutions]]
Askers == {"exchange", "admin", "sweep"}
JobRow ==
  [at : {"idle", "capture", "apply", "commit", "adopt"}, origin : Sites,
   by : Askers \cup {"none"}, todo : SUBSET Nat, own : BOOLEAN]

(* Home's tables: a checkpoint names a parent and a changeset there were   *)
(* before it, a changeset a base there is; what is open is of a conflict.  *)
TablesInv ==
  /\ checkpoints \in Seq(CheckpointRow) /\ changesets \in Seq(ChangesetRow)
  /\ \A i \in DOMAIN checkpoints :
       /\ checkpoints[i].parent < i /\ checkpoints[i].from <= Len(changesets)
       /\ checkpoints[i].from # 0 => checkpoints[i].parent # 0
  /\ \A i \in DOMAIN changesets :
       /\ changesets[i].base \in 1..Latest
       /\ changesets[i].open # {} => changesets[i].status = "conflicted"
  /\ base \in [Sites -> Nat] /\ \A site \in Sites : base[site] <= Latest
  /\ base[Home] = 0 => Latest = 0

VolumesInv ==
  volume \in [Sites -> Data] /\ up \subseteq Suitcases /\ restored \subseteq Sites

MarkersInv ==
  /\ marker \in [Sites -> SUBSET (Nat \X Nat)] /\ revision \in [Sites -> Nat]
  /\ \A site \in Sites :
       /\ revision[site] <= count.faults
       /\ \A m \in marker[site] : m[1] \in 1..Latest /\ m[2] <= count.faults

WiresInv ==
  /\ selection \in [Suitcases -> Seq(Nat)]
  /\ branch \in [Suitcases -> [base : Nat, data : Data, sent : BOOLEAN]]
  /\ \A s \in Suitcases :
       /\ \A n \in DOMAIN selection[s] : selection[s][n] \in 1..Latest
       /\ branch[s].base <= Latest
       /\ branch[s] # NoBranch => branch[s].base # 0

CountsInv ==
  /\ writes \in Writes /\ dropped \subseteq Writes
  /\ count \in [selections : Nat, faults : 0..MaxFaults]

SitesInv == VolumesInv /\ MarkersInv /\ WiresInv /\ CountsInv

(* The coordinator is at work only when there is a checkpoint; what a      *)
(* reconciliation has to do is pending; its adoption is its last step and  *)
(* restores what was the latest then.                                      *)
CoordinatorInv ==
  /\ queue \in Seq([origin : Sites, by : Askers]) /\ job \in JobRow
  /\ sweep \in [at : {"off", "next", "waiting", "adopt"}, todo : SUBSET Sites]
  /\ adoption \in [Callers -> [at : {"none", "choose", "restore", "mark"}, target : Nat]]
  /\ queue # <<>> \/ job.at # "idle" \/ sweep.at # "off" => Latest # 0
  /\ \A n \in job.todo : n \in DOMAIN changesets /\ changesets[n].status = "pending"
  /\ \A p \in Callers :
       /\ adoption[p].at # "none" => Latest # 0
       /\ adoption[p].at \in {"restore", "mark"} => adoption[p].target \in 1..Latest
  /\ adoption["job"].at # "none" => job.at = "adopt"
  /\ adoption["job"].at \in {"restore", "mark"} => adoption["job"].target = Latest

TypesInv == TablesInv /\ SitesInv /\ CoordinatorInv

-----------------------------------------------------------------------------
(* CHECKPOINTS                                                             *)

(* LineageKeeps of every number there is, and not only of those written.   *)
LineageAt(i) ==
  checkpoints[i].from # 0 /\ Grounded(changesets[checkpoints[i].from]) =>
    \A w :
      Within(w, checkpoints[checkpoints[i].parent].data) =>
        Within(w, checkpoints[i].data) \/ w \in dropped

LineageInv == \A i \in DOMAIN checkpoints : LineageAt(i)

-----------------------------------------------------------------------------
(* MARKERS                                                                 *)

Holds(d, site) == \A w : Within(w, d) => Within(w, volume[site])

(* What a suitcase selects never goes back, so that a marker is for its    *)
(* base or for one it will not have again.                                 *)
SelectionUp(s) ==
  /\ \A n \in DOMAIN selection[s] : base[s] <= selection[s][n]
  /\ \A n, k \in DOMAIN selection[s] : n <= k => selection[s][n] <= selection[s][k]

SuitcaseMarkerAt(s) ==
  /\ \A m \in marker[s] :
       m[1] <= base[s] /\ (m[1] = base[s] => Holds(checkpoints[m[1]].data, s))
  /\ SelectionUp(s)

SuitcaseMarkerInv == \A s \in Suitcases : SuitcaseMarkerAt(s)

(* Home's marker for the latest checkpoint is there, or about to be.       *)
LatestHeld == Holds(checkpoints[Latest].data, Home)

HomeMarkerInv ==
  ~ overtaken =>
    /\ \A m \in marker[Home] : m[1] = Latest => LatestHeld
    /\ \A p \in Callers :
         adoption[p].at = "mark" /\ adoption[p].target = Latest => LatestHeld

-----------------------------------------------------------------------------
(* WRITES                                                                  *)

BuildsOn(b, d) == (\A k \in Keys : b.main[k] \subseteq d.main[k]) /\ b.copies \subseteq d.copies

(* A write that is in Home's hands. *)
Saved(w) ==
  \/ w \in dropped
  \/ Latest # 0 /\ Within(w, checkpoints[Latest].data)
  \/ \E i \in DOMAIN changesets :
       changesets[i].status # "applied" /\ Within(w, changesets[i].data)

(* Every branch builds on its base. *)
BranchesGrounded ==
  /\ \A i \in DOMAIN changesets : Grounded(changesets[i])
  /\ \A s \in Suitcases :
       branch[s].base # 0 => BuildsOn(checkpoints[branch[s].base].data, branch[s].data)

(* Checkpoints only lose what somebody decided against, and no copy.       *)
OneLine ==
  \A i, j \in DOMAIN checkpoints : i <= j =>
    /\ checkpoints[i].data.copies \subseteq checkpoints[j].data.copies
    /\ \A w : Within(w, checkpoints[i].data) => Within(w, checkpoints[j].data) \/ w \in dropped

(* A suitcase has one base all its life, and its volume starts from it.    *)
OneBaseAt(s) ==
  /\ s \notin restored => volume[s] = Empty /\ s \notin up
  /\ s \in restored =>
       /\ base[s] # 0 /\ <<base[s], revision[s]>> \in marker[s]
       /\ BuildsOn(checkpoints[base[s]].data, volume[s])
  /\ base[s] # 0 => selection[s] = <<>>
  /\ Len(selection[s]) <= 1

OneBase == \A s \in Suitcases : OneBaseAt(s)

(* What is merged and not yet committed is in the latest checkpoint. *)
MergedIsIn ==
  job.at = "commit" =>
    \A i \in DOMAIN changesets : IsNext(i) =>
      \A w : Within(w, changesets[i].data) =>
        Within(w, checkpoints[Latest].data) \/ w \in dropped

(* From its capture to the adoption Home's volume holds nothing that the   *)
(* restore would lose.                                                     *)
HomeIsSaved == AwaitingAdoption => \A w : Within(w, volume[Home]) => Saved(w)

WritesInv ==
  ~ disturbed =>
    BranchesGrounded /\ OneLine /\ OneBase /\ MergedIsIn /\ HomeIsSaved /\ NoWriteLost

(* Data: what a write, a merge and the first volumes are made of.          *)
LEMMA EmptyIsData == Empty \in Data
BY DEF Empty, Data, Contents

LEMMA WrittenIsData ==
  ASSUME NEW d \in Data, NEW k \in Keys, NEW n \in Writes
  PROVE  [d EXCEPT !.main[k] = @ \cup {n}] \in Data
BY DEF Data, Contents

LEMMA MergedIsData ==
  ASSUME NEW b, NEW h \in Data, NEW s \in Data, NEW resolution, NEW policy
  PROVE  Merged(b, h, s, resolution, policy) \in Data
<1>1. \A k \in Keys : MergedKey(k, b, h, s, resolution, policy) \in Contents
  BY DEF MergedKey, ThreeWay, Data
<1>2. KeptBeside(b, h, s, resolution) \subseteq Keys \X Contents
  BY DEF KeptBeside, Clashes, Data
<1>3. {c \in h.copies \cup s.copies : ThreeWay(c \in b.copies, c \in h.copies, c \in s.copies)}
        \subseteq Keys \X Contents
  BY DEF Data
<1> QED BY <1>1, <1>2, <1>3 DEF Merged, Data

LEMMA LeftOutIsWrites ==
  ASSUME NEW b, NEW h \in Data, NEW s \in Data, NEW merged
  PROVE  LeftOut(b, h, s, merged) \subseteq Writes
BY DEF LeftOut, Clashes, Data, Contents

-----------------------------------------------------------------------------
(* The steps that change Home's tables. *)
LEMMA TableMoves ==
  ASSUME [DataNext]_dataVars
  PROVE  \/ UNCHANGED homeVars
         \/ CaptureHome
         \/ \E s \in Suitcases : SelectReplica(s) \/ ProjectSelection(s) \/ Exchange(s)
         \/ \E i \in DOMAIN changesets :
              ApplyConflicts(i) \/ ApplyMerges(i) \/ ApplyCommits(i) \/ ApplyBlocks(i)
         \/ \E i \in DOMAIN changesets, k \in Keys, choice \in Resolutions \ {"none"} :
              ResolveConflict(i, k, choice)
<1>1. CASE UNCHANGED dataVars
  BY <1>1 DEF dataVars
<1>2. CASE Reconciles \/ Sweeps
  BY <1>2 DEF Reconciles, Sweeps, StartJob, ApplyDone, Adopts, ChooseCheckpoint, RestoreHome,
              MarkRestored, SweepAdopts, SweepOrigin, homeVars
<1>3. CASE Fails
  BY <1>3 DEF Fails, CaptureHomeFails, ApplyThrows, RestartHome, RestoreHomeFails,
              CaptureUnrestored, CaptureBranch, MaterialiseCut, homeVars
<1>4. CASE \E site \in Sites : Revise(site) \/ \E k \in Keys : Write(site, k)
  BY <1>4 DEF Revise, Write, homeVars
<1>5. CASE \E s \in Suitcases :
             \/ SelectReplica(s) \/ ProjectSelection(s) \/ CaptureSuitcaseBranch(s)
             \/ MaterialiseReplica(s) \/ Exchange(s) \/ SupervisorStarts(s)
  BY <1>5 DEF CaptureSuitcaseBranch, CaptureBranch, MaterialiseReplica, SupervisorStarts,
              homeVars
<1> QED BY <1>1, <1>2, <1>3, <1>4, <1>5 DEF DataNext

(* Rows of a checkpoint never change; of a changeset only what is decided  *)
(* about it.                                                               *)
Grown ==
  /\ Latest <= Latest' /\ \A i \in DOMAIN checkpoints : checkpoints'[i] = checkpoints[i]
  /\ Len(changesets) <= Len(changesets')
  /\ \A i \in DOMAIN changesets :
       /\ changesets'[i].site = changesets[i].site /\ changesets'[i].base = changesets[i].base
       /\ changesets'[i].data = changesets[i].data

LEMMA AppendsCheckpoint ==
  ASSUME TablesInv, NEW c \in CheckpointRow, checkpoints' = Append(checkpoints, c)
  PROVE  /\ checkpoints' \in Seq(CheckpointRow) /\ Latest' = Latest + 1
         /\ \A i \in DOMAIN checkpoints : checkpoints'[i] = checkpoints[i]
         /\ checkpoints'[Latest + 1] = c
         /\ DOMAIN checkpoints = 1..Latest /\ DOMAIN checkpoints' = 1..(Latest + 1)
BY DEF TablesInv, Latest

LEMMA AppendsChangeset ==
  ASSUME TablesInv, NEW c \in ChangesetRow, changesets' = Append(changesets, c)
  PROVE  /\ changesets' \in Seq(ChangesetRow) /\ Len(changesets') = Len(changesets) + 1
         /\ \A i \in DOMAIN changesets : changesets'[i] = changesets[i]
         /\ changesets'[Len(changesets) + 1] = c
         /\ DOMAIN changesets = 1..Len(changesets)
         /\ DOMAIN changesets' = 1..(Len(changesets) + 1)
BY DEF TablesInv

LEMMA ChangesChangeset ==
  ASSUME TablesInv, NEW i \in DOMAIN changesets, NEW c \in ChangesetRow,
         changesets' = [changesets EXCEPT ![i] = c]
  PROVE  /\ changesets' \in Seq(ChangesetRow) /\ Len(changesets') = Len(changesets)
         /\ \A n \in DOMAIN changesets : changesets'[n] = IF n = i THEN c ELSE changesets[n]
         /\ DOMAIN changesets = 1..Len(changesets) /\ DOMAIN changesets' = 1..Len(changesets)
BY DEF TablesInv

LEMMA BranchIsRow ==
  ASSUME NEW site \in Sites, NEW from \in Nat, NEW data \in Data
  PROVE  /\ Changeset(site, from, data) \in ChangesetRow
         /\ Changeset(site, from, data).site = site
         /\ Changeset(site, from, data).base = from /\ Changeset(site, from, data).data = data
         /\ Changeset(site, from, data).open = {}
         /\ Changeset(site, from, data).status = "pending"
BY DEF Changeset, ChangesetRow, Statuses, Unfinished, Unresolved, Resolutions

(* A new changeset with a base there is, another decision about one. *)
LEMMA TablesAppend ==
  ASSUME TablesInv, UNCHANGED <<checkpoints, base>>,
         NEW site \in Sites, NEW from \in 1..Latest, NEW data \in Data,
         changesets' = Append(changesets, Changeset(site, from, data))
  PROVE  TablesInv' /\ Grown
<1> DEFINE c == Changeset(site, from, data)
<1>1. from \in Nat
  BY DEF TablesInv, Latest
<1>2. c \in ChangesetRow /\ c.base = from /\ c.open = {}
  BY <1>1, BranchIsRow
<1>3. changesets' = Append(changesets, c)
  OBVIOUS
<1> HIDE DEF c
<1>4. /\ changesets' \in Seq(ChangesetRow) /\ Len(changesets') = Len(changesets) + 1
      /\ \A i \in DOMAIN changesets : changesets'[i] = changesets[i]
      /\ changesets'[Len(changesets) + 1] = c
      /\ DOMAIN changesets = 1..Len(changesets)
      /\ DOMAIN changesets' = 1..(Len(changesets) + 1) /\ Len(changesets) \in Nat
  BY <1>2, <1>3, AppendsChangeset DEF TablesInv
<1>5. \A i \in DOMAIN changesets' : i \in DOMAIN changesets \/ i = Len(changesets) + 1
  BY <1>4
<1>6. Latest' = Latest /\ Latest \in Nat
  BY DEF Latest, TablesInv
<1>7. \A i \in DOMAIN changesets' :
       /\ changesets'[i].base \in 1..Latest
       /\ changesets'[i].open # {} => changesets'[i].status = "conflicted"
  BY <1>2, <1>4, <1>5 DEF TablesInv
<1>8. Grown
  BY <1>4, <1>6 DEF Grown
<1>9. \A i \in DOMAIN checkpoints :
        /\ checkpoints[i].parent < i /\ checkpoints[i].from <= Len(changesets')
        /\ checkpoints[i].from # 0 => checkpoints[i].parent # 0
  <2> SUFFICES ASSUME NEW i \in DOMAIN checkpoints
               PROVE  checkpoints[i].from <= Len(changesets')
    BY DEF TablesInv
  <2>1. checkpoints[i] \in CheckpointRow /\ checkpoints[i].from <= Len(changesets)
    BY DEF TablesInv
  <2>2. checkpoints[i].from \in Nat
    BY <2>1 DEF CheckpointRow
  <2> QED BY <1>4, <2>1, <2>2
<1>10. base' \in [Sites -> Nat] /\ (\A x \in Sites : base'[x] <= Latest')
       /\ (base'[Home] = 0 => Latest' = 0) /\ checkpoints' \in Seq(CheckpointRow)
  BY <1>6 DEF TablesInv
<1>11. \A i \in DOMAIN checkpoints' :
         /\ checkpoints'[i].parent < i /\ checkpoints'[i].from <= Len(changesets')
         /\ checkpoints'[i].from # 0 => checkpoints'[i].parent # 0
  BY <1>9
<1>12. TablesInv'
  BY <1>4, <1>6, <1>7, <1>10, <1>11 DEF TablesInv
<1> QED BY <1>8, <1>12

LEMMA TablesChange ==
  ASSUME TablesInv, UNCHANGED checkpoints, UNCHANGED base \/ base' = [base EXCEPT ![Home] = Latest],
         Latest # 0, NEW i \in DOMAIN changesets, NEW c \in ChangesetRow,
         changesets' = [changesets EXCEPT ![i] = c],
         c.site = changesets[i].site, c.base = changesets[i].base, c.data = changesets[i].data,
         c.open # {} => c.status = "conflicted"
  PROVE  TablesInv' /\ Grown
BY ChangesChangeset DEF TablesInv, Grown, Latest, Sites

LEMMA TablesStep ==
  ASSUME TypesInv, [DataNext]_dataVars
  PROVE  TablesInv' /\ Grown
<1> USE DEF TypesInv
<1>0. Latest \in Nat /\ DOMAIN changesets = 1..Len(changesets) /\ Len(changesets) \in Nat
      /\ DOMAIN checkpoints = 1..Latest
  BY DEF TablesInv, Latest
<1>00. \A i \in DOMAIN changesets : changesets[i] \in ChangesetRow /\ Latest # 0
  BY <1>0 DEF TablesInv
<1>1. CASE UNCHANGED homeVars
  BY <1>1 DEF homeVars, TablesInv, Grown, Latest
<1>2. CASE CaptureHome
  <2>1. base[Home] \in 1..Latest /\ volume[Home] \in Data /\ Home \in Sites
    BY <1>2 DEF CaptureHome, TablesInv, SitesInv, VolumesInv, CoordinatorInv, Latest, Sites
  <2>2. CASE UNCHANGED changesets
    BY <1>2, <2>2 DEF CaptureHome, TablesInv, Grown, Latest
  <2>3. CASE changesets' = Append(changesets, Changeset(Home, base[Home], volume[Home]))
    BY <1>2, <2>1, <2>3, TablesAppend DEF CaptureHome
  <2> QED BY <1>2, <2>2, <2>3 DEF CaptureHome
<1>3. ASSUME NEW s \in Suitcases, SelectReplica(s) PROVE TablesInv' /\ Grown
  <2>1. CASE checkpoints = <<>>
    <3> DEFINE c == [data |-> volume[Home], parent |-> 0, from |-> 0]
    <3>1. c \in CheckpointRow
      BY DEF SitesInv, VolumesInv, Sites, CheckpointRow
    <3>2. checkpoints' = Append(checkpoints, c)
      BY <1>3, <2>1 DEF SelectReplica
    <3>3. c.parent = 0 /\ c.from = 0
      OBVIOUS
    <3> HIDE DEF c
    <3>4. Latest = 0 /\ Latest' = 1 /\ Len(checkpoints') = 1 /\ base' = [base EXCEPT ![Home] = 1]
      BY <1>3, <2>1, <3>1, <3>2, AppendsCheckpoint DEF SelectReplica, Latest
    <3> QED BY <1>0, <1>3, <3>1, <3>2, <3>3, <3>4, AppendsCheckpoint
            DEF SelectReplica, TablesInv, Grown, Sites
  <2>2. CASE checkpoints # <<>>
    <3>1. base' = [base EXCEPT ![Home] = Latest] /\ Latest # 0 /\ Latest' = Latest
      BY <1>3, <2>2 DEF SelectReplica, Latest, TablesInv
    <3> QED BY <1>0, <1>3, <2>2, <3>1 DEF SelectReplica, TablesInv, Grown, Sites
  <2> QED BY <2>1, <2>2
<1>4. ASSUME NEW s \in Suitcases, ProjectSelection(s) PROVE TablesInv' /\ Grown
  <2>1. Head(selection[s]) \in 1..Latest
    BY <1>4 DEF ProjectSelection, SitesInv, WiresInv
  <2> QED BY <1>4, <2>1, HomeAssumption DEF ProjectSelection, TablesInv, Grown, Latest, Sites
<1>5. ASSUME NEW s \in Suitcases, Exchange(s) PROVE TablesInv' /\ Grown
  <2>1. CASE UNCHANGED changesets
    BY <1>5, <2>1 DEF Exchange, TablesInv, Grown, Latest
  <2>2. CASE changesets' # changesets
    <3>1. /\ changesets' = Append(changesets, Changeset(s, branch[s].base, branch[s].data))
          /\ branch[s] # NoBranch
      BY <1>5, <2>2 DEF Exchange
    <3>2. branch[s].base \in 1..Latest /\ branch[s].data \in Data /\ s \in Sites
      BY <1>0, <3>1 DEF SitesInv, WiresInv, Sites
    <3> QED BY <1>5, <3>1, <3>2, TablesAppend DEF Exchange
  <2> QED BY <2>1, <2>2
<1>6. ASSUME NEW i \in DOMAIN changesets, ApplyConflicts(i) PROVE TablesInv' /\ Grown
  <2>1. PICK open \in SUBSET Keys :
          changesets' = [changesets EXCEPT ![i].status = "conflicted", ![i].open = open]
    BY <1>6 DEF ApplyConflicts, Clashes
  <2> DEFINE c == [changesets[i] EXCEPT !.status = "conflicted", !.open = open]
  <2>2. c \in ChangesetRow /\ c.site = changesets[i].site /\ c.base = changesets[i].base
        /\ c.data = changesets[i].data /\ c.status = "conflicted"
    BY <1>00 DEF ChangesetRow, Statuses, Unfinished
  <2>3. changesets' = [changesets EXCEPT ![i] = c]
    BY <2>1
  <2> HIDE DEF c
  <2> QED BY <1>00, <1>6, <2>2, <2>3, TablesChange DEF ApplyConflicts
<1>7. ASSUME NEW i \in DOMAIN changesets, ApplyMerges(i) PROVE TablesInv' /\ Grown
  <2> DEFINE o == Operands(i)
             c == [data |-> Merged(o.b, o.h, o.s, o.resolution, o.policy),
                   parent |-> Latest, from |-> i]
  <2>1. o.h \in Data /\ o.s \in Data
    <3>1. checkpoints[Latest] \in CheckpointRow
      BY <1>0, <1>00 DEF TablesInv
    <3> QED BY <1>00, <3>1 DEF Operands, CheckpointRow, ChangesetRow
  <2>2. c.data \in Data
    BY <2>1, MergedIsData
  <2>3. checkpoints' = Append(checkpoints, c)
    BY <1>7 DEF ApplyMerges
  <2>4. c.parent = Latest /\ c.from = i
    OBVIOUS
  <2>5. c \in CheckpointRow
    BY <1>0, <2>2 DEF CheckpointRow
  <2> HIDE DEF o, c
  <2>6. UNCHANGED <<changesets, base>>
    BY <1>7 DEF ApplyMerges
  <2> QED BY <1>0, <1>00, <2>3, <2>4, <2>5, <2>6, AppendsCheckpoint DEF TablesInv, Grown
<1>8. ASSUME NEW i \in DOMAIN changesets, ApplyCommits(i) PROVE TablesInv' /\ Grown
  <2> DEFINE c == [changesets[i] EXCEPT !.status = "applied"]
  <2>1. c \in ChangesetRow /\ c.site = changesets[i].site /\ c.base = changesets[i].base
        /\ c.data = changesets[i].data
    BY <1>00 DEF ChangesetRow, Statuses
  <2>2. changesets' = [changesets EXCEPT ![i] = c]
    BY <1>8 DEF ApplyCommits
  <2>3. changesets[i].status = "pending"
    BY <1>8 DEF ApplyCommits, IsNext, CoordinatorInv
  <2>4. c.open = {}
    BY <1>00, <2>3 DEF TablesInv, ChangesetRow
  <2> HIDE DEF c
  <2> QED BY <1>00, <1>8, <2>1, <2>2, <2>4, TablesChange DEF ApplyCommits
<1>9. ASSUME NEW i \in DOMAIN changesets, ApplyBlocks(i) PROVE TablesInv' /\ Grown
  <2> DEFINE c == [changesets[i] EXCEPT !.status = "blocked"]
  <2>1. c \in ChangesetRow /\ c.site = changesets[i].site /\ c.base = changesets[i].base
        /\ c.data = changesets[i].data
    BY <1>00 DEF ChangesetRow, Statuses, Unfinished
  <2>2. changesets' = [changesets EXCEPT ![i] = c]
    BY <1>9 DEF ApplyBlocks
  <2>3. changesets[i].status = "pending"
    BY <1>9 DEF ApplyBlocks, Applying, IsNext, CoordinatorInv
  <2>4. c.open = {}
    BY <1>00, <2>3 DEF TablesInv, ChangesetRow
  <2> HIDE DEF c
  <2> QED BY <1>00, <1>9, <2>1, <2>2, <2>4, TablesChange DEF ApplyBlocks
<1>10. ASSUME NEW i \in DOMAIN changesets, NEW k \in Keys, NEW choice \in Resolutions \ {"none"},
              ResolveConflict(i, k, choice)
       PROVE  TablesInv' /\ Grown
  <2>1. PICK stored \in Resolutions, to \in Statuses :
          /\ changesets' = [changesets EXCEPT ![i].open = @ \ {k}, ![i].resolution[k] = stored,
                                              ![i].status = to]
          /\ changesets[i].open # {k} => to = changesets[i].status
          /\ k \in changesets[i].open
    BY <1>00, <1>10 DEF ResolveConflict, Swapped, Resolutions, ChangesetRow, Statuses, Unfinished
  <2> DEFINE c == [changesets[i] EXCEPT !.open = @ \ {k}, !.resolution[k] = stored, !.status = to]
  <2>2. changesets' = [changesets EXCEPT ![i] = c]
    BY <2>1
  <2>3. c \in ChangesetRow /\ c.site = changesets[i].site /\ c.base = changesets[i].base
        /\ c.data = changesets[i].data
    BY <1>00, <2>1 DEF ChangesetRow
  <2>4. c.open # {} => c.status = "conflicted"
    BY <1>00, <2>1 DEF ChangesetRow, TablesInv
  <2> HIDE DEF c
  <2> QED BY <1>00, <1>10, <2>2, <2>3, <2>4, TablesChange DEF ResolveConflict
<1> QED BY <1>1, <1>2, <1>3, <1>4, <1>5, <1>6, <1>7, <1>8, <1>9, <1>10, TableMoves

-----------------------------------------------------------------------------
(* The steps that change what is at the sites, or on the way. *)
LEMMA SiteMoves ==
  ASSUME [DataNext]_dataVars
  PROVE  \/ UNCHANGED <<siteVars, wireVars, writes, dropped>>
         \/ \E i \in DOMAIN changesets : ApplyMerges(i)
         \/ \E p \in Callers : ChooseCheckpoint(p) \/ RestoreHome(p) \/ MarkRestored(p)
         \/ \E site \in Sites : Revise(site) \/ \E k \in Keys : Write(site, k)
         \/ \E s \in Suitcases :
              \/ SelectReplica(s) \/ ProjectSelection(s) \/ Exchange(s)
              \/ (CaptureBranch(s) /\ (s \in restored \/ disturbed'))
              \/ MaterialiseReplica(s) \/ MaterialiseCut(s) \/ SupervisorStarts(s)
<1>1. CASE UNCHANGED dataVars
  BY <1>1 DEF dataVars, siteVars, wireVars, historyVars
<1>2. CASE Reconciles
  <2>1. CASE StartJob \/ CaptureHome \/ ApplyDone
    BY <2>1 DEF StartJob, CaptureHome, ApplyDone, siteVars, wireVars, historyVars
  <2>2. CASE Adopts("job")
    BY <2>2 DEF Adopts, Callers
  <2>3. CASE \E i \in DOMAIN changesets : ApplyConflicts(i) \/ ApplyCommits(i)
    BY <2>3 DEF ApplyConflicts, ApplyCommits, siteVars, wireVars, historyVars
  <2> QED BY <1>2, <2>1, <2>2, <2>3 DEF Reconciles
<1>3. CASE Sweeps
  <2>1. CASE Adopts("sweep")
    BY <2>1 DEF Adopts, Callers
  <2>2. CASE SweepAdopts \/ \E site \in Sites : SweepOrigin(site)
    BY <2>2 DEF SweepAdopts, SweepOrigin, siteVars, wireVars, historyVars
  <2> QED BY <1>3, <2>1, <2>2 DEF Sweeps
<1>4. CASE Fails
  BY <1>4 DEF Fails, CaptureHomeFails, ApplyThrows, RestartHome, ApplyBlocks, RestoreHomeFails,
              CaptureUnrestored, siteVars, wireVars, historyVars
<1>5. CASE \E site \in Sites : Revise(site) \/ \E k \in Keys : Write(site, k)
  BY <1>5
<1>6. CASE \E s \in Suitcases :
             \/ SelectReplica(s) \/ ProjectSelection(s) \/ CaptureSuitcaseBranch(s)
             \/ MaterialiseReplica(s) \/ Exchange(s) \/ SupervisorStarts(s)
  BY <1>6 DEF CaptureSuitcaseBranch
<1>7. CASE \E i \in DOMAIN changesets, k \in Keys, choice \in Resolutions \ {"none"} :
             ResolveConflict(i, k, choice)
  BY <1>7 DEF ResolveConflict, siteVars, wireVars, historyVars
<1> QED BY <1>1, <1>2, <1>3, <1>4, <1>5, <1>6, <1>7 DEF DataNext

LEMMA CountMoves ==
  ASSUME [DataNext]_dataVars
  PROVE  count' = count \/ Fault \/ count' = [count EXCEPT !.selections = @ + 1]
<1>1. CASE UNCHANGED dataVars
  BY <1>1 DEF dataVars
<1>2. CASE Reconciles \/ Sweeps
  BY <1>2 DEF Reconciles, Sweeps, StartJob, CaptureHome, ApplyDone, Adopts, ApplyConflicts,
              ApplyMerges, ApplyCommits, SweepAdopts, SweepOrigin, ChooseCheckpoint, RestoreHome,
              MarkRestored
<1>3. CASE Fails
  BY <1>3 DEF Fails, CaptureHomeFails, ApplyThrows, RestartHome, ApplyBlocks, RestoreHomeFails,
              CaptureUnrestored, MaterialiseCut
<1>4. CASE \E site \in Sites : Revise(site) \/ \E k \in Keys : Write(site, k)
  BY <1>4 DEF Revise, Write
<1>5. CASE \E s \in Suitcases :
             \/ SelectReplica(s) \/ ProjectSelection(s) \/ CaptureSuitcaseBranch(s)
             \/ MaterialiseReplica(s) \/ Exchange(s) \/ SupervisorStarts(s)
  BY <1>5 DEF SelectReplica, ProjectSelection, CaptureSuitcaseBranch, MaterialiseReplica,
              Exchange, SupervisorStarts
<1>6. CASE \E i \in DOMAIN changesets, k \in Keys, choice \in Resolutions \ {"none"} :
             ResolveConflict(i, k, choice)
  BY <1>6 DEF ResolveConflict
<1> QED BY <1>1, <1>2, <1>3, <1>4, <1>5, <1>6 DEF DataNext

(* What every step leaves true, for the proofs of the parts. *)
LEMMA Bounds ==
  ASSUME TypesInv, [DataNext]_dataVars
  PROVE  /\ Latest \in Nat /\ Latest' \in Nat /\ Latest <= Latest'
         /\ count \in [selections : Nat, faults : 0..MaxFaults]
         /\ count' \in [selections : Nat, faults : 0..MaxFaults]
         /\ count.faults <= count'.faults
         /\ base \in [Sites -> Nat] /\ \A site \in Sites : base[site] <= Latest
         /\ \A n \in 1..Latest : checkpoints[n].data \in Data
<1>1. TablesInv' /\ Grown
  BY TablesStep
<1>2. \A n \in 1..Latest : checkpoints[n] \in CheckpointRow
  BY DEF TypesInv, TablesInv, Latest
<1>3. count \in [selections : Nat, faults : 0..MaxFaults]
  BY DEF TypesInv, SitesInv, CountsInv
<1>4. /\ count' \in [selections : Nat, faults : 0..MaxFaults]
      /\ count.faults <= count'.faults
  <2>1. CASE count' = count
    BY <1>3, <2>1, BoundsAssumption
  <2>2. CASE count' = [count EXCEPT !.selections = @ + 1]
    BY <1>3, <2>2, BoundsAssumption
  <2>3. CASE Fault
    BY <1>3, <2>3, BoundsAssumption DEF Fault
  <2> QED BY <2>1, <2>2, <2>3, CountMoves
<1>5. Latest \in Nat /\ base \in [Sites -> Nat] /\ \A site \in Sites : base[site] <= Latest
  BY DEF TypesInv, TablesInv, Latest
<1>6. Latest' \in Nat
  BY <1>1 DEF TablesInv, Latest
<1> QED BY <1>1, <1>2, <1>3, <1>4, <1>5, <1>6 DEF Grown, CheckpointRow

LEMMA VolumesStep ==
  ASSUME TypesInv, [DataNext]_dataVars
  PROVE  VolumesInv'
<1>0. VolumesInv /\ Home \in Sites /\ \A s \in Suitcases : s \in Sites
  BY DEF TypesInv, SitesInv, Sites
<1>1. CASE UNCHANGED siteVars
  BY <1>0, <1>1 DEF siteVars, VolumesInv
<1>2. ASSUME NEW p \in Callers, RestoreHome(p) PROVE VolumesInv'
  <2>1. checkpoints[adoption[p].target].data \in Data
    BY <1>2, Bounds DEF RestoreHome, TypesInv, CoordinatorInv
  <2> QED BY <1>0, <1>2, <2>1 DEF RestoreHome, Restores, VolumesInv
<1>3. ASSUME NEW site \in Sites, Revise(site) PROVE VolumesInv'
  BY <1>0, <1>3 DEF Revise, VolumesInv, Sites
<1>4. ASSUME NEW site \in Sites, NEW k \in Keys, Write(site, k) PROVE VolumesInv'
  <2>1. writes' \in Writes
    BY <1>4, BoundsAssumption DEF Write, TypesInv, SitesInv, CountsInv, Writes
  <2>2. volume' = [volume EXCEPT ![site] = [volume[site] EXCEPT !.main[k] = @ \cup {writes'}]]
    BY <1>0, <1>4 DEF Write, VolumesInv
  <2> QED BY <1>0, <1>4, <2>1, <2>2, WrittenIsData DEF Write, VolumesInv
<1>5. ASSUME NEW s \in Suitcases, CaptureBranch(s) \/ SupervisorStarts(s) PROVE VolumesInv'
  BY <1>0, <1>5 DEF CaptureBranch, SupervisorStarts, VolumesInv
<1>6. ASSUME NEW s \in Suitcases, MaterialiseReplica(s) \/ MaterialiseCut(s) PROVE VolumesInv'
  <2>1. checkpoints[base[s]].data \in Data
    BY <1>0, <1>6, Bounds DEF MaterialiseReplica, MaterialiseCut
  <2> QED BY <1>0, <1>6, <2>1 DEF MaterialiseReplica, MaterialiseCut, Restores, VolumesInv
<1>7. CASE \/ \E p \in Callers : ChooseCheckpoint(p) \/ MarkRestored(p)
           \/ \E i \in DOMAIN changesets : ApplyMerges(i)
           \/ \E s \in Suitcases : SelectReplica(s) \/ ProjectSelection(s) \/ Exchange(s)
  BY <1>0, <1>7 DEF ChooseCheckpoint, MarkRestored, ApplyMerges, SelectReplica,
                    ProjectSelection, Exchange, siteVars, VolumesInv
<1> QED BY <1>1, <1>2, <1>3, <1>4, <1>5, <1>6, <1>7, SiteMoves

(* A site's marker changes only by a new one for its checkpoint. *)
LEMMA MarkersChange ==
  ASSUME TypesInv, [DataNext]_dataVars, NEW site \in Sites, NEW c \in 1..Latest,
         marker' = marker
           \/ marker' = [marker EXCEPT ![site] = MarkersBut(site, c)]
           \/ marker' = [marker EXCEPT ![site] = MarkersBut(site, c) \cup {<<c, revision[site]>>}],
         UNCHANGED revision
  PROVE  MarkersInv'
<1>0. MarkersInv
  BY DEF TypesInv, SitesInv
<1>1. <<c, revision[site]>> \in Nat \X Nat /\ MarkersBut(site, c) \subseteq marker[site]
  BY <1>0, Bounds DEF MarkersInv, MarkersBut
<1>2. marker' \in [Sites -> SUBSET (Nat \X Nat)]
  BY <1>0, <1>1 DEF MarkersInv
<1>3. ASSUME NEW x \in Sites, NEW m \in marker'[x]
      PROVE  m[1] \in 1..Latest' /\ m[2] <= count'.faults
  <2>1. m \in marker[x] \/ m = <<c, revision[x]>>
    BY <1>0, <1>1, <1>3 DEF MarkersInv
  <2>2. m[1] \in 1..Latest /\ m[2] <= count.faults /\ m[2] \in Nat
    BY <1>0, <2>1 DEF MarkersInv
  <2> QED BY <2>2, Bounds
<1>4. \A x \in Sites : revision[x] <= count'.faults
  BY <1>0, Bounds DEF MarkersInv
<1> QED BY <1>0, <1>2, <1>3, <1>4 DEF MarkersInv

LEMMA MarkersStep ==
  ASSUME TypesInv, [DataNext]_dataVars
  PROVE  MarkersInv'
<1>0. MarkersInv /\ Home \in Sites /\ \A s \in Suitcases : s \in Sites
  BY DEF TypesInv, SitesInv, Sites
<1>1. CASE UNCHANGED <<marker, revision>>
  <2>1. \A x \in Sites : \A m \in marker[x] : m[1] \in 1..Latest' /\ m[2] <= count'.faults
    BY <1>0, Bounds DEF MarkersInv
  <2>2. \A x \in Sites : revision[x] <= count'.faults
    BY <1>0, Bounds DEF MarkersInv
  <2> QED BY <1>0, <1>1, <2>1, <2>2 DEF MarkersInv
<1>2. ASSUME NEW p \in Callers, ChooseCheckpoint(p) PROVE MarkersInv'
  <2>1. Latest \in 1..Latest
    BY <1>2, Bounds DEF ChooseCheckpoint, TypesInv, CoordinatorInv
  <2>2. marker' = marker \/ marker' = [marker EXCEPT ![Home] = MarkersBut(Home, Latest)]
    BY <1>2 DEF ChooseCheckpoint
  <2> QED BY <1>0, <1>2, <2>1, <2>2, MarkersChange DEF ChooseCheckpoint
<1>3. ASSUME NEW p \in Callers, MarkRestored(p) PROVE MarkersInv'
  <2>1. adoption[p].target \in 1..Latest
    BY <1>3 DEF MarkRestored, TypesInv, CoordinatorInv
  <2> QED BY <1>0, <1>3, <2>1, MarkersChange DEF MarkRestored
<1>4. ASSUME NEW site \in Sites, Revise(site) PROVE MarkersInv'
  <2>1. count'.faults = count.faults + 1
    BY <1>4, Bounds DEF Revise, Fault
  <2>2. revision' \in [Sites -> Nat] /\ \A x \in Sites : revision'[x] <= count'.faults
    BY <1>0, <1>4, <2>1, Bounds DEF Revise, MarkersInv
  <2>3. \A x \in Sites : \A m \in marker[x] : m[1] \in 1..Latest' /\ m[2] <= count'.faults
    BY <1>0, Bounds DEF MarkersInv
  <2> QED BY <1>0, <1>4, <2>2, <2>3 DEF Revise, MarkersInv
<1>5. ASSUME NEW s \in Suitcases, MaterialiseReplica(s) \/ MaterialiseCut(s) PROVE MarkersInv'
  <2>1. base[s] \in 1..Latest
    BY <1>0, <1>5, Bounds DEF MaterialiseReplica, MaterialiseCut
  <2> QED BY <1>0, <1>5, <2>1, MarkersChange DEF MaterialiseReplica, MaterialiseCut
<1>6. CASE \/ \E p \in Callers : RestoreHome(p)
           \/ \E i \in DOMAIN changesets : ApplyMerges(i)
           \/ \E site \in Sites, k \in Keys : Write(site, k)
           \/ \E s \in Suitcases : \/ SelectReplica(s) \/ ProjectSelection(s) \/ Exchange(s)
                                   \/ CaptureBranch(s) \/ SupervisorStarts(s)
           \/ UNCHANGED siteVars
  BY <1>1, <1>6 DEF RestoreHome, ApplyMerges, Write, SelectReplica, ProjectSelection, Exchange,
                    CaptureBranch, SupervisorStarts, siteVars
<1> QED BY <1>2, <1>3, <1>4, <1>5, <1>6, SiteMoves

LEMMA WiresStep ==
  ASSUME TypesInv, [DataNext]_dataVars
  PROVE  WiresInv'
<1>0. WiresInv /\ \A s \in Suitcases : s \in Sites
  BY DEF TypesInv, SitesInv, Sites
<1>1. ASSUME UNCHANGED wireVars PROVE WiresInv'
  BY <1>0, <1>1, Bounds DEF wireVars, WiresInv
<1>2. ASSUME NEW s \in Suitcases, NEW q \in Seq(Nat), \A n \in DOMAIN q : q[n] \in 1..Latest',
             selection' = [selection EXCEPT ![s] = q], UNCHANGED branch
      PROVE  WiresInv'
  <2>1. selection' \in [Suitcases -> Seq(Nat)]
    BY <1>0, <1>2 DEF WiresInv
  <2>2. ASSUME NEW x \in Suitcases, NEW n \in DOMAIN selection'[x]
        PROVE  selection'[x][n] \in 1..Latest'
    <3>1. selection'[x] = IF x = s THEN q ELSE selection[x]
      BY <1>0, <1>2 DEF WiresInv
    <3> QED BY <1>0, <1>2, <2>2, <3>1, Bounds, SMTT(30) DEF WiresInv
  <2> QED BY <1>0, <1>2, <2>1, <2>2, Bounds DEF WiresInv
<1>3. ASSUME NEW s \in Suitcases, SelectReplica(s) PROVE WiresInv'
  <2>1. Len(checkpoints') \in 1..Latest'
    <3>1. Latest' = Len(checkpoints')
      BY DEF Latest
    <3>2. CASE checkpoints = <<>>
      BY <1>3, <3>1, <3>2, Bounds DEF SelectReplica
    <3>3. CASE checkpoints # <<>>
      BY <1>3, <3>1, <3>3, Bounds DEF SelectReplica, Latest, TypesInv, TablesInv
    <3> QED BY <3>2, <3>3
  <2> DEFINE q == Append(selection[s], Len(checkpoints'))
  <2>2. selection[s] \in Seq(Nat) /\ \A n \in DOMAIN selection[s] : selection[s][n] \in 1..Latest'
    BY <1>0, Bounds DEF WiresInv
  <2>3. q \in Seq(Nat) /\ \A n \in DOMAIN q : q[n] \in 1..Latest'
    BY <2>1, <2>2
  <2> QED BY <1>2, <1>3, <2>3 DEF SelectReplica
<1>4. ASSUME NEW s \in Suitcases, ProjectSelection(s) PROVE WiresInv'
  <2> DEFINE q == Tail(selection[s])
  <2>1. selection[s] \in Seq(Nat) /\ \A n \in DOMAIN selection[s] : selection[s][n] \in 1..Latest'
    BY <1>0, Bounds DEF WiresInv
  <2>2. q \in Seq(Nat) /\ \A n \in DOMAIN q : q[n] \in 1..Latest'
    BY <1>4, <2>1 DEF ProjectSelection
  <2> QED BY <1>2, <1>4, <2>2 DEF ProjectSelection
<1>5. ASSUME NEW s \in Suitcases, NEW b \in [base : Nat, data : Data, sent : BOOLEAN],
             b.base <= Latest, b # NoBranch => b.base # 0,
             branch' = [branch EXCEPT ![s] = b], UNCHANGED selection
      PROVE  WiresInv'
  BY <1>0, <1>5, Bounds DEF WiresInv
<1>6. ASSUME NEW s \in Suitcases, CaptureBranch(s) PROVE WiresInv'
  <2>1. CASE branch' = branch
    BY <1>1, <1>6, <2>1 DEF CaptureBranch, wireVars
  <2>2. CASE branch' # branch
    <3> DEFINE b == [base |-> base[s], data |-> volume[s], sent |-> FALSE]
    <3>1. base[s] \in 1..Latest /\ volume[s] \in Data
      BY <1>0, <1>6, Bounds DEF CaptureBranch, TypesInv, SitesInv, VolumesInv
    <3>2. b \in [base : Nat, data : Data, sent : BOOLEAN] /\ b.base <= Latest /\ b.base # 0
      BY <3>1, Bounds
    <3>3. branch' = [branch EXCEPT ![s] = b] /\ UNCHANGED selection
      BY <1>6, <2>2 DEF CaptureBranch
    <3> HIDE DEF b
    <3> QED BY <1>5, <3>2, <3>3
  <2> QED BY <2>1, <2>2
<1>7. ASSUME NEW s \in Suitcases, Exchange(s) PROVE WiresInv'
  <2>1. CASE branch' = branch
    BY <1>1, <1>7, <2>1 DEF Exchange, wireVars
  <2>2. CASE branch' # branch
    <3> DEFINE b == [branch[s] EXCEPT !.sent = TRUE]
    <3>1. branch' = [branch EXCEPT ![s].sent = TRUE] /\ branch[s] # NoBranch /\ UNCHANGED selection
      BY <1>7, <2>2 DEF Exchange
    <3>2. branch' = [branch EXCEPT ![s] = b]
      BY <3>1
    <3>3. b \in [base : Nat, data : Data, sent : BOOLEAN] /\ b.base <= Latest /\ b.base # 0
      BY <1>0, <3>1 DEF WiresInv
    <3> HIDE DEF b
    <3> QED BY <1>5, <3>1, <3>2, <3>3
  <2> QED BY <2>1, <2>2
<1>8. CASE \/ \E p \in Callers : ChooseCheckpoint(p) \/ RestoreHome(p) \/ MarkRestored(p)
           \/ \E i \in DOMAIN changesets : ApplyMerges(i)
           \/ \E site \in Sites : Revise(site) \/ \E k \in Keys : Write(site, k)
           \/ \E s \in Suitcases :
                MaterialiseReplica(s) \/ MaterialiseCut(s) \/ SupervisorStarts(s)
           \/ UNCHANGED wireVars
  BY <1>1, <1>8 DEF ChooseCheckpoint, RestoreHome, MarkRestored, ApplyMerges, Revise, Write,
                    MaterialiseReplica, MaterialiseCut, SupervisorStarts
<1> QED BY <1>3, <1>4, <1>6, <1>7, <1>8, SiteMoves

LEMMA CountsStep ==
  ASSUME TypesInv, [DataNext]_dataVars
  PROVE  CountsInv'
<1>0. CountsInv
  BY DEF TypesInv, SitesInv
<1>1. ASSUME NEW i \in DOMAIN changesets, ApplyMerges(i) PROVE CountsInv'
  <2> DEFINE o == Operands(i)
  <2>1. o.h \in Data /\ o.s \in Data
    <3>1. changesets[i] \in ChangesetRow /\ Latest # 0
      BY DEF TypesInv, TablesInv, Latest
    <3> QED BY <3>1, Bounds DEF Operands, ChangesetRow
  <2>2. PICK merged : dropped' = dropped \cup LeftOut(o.b, o.h, o.s, merged)
    BY <1>1 DEF ApplyMerges
  <2> HIDE DEF o
  <2>3. dropped' \subseteq Writes
    BY <1>0, <2>1, <2>2, LeftOutIsWrites DEF CountsInv
  <2> QED BY <1>0, <1>1, <2>3, Bounds DEF ApplyMerges, CountsInv
<1>2. ASSUME NEW site \in Sites, NEW k \in Keys, Write(site, k) PROVE CountsInv'
  BY <1>0, <1>2, BoundsAssumption, Bounds DEF Write, CountsInv, Writes
<1>3. ASSUME UNCHANGED <<writes, dropped>> PROVE CountsInv'
  BY <1>0, <1>3, Bounds DEF CountsInv
<1>4. CASE \/ \E p \in Callers : ChooseCheckpoint(p) \/ RestoreHome(p) \/ MarkRestored(p)
           \/ \E site \in Sites : Revise(site)
           \/ \E s \in Suitcases :
                MaterialiseReplica(s) \/ MaterialiseCut(s) \/ SupervisorStarts(s)
  BY <1>3, <1>4 DEF ChooseCheckpoint, RestoreHome, MarkRestored, Revise,
                    MaterialiseReplica, MaterialiseCut, SupervisorStarts, historyVars
<1>5. CASE \E s \in Suitcases :
             SelectReplica(s) \/ ProjectSelection(s) \/ CaptureBranch(s) \/ Exchange(s)
  BY <1>3, <1>5 DEF SelectReplica, ProjectSelection, CaptureBranch, Exchange, historyVars
<1> QED BY <1>1, <1>2, <1>3, <1>4, <1>5, SiteMoves

-----------------------------------------------------------------------------
(* THE COORDINATOR                                                         *)

LEMMA JobEndsTypes ==
  ASSUME CoordinatorInv, NEW by, NEW ok, JobEnds(by, ok)
  PROVE  /\ job' = NoJob /\ job' \in JobRow /\ job'.at = "idle" /\ job'.todo = {}
         /\ sweep' \in [at : {"off", "next", "waiting", "adopt"}, todo : SUBSET Sites]
BY DEF JobEnds, NoJob, NoSweep, JobRow, Sites, CoordinatorInv

LEMMA AdoptionEndsTypes ==
  ASSUME CoordinatorInv, NEW p \in Callers, AdoptionEnds(p)
  PROVE  /\ adoption' = [adoption EXCEPT ![p] = NoAdoption]
         /\ p = "job" => job' = NoJob
         /\ p = "sweep" => job' = job
         /\ job' \in JobRow
         /\ sweep' \in [at : {"off", "next", "waiting", "adopt"}, todo : SUBSET Sites]
<1>1. CASE p = "job"
  BY <1>1, JobEndsTypes DEF AdoptionEnds
<1>2. CASE p = "sweep"
  BY <1>2 DEF AdoptionEnds, NoSweep, CoordinatorInv
<1> QED BY <1>1, <1>2 DEF Callers

(* What a step keeps of the coordinator whose rows it does not touch. *)
LEMMA CoordinatorGrows ==
  ASSUME TypesInv, [DataNext]_dataVars, UNCHANGED coordinatorVars, Latest' = Latest,
         \A n \in job.todo : changesets'[n].status = changesets[n].status
  PROVE  CoordinatorInv'
<1>1. \A n \in job.todo : n \in DOMAIN changesets'
  BY TablesStep DEF TypesInv, TablesInv, CoordinatorInv, Grown
<1> QED BY <1>1 DEF TypesInv, CoordinatorInv, coordinatorVars

LEMMA CoordinatorMoves ==
  ASSUME [DataNext]_dataVars
  PROVE  \/ UNCHANGED <<checkpoints, changesets, coordinatorVars>>
         \/ StartJob \/ CaptureHome \/ ApplyDone \/ SweepAdopts
         \/ CaptureHomeFails \/ ApplyThrows \/ RestartHome
         \/ \E i \in DOMAIN changesets :
              ApplyConflicts(i) \/ ApplyMerges(i) \/ ApplyCommits(i) \/ ApplyBlocks(i)
         \/ \E p \in Callers : \/ ChooseCheckpoint(p) \/ RestoreHome(p) \/ RestoreHomeFails(p)
                               \/ MarkRestored(p)
         \/ \E site \in Sites : SweepOrigin(site)
         \/ \E s \in Suitcases : SelectReplica(s) \/ Exchange(s)
         \/ \E i \in DOMAIN changesets, k \in Keys, choice \in Resolutions \ {"none"} :
              ResolveConflict(i, k, choice)
<1>1. CASE UNCHANGED dataVars
  BY <1>1 DEF dataVars, homeVars, coordinatorVars
<1>2. CASE Reconciles \/ Sweeps
  BY <1>2 DEF Reconciles, Sweeps, Adopts, Callers
<1>3. CASE Fails
  BY <1>3 DEF Fails, CaptureUnrestored, CaptureBranch, MaterialiseCut, homeVars, coordinatorVars
<1>4. CASE \E site \in Sites : Revise(site) \/ \E k \in Keys : Write(site, k)
  BY <1>4 DEF Revise, Write, homeVars, coordinatorVars
<1>5. CASE \E s \in Suitcases :
             \/ SelectReplica(s) \/ ProjectSelection(s) \/ CaptureSuitcaseBranch(s)
             \/ MaterialiseReplica(s) \/ Exchange(s) \/ SupervisorStarts(s)
  BY <1>5 DEF ProjectSelection, CaptureSuitcaseBranch, CaptureBranch, MaterialiseReplica,
              SupervisorStarts, homeVars, coordinatorVars
<1> QED BY <1>1, <1>2, <1>3, <1>4, <1>5 DEF DataNext

LEMMA CoordinatorStep ==
  ASSUME TypesInv, [DataNext]_dataVars
  PROVE  CoordinatorInv'
<1>0. /\ CoordinatorInv /\ Home \in Sites /\ Latest \in Nat
      /\ \A i \in DOMAIN changesets : Latest # 0 /\ i \in Nat /\ changesets[i].site \in Sites
      /\ \A n \in job.todo : n \in DOMAIN changesets'
      /\ job.at \in {"idle", "capture", "apply", "commit", "adopt"} /\ DOMAIN adoption = Callers
  <2>1. \A i \in DOMAIN changesets : i \in Nat /\ changesets[i] \in ChangesetRow /\ Latest # 0
    BY DEF TypesInv, TablesInv, Latest
  <2>2. \A n \in job.todo : n \in DOMAIN changesets'
    BY TablesStep DEF TypesInv, TablesInv, CoordinatorInv, Grown
  <2> QED BY <2>1, <2>2, Bounds DEF TypesInv, CoordinatorInv, Sites, ChangesetRow, JobRow
<1>1. CASE UNCHANGED <<checkpoints, changesets, coordinatorVars>>
  BY <1>1, CoordinatorGrows DEF Latest
<1>2. CASE StartJob
  <2>1. /\ Tail(queue) \in Seq([origin : Sites, by : Askers]) /\ Latest # 0
        /\ Head(queue) \in [origin : Sites, by : Askers]
        /\ UNCHANGED <<changesets, adoption>> /\ Latest' = Latest /\ queue' = Tail(queue)
        /\ job.at = "idle"
    <3>1. /\ queue # <<>> /\ queue' = Tail(queue) /\ job.at = "idle"
          /\ UNCHANGED <<changesets, adoption>> /\ Latest' = Latest
      BY <1>2 DEF StartJob, homeVars, Latest
    <3> DEFINE R == [origin : Sites, by : Askers]
    <3>2. queue \in Seq(R) /\ Latest # 0
      BY <1>0, <3>1 DEF CoordinatorInv
    <3> HIDE DEF R
    <3>3. Tail(queue) \in Seq(R) /\ Head(queue) \in R
      BY <3>1, <3>2
    <3> QED BY <3>1, <3>2, <3>3 DEF R
  <2>2. CASE JobEnds(Head(queue).by, TRUE)
    BY <1>0, <2>1, <2>2, JobEndsTypes DEF CoordinatorInv
  <2>3. CASE /\ job' = [at |-> IF Head(queue).origin = Home THEN "apply" ELSE "capture",
                        origin |-> Head(queue).origin, by |-> Head(queue).by,
                        todo |-> PendingOf(Head(queue).origin), own |-> FALSE]
             /\ UNCHANGED sweep
    <3>1. \A n \in PendingOf(Head(queue).origin) :
            n \in Nat /\ n \in DOMAIN changesets /\ changesets[n].status = "pending"
      BY <1>0 DEF PendingOf
    <3>2. job' \in JobRow
      BY <2>1, <2>3, <3>1 DEF JobRow
    <3> QED BY <1>0, <2>1, <2>3, <3>1, <3>2 DEF CoordinatorInv
  <2> QED BY <1>2, <2>2, <2>3 DEF StartJob
<1>3. CASE CaptureHome
  <2>1. /\ job' = [job EXCEPT !.at = "apply"] /\ job' \in JobRow /\ job.at = "capture"
        /\ UNCHANGED <<queue, sweep, adoption, checkpoints>> /\ Latest' = Latest /\ Latest # 0
    BY <1>0, <1>3 DEF CaptureHome, CoordinatorInv, JobRow, Latest
  <2>2. \A n \in job.todo : changesets'[n].status = "pending"
    <3>1. CASE changesets' = changesets
      BY <1>0, <3>1 DEF CoordinatorInv
    <3>2. CASE changesets' = Append(changesets, Changeset(Home, base[Home], volume[Home]))
      BY <1>0, <3>2 DEF TypesInv, TablesInv, CoordinatorInv
    <3> QED BY <1>3, <3>1, <3>2 DEF CaptureHome
  <2> QED BY <1>0, <2>1, <2>2 DEF CoordinatorInv, JobRow
<1>4. CASE ApplyDone
  <2>1. /\ Latest' = Latest /\ UNCHANGED <<changesets, queue, sweep>> /\ Latest # 0
        /\ job.at = "apply" /\ adoption["job"].at = "none"
    BY <1>0, <1>4 DEF ApplyDone, CoordinatorInv, homeVars, Latest
  <2>2. CASE job' = [job EXCEPT !.own = TRUE, !.todo = PendingOf(Home)] /\ UNCHANGED adoption
    <3>1. \A n \in PendingOf(Home) :
            n \in Nat /\ n \in DOMAIN changesets /\ changesets[n].status = "pending"
      BY <1>0 DEF PendingOf
    <3>2. job' \in JobRow /\ job'.todo = PendingOf(Home) /\ job'.at = "apply"
      BY <1>0, <2>1, <2>2, <3>1 DEF CoordinatorInv, JobRow
    <3> QED BY <1>0, <2>1, <2>2, <3>1, <3>2 DEF CoordinatorInv
  <2>3. CASE /\ job' = [job EXCEPT !.at = "adopt"]
             /\ adoption' = [adoption EXCEPT !["job"].at = "choose"]
    <3>1. job' \in JobRow /\ job'.todo = job.todo /\ job'.at = "adopt"
      BY <1>0, <2>1, <2>3 DEF CoordinatorInv, JobRow
    <3>2. adoption' \in [Callers -> [at : {"none", "choose", "restore", "mark"}, target : Nat]]
          /\ adoption'["job"].at = "choose" /\ adoption'["sweep"] = adoption["sweep"]
      BY <1>0, <2>3 DEF CoordinatorInv, Callers
    <3> QED BY <1>0, <2>1, <2>3, <3>1, <3>2 DEF CoordinatorInv, Callers
  <2> QED BY <1>4, <2>2, <2>3 DEF ApplyDone
<1>5. CASE CaptureHomeFails \/ ApplyThrows
  <2>1. /\ \E ok \in BOOLEAN : JobEnds(job.by, ok)
        /\ UNCHANGED <<changesets, queue, adoption>> /\ Latest' = Latest
        /\ job.at \in {"capture", "apply"}
    BY <1>5 DEF CaptureHomeFails, ApplyThrows, homeVars, Latest
  <2> QED BY <1>0, <2>1, JobEndsTypes DEF CoordinatorInv
<1>6. CASE RestartHome
  <2>1. /\ job' \in JobRow /\ job'.todo = {} /\ job'.at = "idle" /\ Latest' = Latest
        /\ queue' = <<>> /\ adoption' = [p \in Callers |-> NoAdoption]
        /\ sweep' \in [at : {"off", "next", "waiting", "adopt"}, todo : SUBSET Sites]
        /\ sweep'.at # "off" => Latest # 0
    BY <1>0, <1>6 DEF RestartHome, NoJob, NoSweep, JobRow, homeVars, Latest
  <2>2. \A p \in Callers : adoption'[p].at = "none" /\ adoption'[p].target = 0
    BY <2>1 DEF NoAdoption
  <2> QED BY <1>0, <2>1, <2>2 DEF CoordinatorInv, NoAdoption, Callers
<1>7. ASSUME NEW i \in DOMAIN changesets, ApplyConflicts(i) \/ ApplyBlocks(i) \/ ApplyCommits(i)
      PROVE  CoordinatorInv'
  <2>1. /\ job' \in JobRow /\ job'.todo = job.todo \ {i} /\ job'.at = "apply"
        /\ job.at \in {"apply", "commit"}
    <3>1. \/ job' = [job EXCEPT !.todo = @ \ {i}] /\ job.at = "apply"
          \/ job' = [job EXCEPT !.at = "apply", !.todo = @ \ {i}] /\ job.at = "commit"
      BY <1>7 DEF ApplyConflicts, ApplyBlocks, ApplyCommits, Applying
    <3>2. job \in JobRow
      BY <1>0 DEF CoordinatorInv
    <3>3. job'.todo = job.todo \ {i} /\ job'.at = "apply" /\ job.at \in {"apply", "commit"}
      BY <3>1, <3>2 DEF JobRow
    <3>4. job' \in JobRow
      BY <3>1, <3>2 DEF JobRow
    <3> QED BY <3>3, <3>4
  <2>2. /\ UNCHANGED <<queue, sweep, adoption>> /\ Latest' = Latest /\ Latest # 0
    BY <1>0, <1>7 DEF ApplyConflicts, ApplyBlocks, ApplyCommits, Latest
  <2>3. \A n \in DOMAIN changesets : n # i => changesets'[n] = changesets[n]
    BY <1>7 DEF ApplyConflicts, ApplyBlocks, ApplyCommits
  <2>4. \A n \in job'.todo : n \in DOMAIN changesets' /\ changesets'[n].status = "pending"
    BY <1>0, <2>1, <2>3 DEF CoordinatorInv
  <2> QED BY <1>0, <2>1, <2>2, <2>4 DEF CoordinatorInv
<1>8. ASSUME NEW i \in DOMAIN changesets, ApplyMerges(i) PROVE CoordinatorInv'
  <2>1. /\ job' \in JobRow /\ job'.todo = job.todo /\ job'.at = "commit" /\ job.at = "apply"
        /\ UNCHANGED <<changesets, queue, sweep, adoption>> /\ Latest # 0
    BY <1>0, <1>8 DEF ApplyMerges, Applying, CoordinatorInv, JobRow
  <2>2. Latest' \in Nat /\ Latest <= Latest'
    BY Bounds
  <2> QED BY <1>0, <2>1, <2>2 DEF CoordinatorInv
<1>9. ASSUME NEW p \in Callers, RestoreHomeFails(p) \/ MarkRestored(p) PROVE CoordinatorInv'
  <2>1. AdoptionEnds(p) /\ UNCHANGED <<changesets, queue>> /\ Latest' = Latest
        /\ adoption[p].at # "none"
    BY <1>9 DEF RestoreHomeFails, MarkRestored, homeVars, Latest
  <2> QED BY <1>0, <2>1, AdoptionEndsTypes DEF CoordinatorInv, NoAdoption, Callers, NoJob
<1>10. ASSUME NEW p \in Callers, ChooseCheckpoint(p) PROVE CoordinatorInv'
  <2>1. UNCHANGED <<changesets, queue>> /\ Latest' = Latest /\ adoption[p].at = "choose"
    BY <1>10 DEF ChooseCheckpoint, homeVars, Latest
  <2>2. CASE AdoptionEnds(p)
    BY <1>0, <2>1, <2>2, AdoptionEndsTypes DEF CoordinatorInv, NoAdoption, Callers, NoJob
  <2>3. CASE /\ adoption' = [adoption EXCEPT ![p] = [at |-> "restore", target |-> Latest]]
             /\ UNCHANGED <<job, sweep>>
    BY <1>0, <2>1, <2>3 DEF CoordinatorInv, Callers
  <2> QED BY <1>10, <2>2, <2>3 DEF ChooseCheckpoint
<1>11. ASSUME NEW p \in Callers, RestoreHome(p) PROVE CoordinatorInv'
  <2>1. /\ UNCHANGED <<changesets, queue, job, sweep>> /\ Latest' = Latest
        /\ adoption[p].at = "restore" /\ adoption' = [adoption EXCEPT ![p].at = "mark"]
    BY <1>11 DEF RestoreHome, homeVars, Latest
  <2> QED BY <1>0, <2>1 DEF CoordinatorInv, Callers
<1>12. ASSUME NEW site \in Sites, SweepOrigin(site) PROVE CoordinatorInv'
  <2>1. /\ queue' = Append(queue, Request(site, "sweep"))
        /\ sweep' = [at |-> "waiting", todo |-> sweep.todo \ {site}] /\ sweep.at = "next"
        /\ UNCHANGED <<changesets, job, adoption>> /\ Latest' = Latest
    BY <1>12 DEF SweepOrigin, homeVars, Latest
  <2>2. Request(site, "sweep") \in [origin : Sites, by : Askers]
    BY DEF Request, Askers
  <2>3. queue' \in Seq([origin : Sites, by : Askers])
    BY <1>0, <2>1, <2>2 DEF CoordinatorInv
  <2> QED BY <1>0, <2>1, <2>3 DEF CoordinatorInv
<1>13. CASE SweepAdopts
  <2>1. /\ UNCHANGED <<changesets, queue, job>> /\ Latest' = Latest /\ sweep.at = "next"
        /\ sweep' = [sweep EXCEPT !.at = "adopt"]
        /\ adoption' = [adoption EXCEPT !["sweep"].at = "choose"]
    BY <1>13 DEF SweepAdopts, homeVars, Latest
  <2>2. adoption'["job"] = adoption["job"] /\ adoption'["sweep"].at = "choose"
        /\ adoption' \in [Callers -> [at : {"none", "choose", "restore", "mark"}, target : Nat]]
    BY <1>0, <2>1 DEF CoordinatorInv, Callers
  <2> QED BY <1>0, <2>1, <2>2 DEF CoordinatorInv, Callers
<1>14. ASSUME NEW s \in Suitcases, SelectReplica(s) PROVE CoordinatorInv'
  <2>1. UNCHANGED <<changesets, coordinatorVars>>
    BY <1>14 DEF SelectReplica
  <2>2. CASE checkpoints = <<>>
    <3>1. Latest = 0 /\ Latest' \in Nat
      BY <2>2, Bounds DEF Latest
    <3> QED BY <1>0, <2>1, <3>1 DEF CoordinatorInv, coordinatorVars
  <2>3. CASE checkpoints # <<>>
    BY <1>14, <2>1, <2>3, CoordinatorGrows DEF SelectReplica, Latest
  <2> QED BY <2>2, <2>3
<1>15. ASSUME NEW s \in Suitcases, Exchange(s) PROVE CoordinatorInv'
  <2>1. /\ queue' = Append(queue, Request(s, "exchange")) /\ base[s] # 0
        /\ UNCHANGED <<job, sweep, adoption>> /\ Latest' = Latest
    BY <1>15 DEF Exchange, Latest
  <2>2. Request(s, "exchange") \in [origin : Sites, by : Askers] /\ s \in Sites
    BY DEF Request, Askers, Sites
  <2>3. queue' \in Seq([origin : Sites, by : Askers]) /\ Latest # 0
    BY <1>0, <2>1, <2>2, Bounds DEF CoordinatorInv
  <2>4. \A n \in job.todo : changesets'[n].status = "pending"
    <3>1. CASE changesets' = changesets
      BY <1>0, <3>1 DEF CoordinatorInv
    <3>2. CASE changesets' = Append(changesets, Changeset(s, branch[s].base, branch[s].data))
      BY <1>0, <3>2 DEF TypesInv, TablesInv, CoordinatorInv
    <3> QED BY <1>15, <3>1, <3>2 DEF Exchange
  <2> QED BY <1>0, <2>1, <2>3, <2>4 DEF CoordinatorInv
<1>16. ASSUME NEW i \in DOMAIN changesets, NEW k \in Keys, NEW choice \in Resolutions \ {"none"},
              ResolveConflict(i, k, choice)
       PROVE  CoordinatorInv'
  <2>1. /\ UNCHANGED <<job, sweep, adoption>> /\ Latest' = Latest /\ Latest # 0
        /\ k \in changesets[i].open
        /\ queue' = queue \/ queue' = Append(queue, Request(changesets[i].site, "admin"))
        /\ \A n \in DOMAIN changesets : n # i => changesets'[n] = changesets[n]
    BY <1>0, <1>16 DEF ResolveConflict, Latest
  <2>2. Request(changesets[i].site, "admin") \in [origin : Sites, by : Askers]
    BY <1>0 DEF Request, Askers
  <2>3. queue' \in Seq([origin : Sites, by : Askers])
    <3>1. CASE queue' = queue
      BY <1>0, <3>1 DEF CoordinatorInv
    <3>2. CASE queue' = Append(queue, Request(changesets[i].site, "admin"))
      BY <1>0, <2>2, <3>2 DEF CoordinatorInv
    <3> QED BY <2>1, <3>1, <3>2
  <2>4. i \notin job.todo
    BY <1>0, <2>1 DEF CoordinatorInv, TypesInv, TablesInv
  <2>5. \A n \in job.todo : changesets'[n].status = "pending"
    BY <1>0, <2>1, <2>4 DEF CoordinatorInv
  <2> QED BY <1>0, <2>1, <2>3, <2>5 DEF CoordinatorInv
<1> QED BY <1>1, <1>2, <1>3, <1>4, <1>5, <1>6, <1>7, <1>8, <1>9, <1>10, <1>11, <1>12, <1>13,
           <1>14, <1>15, <1>16, CoordinatorMoves

LEMMA TypesStep == TypesInv /\ [DataNext]_dataVars => TypesInv'
BY TablesStep, VolumesStep, MarkersStep, WiresStep, CountsStep, CoordinatorStep
   DEF TypesInv, SitesInv

LEMMA TypesInit == DataInit => TypesInv
<1> SUFFICES ASSUME DataInit PROVE TypesInv
  OBVIOUS
<1>1. Home \in Sites /\ 0 \in Writes /\ Latest = 0
  BY BoundsAssumption DEF Sites, Writes, DataInit, Latest
<1>2. TablesInv
  BY <1>1 DEF DataInit, TablesInv
<1>3. VolumesInv
  <2>1. [main |-> [k \in Keys |-> {0}], copies |-> {}] \in Data
    BY <1>1 DEF Data, Contents
  <2> QED BY <1>1, <2>1, EmptyIsData DEF DataInit, VolumesInv
<1>4. MarkersInv
  BY <1>1, BoundsAssumption DEF DataInit, MarkersInv
<1>5. WiresInv
  BY <1>1, EmptyIsData DEF DataInit, WiresInv, NoBranch
<1>6. CountsInv
  BY <1>1, BoundsAssumption DEF DataInit, CountsInv
<1>7. CoordinatorInv
  BY <1>1 DEF DataInit, CoordinatorInv, NoJob, NoSweep, NoAdoption, JobRow, Callers
<1> QED BY <1>2, <1>3, <1>4, <1>5, <1>6, <1>7 DEF TypesInv, SitesInv

(* The types of DataTypeOK hold, from the first state on.                  *)
LEMMA TypesAreOK == TypesInv => DataTypeOK
<1> SUFFICES ASSUME TypesInv PROVE DataTypeOK
  OBVIOUS
<1>1. DOMAIN checkpoints = 1..Latest /\ Latest \in Nat /\ Len(changesets) \in Nat
      /\ DOMAIN changesets = 1..Len(changesets) /\ Latest = Len(checkpoints)
  BY DEF TypesInv, TablesInv, Latest
<1>2. ASSUME NEW i \in DOMAIN checkpoints
      PROVE  /\ checkpoints[i].data \in Data /\ checkpoints[i].parent \in 0..(i - 1)
             /\ checkpoints[i].from \in 0..Len(changesets)
  <2>1. /\ checkpoints[i] \in CheckpointRow /\ checkpoints[i].parent < i
        /\ checkpoints[i].from <= Len(changesets)
    BY DEF TypesInv, TablesInv
  <2> QED BY <1>1, <2>1 DEF CheckpointRow
<1>3. ASSUME NEW i \in DOMAIN changesets
      PROVE  /\ changesets[i].site \in Sites /\ changesets[i].data \in Data
             /\ changesets[i].base \in DOMAIN checkpoints
             /\ changesets[i].status \in Unfinished \cup {"applied"}
             /\ changesets[i].open \subseteq Keys
             /\ changesets[i].resolution \in [Keys -> Resolutions]
  <2>1. changesets[i] \in ChangesetRow /\ changesets[i].base \in 1..Latest
    BY DEF TypesInv, TablesInv
  <2> QED BY <1>1, <2>1 DEF ChangesetRow, Statuses
<1>4. base \in [Sites -> 0..Len(checkpoints)]
  BY <1>1 DEF TypesInv, TablesInv
<1>5. volume \in [Sites -> Data] /\ up \subseteq Suitcases /\ restored \subseteq Sites
  BY DEF TypesInv, SitesInv, VolumesInv
<1>6. marker \in [Sites -> SUBSET ((DOMAIN checkpoints) \X Revisions)]
      /\ revision \in [Sites -> Revisions]
  <2>1. count.faults \in 0..MaxFaults
    BY DEF TypesInv, SitesInv, CountsInv
  <2>2. /\ marker \in [Sites -> SUBSET (Nat \X Nat)] /\ revision \in [Sites -> Nat]
        /\ \A site \in Sites :
             /\ revision[site] <= count.faults
             /\ \A m \in marker[site] : m[1] \in 1..Latest /\ m[2] <= count.faults
    BY DEF TypesInv, SitesInv, MarkersInv
  <2>3. revision \in [Sites -> Revisions]
    BY <2>1, <2>2, BoundsAssumption DEF Revisions
  <2>4. ASSUME NEW site \in Sites, NEW m \in marker[site]
        PROVE  m \in (DOMAIN checkpoints) \X Revisions
    <3>1. m \in Nat \X Nat /\ m[1] \in 1..Latest /\ m[2] <= count.faults
      BY <2>2
    <3>2. m[2] \in Revisions
      BY <2>1, <3>1, BoundsAssumption DEF Revisions
    <3> QED BY <1>1, <3>1, <3>2
  <2> QED BY <2>2, <2>3, <2>4
<1>7. ASSUME NEW s \in Suitcases
      PROVE  /\ branch[s].base \in 0..Len(checkpoints) /\ branch[s].data \in Data
             /\ \A n \in DOMAIN selection[s] : selection[s][n] \in DOMAIN checkpoints
  <2>1. /\ branch[s] \in [base : Nat, data : Data, sent : BOOLEAN] /\ branch[s].base <= Latest
        /\ \A n \in DOMAIN selection[s] : selection[s][n] \in 1..Latest
    BY DEF TypesInv, SitesInv, WiresInv
  <2> QED BY <1>1, <2>1
<1>8. /\ job.at \in {"idle", "capture", "apply", "commit", "adopt"}
      /\ sweep.at \in {"off", "next", "waiting", "adopt"}
      /\ \A p \in DOMAIN adoption : adoption[p].at \in {"none", "choose", "restore", "mark"}
  BY DEF TypesInv, CoordinatorInv, JobRow
<1>9. writes \in Writes /\ dropped \subseteq Writes
  BY DEF TypesInv, SitesInv, CountsInv
<1> QED BY <1>2, <1>3, <1>4, <1>5, <1>6, <1>7, <1>8, <1>9 DEF DataTypeOK

-----------------------------------------------------------------------------
(* THE LINE OF CHECKPOINTS                                                 *)

(* A merge of a branch that builds on its base keeps of the checkpoint     *)
(* every copy, and every write but those a clash leaves out.               *)
LEMMA MergeKeepsHome ==
  ASSUME NEW b \in Data, NEW h \in Data, NEW s \in Data, NEW resolution, NEW policy, BuildsOn(b, s),
         NEW merged, merged = Merged(b, h, s, resolution, policy)
  PROVE  /\ h.copies \subseteq merged.copies
         /\ \A w : Within(w, h) => Within(w, merged) \/ w \in LeftOut(b, h, s, merged)
<1>1. /\ merged.main = [k \in Keys |-> MergedKey(k, b, h, s, resolution, policy)]
      /\ merged.copies = {c \in h.copies \cup s.copies :
                            ThreeWay(c \in b.copies, c \in h.copies, c \in s.copies)}
                           \cup KeptBeside(b, h, s, resolution)
  BY DEF Merged
<1>2. h.copies \subseteq merged.copies
  <2> SUFFICES ASSUME NEW c \in h.copies PROVE c \in merged.copies
    OBVIOUS
  <2>1. c \in b.copies => c \in s.copies
    BY DEF BuildsOn
  <2>2. ThreeWay(c \in b.copies, c \in h.copies, c \in s.copies)
    BY <2>1 DEF ThreeWay
  <2> QED BY <1>1, <2>2
<1>3. ASSUME NEW w, Within(w, h), ~ Within(w, merged)
      PROVE  w \in LeftOut(b, h, s, merged)
  <2>1. ~ \E c \in h.copies : w \in c[2]
    BY <1>2, <1>3 DEF Within
  <2>2. PICK k \in Keys : w \in h.main[k]
    BY <1>3, <2>1 DEF Within
  <2>3. w \notin MergedKey(k, b, h, s, resolution, policy)
    BY <1>1, <1>3 DEF Within
  <2>4. k \in Clashes(b, h, s)
    BY <2>2, <2>3 DEF MergedKey, ThreeWay, BuildsOn
  <2> QED BY <1>3, <2>2, <2>4 DEF LeftOut
<1> QED BY <1>2, <1>3

LEMMA DroppedGrows == ASSUME [DataNext]_dataVars PROVE dropped \subseteq dropped'
BY SiteMoves DEF ApplyMerges, ChooseCheckpoint, RestoreHome, MarkRestored, Revise, Write,
   SelectReplica, ProjectSelection, CaptureBranch, Exchange, MaterialiseReplica, MaterialiseCut,
   SupervisorStarts, historyVars

LEMMA GroundedStays ==
  ASSUME TypesInv, [DataNext]_dataVars, NEW i \in DOMAIN changesets
  PROVE  Grounded(changesets[i])' = Grounded(changesets[i])
<1>1. /\ changesets'[i].base = changesets[i].base /\ changesets'[i].data = changesets[i].data
      /\ checkpoints'[changesets[i].base] = checkpoints[changesets[i].base]
  BY TablesStep DEF TypesInv, TablesInv, Grown, Latest
<1> QED BY <1>1 DEF Grounded

(* What a merge makes of the tables. *)
LEMMA MergeAppends ==
  ASSUME TypesInv, NEW i \in DOMAIN changesets, ApplyMerges(i),
         NEW o, o = Operands(i)
  PROVE  /\ Latest' = Latest + 1 /\ Latest \in Nat /\ Latest # 0
         /\ \A n \in DOMAIN checkpoints : checkpoints'[n] = checkpoints[n]
         /\ DOMAIN checkpoints = 1..Latest /\ DOMAIN checkpoints' = 1..(Latest + 1)
         /\ checkpoints'[Latest + 1] =
              [data |-> Merged(o.b, o.h, o.s, o.resolution, o.policy), parent |-> Latest,
               from |-> i]
         /\ o.b \in Data /\ o.h \in Data /\ o.s \in Data
         /\ o.b = checkpoints[changesets[i].base].data /\ o.h = checkpoints[Latest].data
         /\ o.s = changesets[i].data
         /\ dropped' = dropped \cup
              LeftOut(o.b, o.h, o.s, Merged(o.b, o.h, o.s, o.resolution, o.policy))
<1>1. /\ Latest \in Nat /\ Latest # 0 /\ DOMAIN checkpoints = 1..Latest
      /\ changesets[i] \in ChangesetRow /\ changesets[i].base \in 1..Latest /\ i \in Nat
      /\ \A n \in 1..Latest : checkpoints[n] \in CheckpointRow
  BY DEF TypesInv, TablesInv, Latest
<1>2. /\ o.b \in Data /\ o.h \in Data /\ o.s \in Data
      /\ o.b = checkpoints[changesets[i].base].data /\ o.h = checkpoints[Latest].data
      /\ o.s = changesets[i].data
  BY <1>1 DEF Operands, CheckpointRow, ChangesetRow
<1> DEFINE c == [data |-> Merged(o.b, o.h, o.s, o.resolution, o.policy), parent |-> Latest,
                 from |-> i]
<1>3. c \in CheckpointRow
  BY <1>1, <1>2, MergedIsData DEF CheckpointRow
<1>4. /\ checkpoints' = Append(checkpoints, c)
      /\ dropped' = dropped \cup
              LeftOut(o.b, o.h, o.s, Merged(o.b, o.h, o.s, o.resolution, o.policy))
  BY DEF ApplyMerges
<1>5. c = [data |-> Merged(o.b, o.h, o.s, o.resolution, o.policy), parent |-> Latest,
                 from |-> i]
  OBVIOUS
<1> HIDE DEF c
<1> QED BY <1>1, <1>2, <1>3, <1>4, <1>5, AppendsCheckpoint DEF TypesInv

LEMMA LineageStep == TypesInv /\ LineageInv /\ [DataNext]_dataVars => LineageInv'
<1> SUFFICES ASSUME TypesInv, LineageInv, [DataNext]_dataVars, NEW n \in DOMAIN checkpoints'
             PROVE  LineageAt(n)'
  BY DEF LineageInv
<1>1. /\ DOMAIN checkpoints = 1..Latest /\ Latest \in Nat
      /\ \A i \in DOMAIN checkpoints : checkpoints'[i] = checkpoints[i]
  BY TablesStep DEF TypesInv, TablesInv, Grown, Latest
<1>2. CASE n \in DOMAIN checkpoints /\ checkpoints[n].from # 0
  <2>1. PICK i, p : i = checkpoints[n].from /\ p = checkpoints[n].parent
    OBVIOUS
  <2>2. /\ checkpoints[n] \in CheckpointRow /\ i <= Len(changesets) /\ p < n /\ p # 0
        /\ DOMAIN changesets = 1..Len(changesets) /\ Len(changesets) \in Nat
    BY <1>2, <2>1 DEF TypesInv, TablesInv
  <2>3. i \in DOMAIN changesets /\ p \in DOMAIN checkpoints
    BY <1>1, <1>2, <2>1, <2>2 DEF CheckpointRow
  <2>4. checkpoints'[n] = checkpoints[n] /\ checkpoints'[p] = checkpoints[p]
    BY <1>1, <1>2, <2>3
  <2>5. LineageAt(n)
    BY <1>2 DEF LineageInv
  <2>6. Grounded(changesets[i])' => Grounded(changesets[i])
    BY <2>3, GroundedStays
  <2>7. LineageAt(n) <=>
          (Grounded(changesets[i]) =>
             \A w : Within(w, checkpoints[p].data) =>
               Within(w, checkpoints[n].data) \/ w \in dropped)
    BY <1>2, <2>1 DEF LineageAt
  <2>8. LineageAt(n)' <=>
          (Grounded(changesets[i])' =>
             \A w : Within(w, checkpoints'[p].data) =>
               Within(w, checkpoints'[n].data) \/ w \in dropped')
    BY <1>2, <2>1, <2>4 DEF LineageAt
  <2> QED BY <2>4, <2>5, <2>6, <2>7, <2>8, DroppedGrows
<1>3. CASE n \in DOMAIN checkpoints /\ checkpoints[n].from = 0
  BY <1>1, <1>3 DEF LineageAt
<1>4. CASE n \notin DOMAIN checkpoints
  <2>1. ~ UNCHANGED checkpoints
    BY <1>4
  <2>2. ASSUME NEW i \in DOMAIN changesets, ApplyMerges(i)
        PROVE  LineageAt(n)'
    <3>1. PICK o : o = Operands(i)
      OBVIOUS
    <3>2. PICK merged : merged = Merged(o.b, o.h, o.s, o.resolution, o.policy)
      OBVIOUS
    <3>3. PICK l : l = Latest
      OBVIOUS
    <3>4. /\ checkpoints'[l + 1] = [data |-> merged, parent |-> l, from |-> i]
          /\ l \in DOMAIN checkpoints
          /\ DOMAIN checkpoints' = 1..(l + 1)
          /\ dropped' = dropped \cup LeftOut(o.b, o.h, o.s, merged)
          /\ o.b \in Data /\ o.h \in Data /\ o.s \in Data
          /\ o.b = checkpoints[changesets[i].base].data /\ o.h = checkpoints[l].data
          /\ o.s = changesets[i].data
      BY <2>2, <3>1, <3>2, <3>3, MergeAppends
    <3>5. n = l + 1 /\ checkpoints'[l] = checkpoints[l]
      BY <1>1, <1>4, <3>3, <3>4
    <3>6. Grounded(changesets[i])' => BuildsOn(o.b, o.s)
      BY <3>4, GroundedStays DEF Grounded, BuildsOn
    <3>7. BuildsOn(o.b, o.s) =>
            \A w : Within(w, o.h) => Within(w, merged) \/ w \in LeftOut(o.b, o.h, o.s, merged)
      BY <3>2, <3>4, MergeKeepsHome
    <3>8. LineageAt(n)' <=>
            (i # 0 /\ Grounded(changesets[i])' =>
               \A w : Within(w, checkpoints'[l].data) =>
                 Within(w, checkpoints'[n].data) \/ w \in dropped')
      BY <3>4, <3>5 DEF LineageAt
    <3> QED BY <3>4, <3>5, <3>6, <3>7, <3>8
  <2>3. ASSUME NEW s \in Suitcases, SelectReplica(s) PROVE LineageAt(n)'
    <3>1. checkpoints' = <<[data |-> volume[Home], parent |-> 0, from |-> 0]>>
      BY <2>1, <2>3 DEF SelectReplica
    <3>2. checkpoints'[n].from = 0
      BY <3>1
    <3> QED BY <3>2 DEF LineageAt
  <2> QED BY <2>1, <2>2, <2>3, TableMoves, ZenonT(40)
          DEF homeVars, CaptureHome, ProjectSelection, Exchange, ApplyConflicts, ApplyCommits,
              ApplyBlocks, ResolveConflict
<1> QED BY <1>2, <1>3, <1>4

(* Home's rows are typed and its checkpoints one lineage: what a           *)
(* checkpoint drops of the one before it somebody decided against, through *)
(* crashes, changesets applied twice and any order of merges.              *)
THEOREM CheckpointsAreSound == DataSpec => []CheckpointsSound
<1>1. DataInit => TypesInv /\ LineageInv
  BY TypesInit DEF DataInit, LineageInv
<1>2. TypesInv /\ LineageInv => CheckpointsSound
  BY TypesAreOK DEF CheckpointsSound, LineageKeeps, LineageInv, LineageAt
<1> QED BY <1>1, <1>2, TypesStep, LineageStep, PTL DEF DataSpec

-----------------------------------------------------------------------------
(* THE MARKERS                                                             *)

LEMMA WrittenGrows ==
  ASSUME NEW d \in Data, NEW k \in Keys, NEW n, NEW w, Within(w, d)
  PROVE  Within(w, [d EXCEPT !.main[k] = @ \cup {n}])
<1> DEFINE e == [d EXCEPT !.main[k] = @ \cup {n}]
<1>1. e.copies = d.copies /\ \A x \in Keys : d.main[x] \subseteq e.main[x]
  BY DEF Data
<1> HIDE DEF e
<1>2. Within(w, e)
  BY <1>1 DEF Within
<1> QED BY <1>2 DEF e

(* What changes a volume: a write, or a restore. *)
LEMMA VolumeMoves ==
  ASSUME TypesInv, [DataNext]_dataVars, NEW site \in Sites
  PROVE  \/ volume'[site] = volume[site]
         \/ \E k \in Keys : Write(site, k)
         \/ site = Home /\ \E p \in Callers : RestoreHome(p)
         \/ site # Home /\ (MaterialiseReplica(site) \/ MaterialiseCut(site))
<1>0. volume \in [Sites -> Data] /\ Home \in Sites /\ (\A s \in Suitcases : s \in Sites /\ s # Home)
  BY HomeAssumption DEF TypesInv, SitesInv, VolumesInv, Sites
<1>1. ASSUME NEW x \in Sites, NEW k \in Keys, Write(x, k), site # x
      PROVE  volume'[site] = volume[site]
  BY <1>0, <1>1 DEF Write
<1>2. ASSUME NEW p \in Callers, RestoreHome(p), site # Home
      PROVE  volume'[site] = volume[site]
  BY <1>0, <1>2 DEF RestoreHome, Restores
<1>3. ASSUME NEW s \in Suitcases, MaterialiseReplica(s) \/ MaterialiseCut(s), site # s
      PROVE  volume'[site] = volume[site]
  BY <1>0, <1>3 DEF MaterialiseReplica, MaterialiseCut, Restores
<1>4. CASE \/ \E p \in Callers : ChooseCheckpoint(p) \/ MarkRestored(p)
           \/ \E i \in DOMAIN changesets : ApplyMerges(i)
           \/ \E x \in Sites : Revise(x)
           \/ \E s \in Suitcases : \/ SelectReplica(s) \/ ProjectSelection(s) \/ Exchange(s)
                                   \/ CaptureBranch(s) \/ SupervisorStarts(s)
           \/ UNCHANGED siteVars
  BY <1>4 DEF ChooseCheckpoint, MarkRestored, ApplyMerges, Revise, SelectReplica,
              ProjectSelection, Exchange, CaptureBranch, SupervisorStarts, siteVars
<1> QED BY <1>0, <1>1, <1>2, <1>3, <1>4, SiteMoves

(* A volume only grows but where a checkpoint is restored over it. *)
LEMMA VolumeGrows ==
  ASSUME TypesInv, [DataNext]_dataVars, NEW site \in Sites
  PROVE  \/ \A w : Within(w, volume[site]) => Within(w, volume'[site])
         \/ site = Home /\ \E p \in Callers : RestoreHome(p)
         \/ site # Home /\ (MaterialiseReplica(site) \/ MaterialiseCut(site))
<1>1. volume \in [Sites -> Data]
  BY DEF TypesInv, SitesInv, VolumesInv
<1>2. ASSUME NEW k \in Keys, Write(site, k)
      PROVE  \A w : Within(w, volume[site]) => Within(w, volume'[site])
  <2>1. volume'[site] = [volume[site] EXCEPT !.main[k] = @ \cup {writes'}]
    BY <1>1, <1>2 DEF Write
  <2>2. PICK n, d : n = writes' /\ d = volume[site]
    OBVIOUS
  <2>3. d \in Data
    BY <1>1, <2>2
  <2>4. \A w : Within(w, d) => Within(w, [d EXCEPT !.main[k] = @ \cup {n}])
    BY <2>3, WrittenGrows
  <2> QED BY <2>1, <2>2, <2>4
<1> QED BY <1>2, VolumeMoves

LEMMA SuitcaseBase ==
  ASSUME TypesInv, [DataNext]_dataVars, NEW s \in Suitcases
  PROVE  base'[s] = base[s] \/ ProjectSelection(s)
<1>0. base \in [Sites -> Nat] /\ s \in Sites /\ s # Home
  BY HomeAssumption DEF TypesInv, TablesInv, Sites
<1>1. CASE UNCHANGED homeVars
  BY <1>1 DEF homeVars
<1>2. CASE CaptureHome \/ \E i \in DOMAIN changesets :
             ApplyConflicts(i) \/ ApplyMerges(i) \/ ApplyCommits(i) \/ ApplyBlocks(i)
  BY <1>0, <1>2 DEF CaptureHome, ApplyConflicts, ApplyMerges, ApplyCommits, ApplyBlocks
<1>3. CASE \E x \in Suitcases : SelectReplica(x) \/ ProjectSelection(x) \/ Exchange(x)
  BY <1>0, <1>3 DEF SelectReplica, ProjectSelection, Exchange
<1>4. CASE \E i \in DOMAIN changesets, k \in Keys, choice \in Resolutions \ {"none"} :
             ResolveConflict(i, k, choice)
  BY <1>4 DEF ResolveConflict
<1> QED BY <1>1, <1>2, <1>3, <1>4, TableMoves

(* A suitcase's selections and markers, each with the step that changes    *)
(* them.                                                                   *)
LEMMA SelectionMoves ==
  ASSUME TypesInv, [DataNext]_dataVars, NEW s \in Suitcases
  PROVE  selection'[s] = selection[s] \/ SelectReplica(s) \/ ProjectSelection(s)
<1>0. selection \in [Suitcases -> Seq(Nat)]
  BY DEF TypesInv, SitesInv, WiresInv
<1>1. CASE \E x \in Suitcases : SelectReplica(x) \/ ProjectSelection(x)
  BY <1>0, <1>1 DEF SelectReplica, ProjectSelection
<1>2. CASE \/ \E p \in Callers : ChooseCheckpoint(p) \/ MarkRestored(p) \/ RestoreHome(p)
           \/ \E i \in DOMAIN changesets : ApplyMerges(i)
           \/ \E x \in Sites : Revise(x) \/ \E k \in Keys : Write(x, k)
           \/ \E x \in Suitcases : \/ Exchange(x) \/ CaptureBranch(x) \/ SupervisorStarts(x)
                                   \/ MaterialiseReplica(x) \/ MaterialiseCut(x)
           \/ UNCHANGED wireVars
  BY <1>2 DEF ChooseCheckpoint, MarkRestored, RestoreHome, ApplyMerges, Revise, Write, Exchange,
              CaptureBranch, SupervisorStarts, MaterialiseReplica, MaterialiseCut, wireVars
<1> QED BY <1>1, <1>2, SiteMoves

LEMMA MarkerMoves ==
  ASSUME TypesInv, [DataNext]_dataVars, NEW site \in Sites
  PROVE  \/ marker'[site] \subseteq marker[site]
         \/ site = Home /\ \E p \in Callers : MarkRestored(p)
         \/ site # Home /\ MaterialiseReplica(site)
<1>0. marker \in [Sites -> SUBSET (Nat \X Nat)] /\ Home \in Sites
      /\ \A s \in Suitcases : s \in Sites /\ s # Home
  BY HomeAssumption DEF TypesInv, SitesInv, MarkersInv, Sites
<1>1. ASSUME NEW p \in Callers, ChooseCheckpoint(p) PROVE marker'[site] \subseteq marker[site]
  BY <1>0, <1>1 DEF ChooseCheckpoint, MarkersBut
<1>2. ASSUME NEW p \in Callers, MarkRestored(p), site # Home PROVE marker'[site] = marker[site]
  BY <1>0, <1>2 DEF MarkRestored
<1>3. ASSUME NEW s \in Suitcases, MaterialiseReplica(s), site # s
      PROVE  marker'[site] = marker[site]
  BY <1>0, <1>3 DEF MaterialiseReplica
<1>4. ASSUME NEW s \in Suitcases, MaterialiseCut(s) PROVE marker'[site] \subseteq marker[site]
  BY <1>0, <1>4 DEF MaterialiseCut, MarkersBut
<1>5. CASE \/ \E p \in Callers : RestoreHome(p)
           \/ \E i \in DOMAIN changesets : ApplyMerges(i)
           \/ \E x \in Sites : Revise(x) \/ \E k \in Keys : Write(x, k)
           \/ \E s \in Suitcases : \/ SelectReplica(s) \/ ProjectSelection(s) \/ Exchange(s)
                                   \/ CaptureBranch(s) \/ SupervisorStarts(s)
           \/ UNCHANGED siteVars
  BY <1>5 DEF RestoreHome, ApplyMerges, Revise, Write, SelectReplica, ProjectSelection, Exchange,
              CaptureBranch, SupervisorStarts, siteVars
<1> QED BY <1>0, <1>1, <1>2, <1>3, <1>4, <1>5, SiteMoves

(* Only the marker of the base says something of the volume, and bases go  *)
(* up.                                                                     *)
LEMMA SuitcaseMarkerStep ==
  TypesInv /\ SuitcaseMarkerInv /\ [DataNext]_dataVars => SuitcaseMarkerInv'
<1> SUFFICES ASSUME TypesInv, SuitcaseMarkerInv, [DataNext]_dataVars, NEW s \in Suitcases
             PROVE  SuitcaseMarkerAt(s)'
  BY DEF SuitcaseMarkerInv
<1>0. /\ SuitcaseMarkerAt(s) /\ s \in Sites /\ s # Home
      /\ base \in [Sites -> Nat] /\ base[s] <= Latest
      /\ selection \in [Suitcases -> Seq(Nat)]
      /\ volume \in [Sites -> Data] /\ marker \in [Sites -> SUBSET (Nat \X Nat)]
      /\ \A m \in marker[s] : m[1] \in 1..Latest
      /\ \A n \in 1..Latest : checkpoints'[n] = checkpoints[n]
      /\ Latest \in Nat /\ Latest <= Latest' /\ Latest' \in Nat
      /\ \A n \in DOMAIN selection[s] : selection[s][n] \in 1..Latest
  <2>1. s \in Sites /\ s # Home /\ SuitcaseMarkerAt(s)
    BY HomeAssumption DEF Sites, SuitcaseMarkerInv
  <2>2. \A n \in 1..Latest : checkpoints'[n] = checkpoints[n]
    BY TablesStep DEF TypesInv, TablesInv, Grown, Latest
  <2>3. /\ selection \in [Suitcases -> Seq(Nat)]
        /\ volume \in [Sites -> Data] /\ marker \in [Sites -> SUBSET (Nat \X Nat)]
        /\ \A m \in marker[s] : m[1] \in 1..Latest
        /\ \A n \in DOMAIN selection[s] : selection[s][n] \in 1..Latest
    BY <2>1 DEF TypesInv, SitesInv, VolumesInv, MarkersInv, WiresInv
  <2> QED BY <2>1, <2>2, <2>3, Bounds
<1>1. ASSUME \A m \in marker'[s] : m[1] <= base'[s]
                /\ (m[1] = base'[s] => \A w : Within(w, checkpoints'[m[1]].data) =>
                                                Within(w, volume'[s])),
             SelectionUp(s)'
      PROVE  SuitcaseMarkerAt(s)'
  BY <1>1 DEF SuitcaseMarkerAt, Holds
<1>2. CASE ProjectSelection(s)
  <2>1. /\ selection[s] # <<>> /\ selection' = [selection EXCEPT ![s] = Tail(@)]
        /\ base' = [base EXCEPT ![s] = Head(selection[s])]
        /\ UNCHANGED <<marker, volume, checkpoints>>
    BY <1>2 DEF ProjectSelection, siteVars
  <2>2. /\ selection[s] \in Seq(Nat) /\ 1 \in DOMAIN selection[s]
        /\ Len(selection[s]) \in Nat /\ DOMAIN selection[s] = 1..Len(selection[s])
        /\ Head(selection[s]) = selection[s][1] /\ selection[s][1] \in Nat
    BY <1>0, <2>1
  <2>3. base'[s] = selection[s][1] /\ base[s] <= selection[s][1] /\ base[s] \in Nat
    BY <1>0, <2>1, <2>2 DEF SuitcaseMarkerAt, SelectionUp
  <2>4. SelectionUp(s)'
    <3>1. /\ selection'[s] = Tail(selection[s]) /\ Len(selection'[s]) = Len(selection[s]) - 1
          /\ DOMAIN selection'[s] = 1..(Len(selection[s]) - 1)
          /\ \A n \in DOMAIN selection'[s] :
               selection'[s][n] = selection[s][n + 1] /\ n + 1 \in DOMAIN selection[s]
      BY <1>0, <2>1, <2>2
    <3>2. \A n \in DOMAIN selection'[s] : base'[s] <= selection'[s][n]
      <4> SUFFICES ASSUME NEW n \in DOMAIN selection'[s] PROVE base'[s] <= selection'[s][n]
        OBVIOUS
      <4>1. 1 <= n + 1 /\ n + 1 \in DOMAIN selection[s] /\ selection'[s][n] = selection[s][n + 1]
        BY <2>2, <3>1
      <4> QED BY <1>0, <2>2, <2>3, <4>1 DEF SuitcaseMarkerAt, SelectionUp
    <3>3. \A n, k \in DOMAIN selection'[s] : n <= k => selection'[s][n] <= selection'[s][k]
      BY <1>0, <2>2, <3>1 DEF SuitcaseMarkerAt, SelectionUp
    <3> QED BY <3>2, <3>3 DEF SelectionUp
  <2>5. ASSUME NEW m \in marker'[s]
        PROVE  /\ m[1] <= base'[s]
               /\ m[1] = base'[s] =>
                    \A w : Within(w, checkpoints'[m[1]].data) => Within(w, volume'[s])
    <3>1. m \in marker[s] /\ m[1] \in Nat /\ m[1] <= base[s]
      BY <1>0, <2>1, <2>5 DEF SuitcaseMarkerAt
    <3>2. m[1] = base'[s] => m[1] = base[s]
      BY <2>2, <2>3, <3>1
    <3> QED BY <1>0, <2>1, <2>2, <2>3, <3>1, <3>2 DEF SuitcaseMarkerAt, Holds
  <2> QED BY <1>1, <2>4, <2>5
<1>3. CASE base'[s] = base[s]
  <2>1. SelectionUp(s)'
    <3>1. CASE selection'[s] = selection[s]
      BY <1>0, <1>3, <3>1 DEF SuitcaseMarkerAt, SelectionUp
    <3>2. CASE SelectReplica(s)
      <4>1. selection'[s] = Append(selection[s], Latest')
        BY <1>0, <3>2 DEF SelectReplica, Latest
      <4>2. /\ selection[s] \in Seq(Nat) /\ Len(selection[s]) \in Nat
            /\ DOMAIN selection[s] = 1..Len(selection[s])
            /\ DOMAIN selection'[s] = 1..(Len(selection[s]) + 1)
            /\ selection'[s][Len(selection[s]) + 1] = Latest'
            /\ \A n \in DOMAIN selection[s] : selection'[s][n] = selection[s][n]
        BY <1>0, <4>1
      <4>3. \A n \in DOMAIN selection'[s] :
              /\ n \in DOMAIN selection[s] \/ n = Len(selection[s]) + 1
              /\ base[s] <= selection'[s][n] /\ selection'[s][n] <= Latest'
              /\ selection'[s][n] \in Nat
        BY <1>0, <4>2 DEF SuitcaseMarkerAt, SelectionUp
      <4>4. \A n, k \in DOMAIN selection'[s] : n <= k => selection'[s][n] <= selection'[s][k]
        BY <1>0, <4>2, <4>3, SMTT(30) DEF SuitcaseMarkerAt, SelectionUp
      <4> QED BY <1>3, <4>3, <4>4 DEF SelectionUp
    <3> QED BY <1>2, <1>3, <3>1, <3>2, SelectionMoves DEF SuitcaseMarkerAt
  <2>2. CASE MaterialiseReplica(s)
    <3>1. /\ marker'[s] = MarkersBut(s, base[s]) \cup {<<base[s], revision[s]>>}
          /\ volume'[s] = checkpoints[base[s]].data /\ UNCHANGED checkpoints
      BY <1>0, <2>2 DEF MaterialiseReplica, Restores, homeVars
    <3> QED BY <1>0, <1>1, <1>3, <2>1, <3>1 DEF MarkersBut, SuitcaseMarkerAt
  <2>3. CASE MaterialiseCut(s)
    <3>1. marker'[s] = MarkersBut(s, base[s])
      BY <1>0, <2>3 DEF MaterialiseCut
    <3> QED BY <1>0, <1>1, <1>3, <2>1, <3>1 DEF MarkersBut, SuitcaseMarkerAt
  <2>4. CASE ~ MaterialiseReplica(s) /\ ~ MaterialiseCut(s)
    <3>1. marker'[s] \subseteq marker[s]
      BY <1>0, <2>4, MarkerMoves
    <3>2. \A w : Within(w, volume[s]) => Within(w, volume'[s])
      BY <1>0, <2>4, VolumeGrows
    <3> QED BY <1>0, <1>1, <1>3, <2>1, <3>1, <3>2 DEF SuitcaseMarkerAt, Holds
  <2> QED BY <2>2, <2>3, <2>4
<1> QED BY <1>2, <1>3, SuitcaseBase

(* An adoption that has restored goes on as it was, or has just restored.  *)
LEMMA AdoptionMoves ==
  ASSUME TypesInv, [DataNext]_dataVars, NEW p \in Callers, adoption'[p].at = "mark"
  PROVE  adoption'[p] = adoption[p] \/ RestoreHome(p)
<1>0. adoption \in [Callers -> [at : {"none", "choose", "restore", "mark"}, target : Nat]]
  BY DEF TypesInv, CoordinatorInv
<1>1. ASSUME NEW x \in Callers, RestoreHome(x) PROVE adoption'[p] = adoption[p] \/ x = p
  BY <1>0, <1>1 DEF RestoreHome
<1>2. ASSUME NEW x \in Callers, ChooseCheckpoint(x) \/ RestoreHomeFails(x) \/ MarkRestored(x)
      PROVE  adoption'[p] = adoption[p]
  <2>1. \/ adoption' = [adoption EXCEPT ![x] = NoAdoption]
        \/ adoption' = [adoption EXCEPT ![x] = [at |-> "restore", target |-> Latest]]
    BY <1>2 DEF ChooseCheckpoint, RestoreHomeFails, MarkRestored, AdoptionEnds
  <2>2. x # p
    BY <1>0, <2>1 DEF NoAdoption
  <2> QED BY <1>0, <2>1, <2>2
<1>3. CASE RestartHome
  BY <1>3 DEF RestartHome, NoAdoption
<1>4. CASE ApplyDone \/ SweepAdopts
  BY <1>0, <1>4 DEF ApplyDone, SweepAdopts, Callers
<1>5. CASE \/ UNCHANGED coordinatorVars
           \/ StartJob \/ CaptureHome \/ CaptureHomeFails \/ ApplyThrows
           \/ \E i \in DOMAIN changesets :
                ApplyConflicts(i) \/ ApplyMerges(i) \/ ApplyCommits(i) \/ ApplyBlocks(i)
           \/ \E site \in Sites : SweepOrigin(site)
           \/ \E s \in Suitcases : SelectReplica(s) \/ Exchange(s)
           \/ \E i \in DOMAIN changesets, k \in Keys, choice \in Resolutions \ {"none"} :
                ResolveConflict(i, k, choice)
  BY <1>5, ZenonT(40) DEF coordinatorVars, StartJob, CaptureHome, CaptureHomeFails, ApplyThrows,
              ApplyConflicts, ApplyMerges, ApplyCommits, ApplyBlocks, SweepOrigin, SelectReplica,
              Exchange, ResolveConflict
<1> QED BY <1>1, <1>2, <1>3, <1>4, <1>5, CoordinatorMoves

LEMMA HistoryMoves ==
  ASSUME [DataNext]_dataVars
  PROVE  overtaken' = overtaken
           \/ \E p \in Callers : RestoreHome(p)
                                 /\ overtaken' = (overtaken \/ adoption[p].target # Latest)
<1>1. CASE UNCHANGED dataVars
  BY <1>1 DEF dataVars, historyVars
<1>2. CASE Reconciles
  <2>1. CASE StartJob \/ CaptureHome \/ ApplyDone
    BY <2>1 DEF StartJob, CaptureHome, ApplyDone, historyVars
  <2>2. CASE Adopts("job")
    BY <2>2 DEF Adopts, ChooseCheckpoint, RestoreHome, MarkRestored, historyVars, Callers
  <2>3. CASE \E i \in DOMAIN changesets : ApplyConflicts(i) \/ ApplyMerges(i) \/ ApplyCommits(i)
    BY <2>3 DEF ApplyConflicts, ApplyMerges, ApplyCommits, historyVars
  <2> QED BY <1>2, <2>1, <2>2, <2>3 DEF Reconciles
<1>3. CASE Sweeps
  <2>1. CASE Adopts("sweep")
    BY <2>1 DEF Adopts, ChooseCheckpoint, RestoreHome, MarkRestored, historyVars, Callers
  <2> QED BY <1>3, <2>1 DEF Sweeps, SweepAdopts, SweepOrigin, historyVars
<1>4. CASE Fails
  BY <1>4 DEF Fails, CaptureHomeFails, ApplyThrows, RestartHome, ApplyBlocks, RestoreHomeFails,
              CaptureUnrestored, CaptureBranch, MaterialiseCut, historyVars
<1>5. CASE \E site \in Sites : Revise(site) \/ \E k \in Keys : Write(site, k)
  BY <1>5 DEF Revise, Write
<1>6. CASE \E s \in Suitcases :
             \/ SelectReplica(s) \/ ProjectSelection(s) \/ CaptureSuitcaseBranch(s)
             \/ MaterialiseReplica(s) \/ Exchange(s) \/ SupervisorStarts(s)
  BY <1>6 DEF SelectReplica, ProjectSelection, CaptureSuitcaseBranch, CaptureBranch,
              MaterialiseReplica, Exchange, SupervisorStarts, historyVars
<1>7. CASE \E i \in DOMAIN changesets, k \in Keys, choice \in Resolutions \ {"none"} :
             ResolveConflict(i, k, choice)
  BY <1>7 DEF ResolveConflict, historyVars
<1> QED BY <1>1, <1>2, <1>3, <1>4, <1>5, <1>6, <1>7 DEF DataNext

(* Home's marker for the latest checkpoint: a new checkpoint has none, and *)
(* a restore of another one is what overtaken notes.                       *)
LEMMA HomeMarkerStep ==
  TypesInv /\ HomeMarkerInv /\ [DataNext]_dataVars => HomeMarkerInv'
<1> SUFFICES ASSUME TypesInv, HomeMarkerInv, [DataNext]_dataVars, ~ overtaken'
             PROVE  /\ \A m \in marker'[Home] : m[1] = Latest' => LatestHeld'
                    /\ \A p \in Callers :
                         adoption'[p].at = "mark" /\ adoption'[p].target = Latest' => LatestHeld'
  BY DEF HomeMarkerInv
<1>0. /\ Home \in Sites /\ Latest \in Nat /\ Latest' \in Nat /\ Latest <= Latest'
      /\ \A m \in marker[Home] : m[1] \in 1..Latest
      /\ \A p \in Callers : adoption[p].at = "mark" => adoption[p].target \in 1..Latest
      /\ \A n \in 1..Latest : checkpoints'[n] = checkpoints[n]
      /\ volume \in [Sites -> Data] /\ marker \in [Sites -> SUBSET (Nat \X Nat)]
  <2>1. TablesInv /\ SitesInv /\ CoordinatorInv /\ TablesInv' /\ Grown
    BY TablesStep DEF TypesInv
  <2>2. Home \in Sites /\ Latest \in Nat /\ Latest' \in Nat
    BY <2>1 DEF TablesInv, Latest, Sites
  <2>3. Latest <= Latest' /\ \A n \in 1..Latest : checkpoints'[n] = checkpoints[n]
    <3>1. DOMAIN checkpoints = 1..Latest
      BY <2>1 DEF TablesInv, Latest
    <3> QED BY <2>1, <3>1 DEF Grown
  <2>4. /\ volume \in [Sites -> Data] /\ marker \in [Sites -> SUBSET (Nat \X Nat)]
        /\ \A m \in marker[Home] : m[1] \in 1..Latest
    BY <2>1, <2>2 DEF SitesInv, VolumesInv, MarkersInv
  <2>5. \A p \in Callers : adoption[p].at = "mark" => adoption[p].target \in 1..Latest
    BY <2>1 DEF CoordinatorInv
  <2> QED BY <2>2, <2>3, <2>4, <2>5
<1>1. ~ overtaken
  BY HistoryMoves
<1>2. CASE \E p \in Callers : RestoreHome(p)
  <2>1. PICK p \in Callers : RestoreHome(p) /\ adoption[p].target = Latest
    BY <1>2, HistoryMoves DEF RestoreHome
  <2>2. volume'[Home] = checkpoints[Latest].data /\ UNCHANGED checkpoints
    BY <1>0, <2>1 DEF RestoreHome, Restores, homeVars
  <2>3. LatestHeld'
    BY <2>2 DEF LatestHeld, Holds, Latest
  <2> QED BY <2>3
<1>3. CASE ~ \E p \in Callers : RestoreHome(p)
  <2>1. \A w : Within(w, volume[Home]) => Within(w, volume'[Home])
    BY <1>0, <1>3, VolumeGrows
  <2>2. LatestHeld /\ Latest' = Latest /\ Latest # 0 => LatestHeld'
    BY <1>0, <2>1 DEF LatestHeld, Holds
  <2>3. ASSUME NEW p \in Callers, adoption'[p].at = "mark", adoption'[p].target = Latest'
        PROVE  LatestHeld'
    <3>1. adoption[p].at = "mark" /\ adoption[p].target = Latest'
      BY <1>3, <2>3, AdoptionMoves
    <3>2. Latest' = Latest /\ Latest # 0
      BY <1>0, <3>1
    <3> QED BY <1>1, <2>2, <3>1, <3>2 DEF HomeMarkerInv
  <2>4. ASSUME NEW m \in marker'[Home], m[1] = Latest'
        PROVE  LatestHeld'
    <3>1. CASE m \in marker[Home]
      <4>1. Latest' = Latest /\ Latest # 0
        BY <1>0, <2>4, <3>1
      <4> QED BY <1>1, <2>2, <2>4, <3>1, <4>1 DEF HomeMarkerInv
    <3>2. CASE m \notin marker[Home]
      <4>1. PICK p \in Callers : MarkRestored(p)
        BY <1>0, <2>4, <3>2, MarkerMoves
      <4>2. m = <<adoption[p].target, revision[Home]>> /\ adoption[p].at = "mark"
        BY <1>0, <2>4, <3>2, <4>1 DEF MarkRestored, MarkersBut
      <4>3. adoption[p].target = Latest'
        BY <2>4, <4>2
      <4>4. Latest' = Latest /\ Latest # 0
        BY <1>0, <4>2, <4>3
      <4> QED BY <1>1, <2>2, <4>2, <4>3, <4>4 DEF HomeMarkerInv
    <3> QED BY <3>1, <3>2
  <2> QED BY <2>3, <2>4
<1> QED BY <1>2, <1>3

(* A marker tells the truth: leaving the volume of a site alone that has   *)
(* one for its current checkpoint is right, unless Home restored one that  *)
(* was no longer the latest.                                               *)
THEOREM MarkersTellTheTruth == DataSpec => []MarkerTellsTruth
<1>1. DataInit => TypesInv /\ SuitcaseMarkerInv /\ HomeMarkerInv
  BY TypesInit DEF DataInit, SuitcaseMarkerInv, SuitcaseMarkerAt, SelectionUp, HomeMarkerInv,
     Callers, NoAdoption, Sites
<1>2. ASSUME TypesInv, SuitcaseMarkerInv, HomeMarkerInv PROVE MarkerTellsTruth
  <2> SUFFICES ASSUME ~ overtaken, NEW site \in Sites, NEW m \in marker[site],
                      m[1] = (IF site = Home THEN Latest ELSE base[site]),
                      NEW w, Within(w, checkpoints[m[1]].data)
               PROVE  Within(w, volume[site])
    BY DEF MarkerTellsTruth
  <2>1. CASE site = Home
    BY <1>2, <2>1 DEF HomeMarkerInv, LatestHeld, Holds
  <2>2. CASE site # Home
    BY <1>2, <2>2 DEF SuitcaseMarkerInv, SuitcaseMarkerAt, Holds, Sites
  <2> QED BY <2>1, <2>2
<1> QED BY <1>1, <1>2, TypesStep, SuitcaseMarkerStep, HomeMarkerStep, PTL DEF DataSpec

-----------------------------------------------------------------------------
(* THE WRITES                                                              *)

LEMMA StaysDisturbed == ASSUME [DataNext]_dataVars PROVE disturbed => disturbed'
<1>1. CASE UNCHANGED dataVars
  BY <1>1 DEF dataVars, historyVars
<1>2. CASE Reconciles
  <2>1. CASE StartJob \/ CaptureHome \/ ApplyDone
    BY <2>1 DEF StartJob, CaptureHome, ApplyDone, historyVars
  <2>2. CASE Adopts("job")
    BY <2>2 DEF Adopts, ChooseCheckpoint, RestoreHome, MarkRestored, historyVars, Callers
  <2>3. CASE \E i \in DOMAIN changesets : ApplyConflicts(i) \/ ApplyMerges(i) \/ ApplyCommits(i)
    BY <2>3 DEF ApplyConflicts, ApplyMerges, ApplyCommits, historyVars
  <2> QED BY <1>2, <2>1, <2>2, <2>3 DEF Reconciles
<1>3. CASE Sweeps
  <2>1. CASE Adopts("sweep")
    BY <2>1 DEF Adopts, ChooseCheckpoint, RestoreHome, MarkRestored, historyVars, Callers
  <2> QED BY <1>3, <2>1 DEF Sweeps, SweepAdopts, SweepOrigin, historyVars
<1>4. CASE Fails
  BY <1>4 DEF Fails, CaptureHomeFails, ApplyThrows, RestartHome, ApplyBlocks, RestoreHomeFails,
              CaptureUnrestored, CaptureBranch, MaterialiseCut, historyVars
<1>5. CASE \E site \in Sites : Revise(site) \/ \E k \in Keys : Write(site, k)
  BY <1>5 DEF Revise, Write
<1>6. CASE \E s \in Suitcases :
             \/ SelectReplica(s) \/ ProjectSelection(s) \/ CaptureSuitcaseBranch(s)
             \/ MaterialiseReplica(s) \/ Exchange(s) \/ SupervisorStarts(s)
  BY <1>6 DEF SelectReplica, ProjectSelection, CaptureSuitcaseBranch, CaptureBranch,
              MaterialiseReplica, Exchange, SupervisorStarts, historyVars
<1>7. CASE \E i \in DOMAIN changesets, k \in Keys, choice \in Resolutions \ {"none"} :
             ResolveConflict(i, k, choice)
  BY <1>7 DEF ResolveConflict, historyVars
<1> QED BY <1>1, <1>2, <1>3, <1>4, <1>5, <1>6, <1>7 DEF DataNext

LEMMA BranchMoves ==
  ASSUME TypesInv, [DataNext]_dataVars, NEW s \in Suitcases
  PROVE  branch'[s] = branch[s] \/ CaptureSuitcaseBranch(s) \/ CaptureUnrestored(s) \/ Exchange(s)
<1>0. branch \in [Suitcases -> [base : Nat, data : Data, sent : BOOLEAN]]
  BY DEF TypesInv, SitesInv, WiresInv
<1>1. CASE UNCHANGED branch
  BY <1>1
<1>2. CASE \E x \in Suitcases : CaptureSuitcaseBranch(x) \/ CaptureUnrestored(x) \/ Exchange(x)
  BY <1>0, <1>2 DEF CaptureSuitcaseBranch, CaptureUnrestored, CaptureBranch, Exchange
<1>3. CASE UNCHANGED dataVars
  BY <1>3 DEF dataVars, wireVars
<1>4. CASE Reconciles
  <2>1. CASE StartJob \/ CaptureHome \/ ApplyDone
    BY <2>1 DEF StartJob, CaptureHome, ApplyDone, wireVars
  <2>2. CASE Adopts("job")
    BY <2>2 DEF Adopts, ChooseCheckpoint, RestoreHome, MarkRestored, wireVars
  <2>3. CASE \E i \in DOMAIN changesets : ApplyConflicts(i) \/ ApplyMerges(i) \/ ApplyCommits(i)
    BY <2>3 DEF ApplyConflicts, ApplyMerges, ApplyCommits, wireVars
  <2> QED BY <1>4, <2>1, <2>2, <2>3 DEF Reconciles
<1>5. CASE Sweeps
  <2>1. CASE Adopts("sweep")
    BY <2>1 DEF Adopts, ChooseCheckpoint, RestoreHome, MarkRestored, wireVars
  <2> QED BY <1>5, <2>1 DEF Sweeps, SweepAdopts, SweepOrigin, wireVars
<1>6. CASE Fails
  BY <1>2, <1>6 DEF Fails, CaptureHomeFails, ApplyThrows, RestartHome, ApplyBlocks,
                    RestoreHomeFails, MaterialiseCut, wireVars
<1>7. CASE \E site \in Sites : Revise(site) \/ \E k \in Keys : Write(site, k)
  BY <1>7 DEF Revise, Write, wireVars
<1>8. CASE \E x \in Suitcases :
             \/ SelectReplica(x) \/ ProjectSelection(x) \/ CaptureSuitcaseBranch(x)
             \/ MaterialiseReplica(x) \/ Exchange(x) \/ SupervisorStarts(x)
  BY <1>2, <1>8 DEF SelectReplica, ProjectSelection, MaterialiseReplica, SupervisorStarts,
                    wireVars
<1>9. CASE \E i \in DOMAIN changesets, k \in Keys, choice \in Resolutions \ {"none"} :
             ResolveConflict(i, k, choice)
  BY <1>9 DEF ResolveConflict, wireVars
<1> QED BY <1>3, <1>4, <1>5, <1>6, <1>7, <1>8, <1>9 DEF DataNext

(* Where a new changeset comes from. *)
LEMMA NewChangeset ==
  ASSUME TypesInv, [DataNext]_dataVars, NEW i \in DOMAIN changesets', i \notin DOMAIN changesets
  PROVE  \/ CaptureHome /\ changesets'[i] = Changeset(Home, base[Home], volume[Home])
         \/ \E s \in Suitcases :
              /\ Exchange(s) /\ branch[s] # NoBranch
              /\ changesets'[i] = Changeset(s, branch[s].base, branch[s].data)
<1>0. /\ changesets \in Seq(ChangesetRow) /\ DOMAIN changesets = 1..Len(changesets)
      /\ Len(changesets) \in Nat
  BY DEF TypesInv, TablesInv
<1>1. CASE CaptureHome
  <2>1. changesets' = Append(changesets, Changeset(Home, base[Home], volume[Home]))
    BY <1>1 DEF CaptureHome
  <2>2. changesets'[i] = Changeset(Home, base[Home], volume[Home])
    BY <1>0, <2>1
  <2> QED BY <1>1, <2>2
<1>2. ASSUME NEW s \in Suitcases, Exchange(s)
      PROVE  branch[s] # NoBranch /\ changesets'[i] = Changeset(s, branch[s].base, branch[s].data)
  <2>1. /\ changesets' = Append(changesets, Changeset(s, branch[s].base, branch[s].data))
        /\ branch[s] # NoBranch
    BY <1>2 DEF Exchange
  <2> QED BY <1>0, <2>1
<1>3. CASE UNCHANGED homeVars \/ \E s \in Suitcases : SelectReplica(s) \/ ProjectSelection(s)
  BY <1>3 DEF homeVars, SelectReplica, ProjectSelection
<1>4. CASE \E n \in DOMAIN changesets :
             ApplyConflicts(n) \/ ApplyMerges(n) \/ ApplyCommits(n) \/ ApplyBlocks(n)
  BY <1>4 DEF ApplyConflicts, ApplyMerges, ApplyCommits, ApplyBlocks
<1>5. CASE \E n \in DOMAIN changesets, k \in Keys, choice \in Resolutions \ {"none"} :
             ResolveConflict(n, k, choice)
  BY <1>5 DEF ResolveConflict
<1> QED BY <1>1, <1>2, <1>3, <1>4, <1>5, TableMoves

LEMMA BranchesGroundedStep ==
  ASSUME TypesInv, BranchesGrounded, OneBase, [DataNext]_dataVars, ~ disturbed'
  PROVE  BranchesGrounded'
<1>0. /\ \A n \in 1..Latest : checkpoints'[n] = checkpoints[n]
      /\ \A s \in Suitcases : base[s] <= Latest /\ base[s] \in Nat
                              /\ branch[s].base <= Latest /\ branch[s].base \in Nat
                              /\ (branch[s] # NoBranch => branch[s].base # 0)
      /\ Latest \in Nat
      /\ base[Home] <= Latest /\ base[Home] \in Nat
  BY TablesStep, Bounds DEF TypesInv, TablesInv, SitesInv, WiresInv, Grown, Latest, Sites
<1>1. ASSUME NEW i \in DOMAIN changesets' PROVE Grounded(changesets[i])'
  <2>1. CASE i \in DOMAIN changesets
    BY <2>1, GroundedStays DEF BranchesGrounded
  <2>2. CASE CaptureHome /\ changesets'[i] = Changeset(Home, base[Home], volume[Home])
                         /\ i \notin DOMAIN changesets
    <3>1. Grounded(Changeset(Home, base[Home], volume[Home])) /\ UNCHANGED checkpoints
      BY <2>2 DEF CaptureHome
    <3> QED BY <2>2, <3>1 DEF Grounded
  <2>3. ASSUME NEW s \in Suitcases, Exchange(s), branch[s] # NoBranch,
               changesets'[i] = Changeset(s, branch[s].base, branch[s].data)
        PROVE  Grounded(changesets[i])'
    <3>1. BuildsOn(checkpoints[branch[s].base].data, branch[s].data) /\ UNCHANGED checkpoints
      BY <1>0, <2>3 DEF BranchesGrounded, Exchange
    <3> QED BY <2>3, <3>1 DEF Grounded, BuildsOn, Changeset
  <2> QED BY <2>1, <2>2, <2>3, NewChangeset
<1>2. ASSUME NEW s \in Suitcases, branch'[s].base # 0
      PROVE  BuildsOn(checkpoints'[branch'[s].base].data, branch'[s].data)
  <2>1. CASE branch'[s].base = branch[s].base /\ branch'[s].data = branch[s].data
    BY <1>0, <1>2, <2>1 DEF BranchesGrounded
  <2>2. CASE CaptureSuitcaseBranch(s) /\ branch'[s] # branch[s]
    <3>1. /\ branch'[s] = [base |-> base[s], data |-> volume[s], sent |-> FALSE]
          /\ s \in restored /\ UNCHANGED checkpoints
      <4>1. branch \in [Suitcases -> [base : Nat, data : Data, sent : BOOLEAN]]
        BY DEF TypesInv, SitesInv, WiresInv
      <4>2. PICK row : row = [base |-> base[s], data |-> volume[s], sent |-> FALSE]
        OBVIOUS
      <4>3. /\ branch' = branch \/ branch' = [branch EXCEPT ![s] = row]
            /\ s \in restored /\ UNCHANGED checkpoints
        BY <2>2, <4>2 DEF CaptureSuitcaseBranch, CaptureBranch, homeVars
      <4>4. branch'[s] = row
        BY <2>2, <4>1, <4>3
      <4> QED BY <4>2, <4>3, <4>4
    <3>2. BuildsOn(checkpoints[base[s]].data, volume[s])
      BY <3>1 DEF OneBase, OneBaseAt
    <3>3. branch'[s].base = base[s] /\ branch'[s].data = volume[s]
      BY <3>1
    <3> QED BY <3>1, <3>2, <3>3
  <2>3. CASE CaptureUnrestored(s)
    BY <2>3 DEF CaptureUnrestored
  <2>4. CASE Exchange(s)
    <3>1. branch \in [Suitcases -> [base : Nat, data : Data, sent : BOOLEAN]]
      BY DEF TypesInv, SitesInv, WiresInv
    <3>2. branch'[s].base = branch[s].base /\ branch'[s].data = branch[s].data
      BY <2>4, <3>1 DEF Exchange
    <3> QED BY <2>1, <3>2
  <2> QED BY <2>1, <2>2, <2>3, <2>4, BranchMoves
<1> QED BY <1>1, <1>2 DEF BranchesGrounded

(* Of a branch that builds on its base a merge keeps every write too: what *)
(* it took over from the base is in the checkpoint, or was decided against. *)
LEMMA MergeKeepsBranch ==
  ASSUME NEW b \in Data, NEW h \in Data, NEW s \in Data, NEW resolution, NEW policy, BuildsOn(b, s),
         NEW merged, merged = Merged(b, h, s, resolution, policy),
         b.copies \subseteq h.copies, NEW D,
         \A w : Within(w, b) => Within(w, h) \/ w \in D,
         NEW w, Within(w, s)
  PROVE  Within(w, merged) \/ w \in LeftOut(b, h, s, merged) \/ w \in D
<1>1. /\ merged.main = [k \in Keys |-> MergedKey(k, b, h, s, resolution, policy)]
      /\ merged.copies = {c \in h.copies \cup s.copies :
                            ThreeWay(c \in b.copies, c \in h.copies, c \in s.copies)}
                           \cup KeptBeside(b, h, s, resolution)
  BY DEF Merged
<1>2. CASE \E c \in s.copies : w \in c[2]
  <2>1. PICK c \in s.copies : w \in c[2]
    BY <1>2
  <2>2. ThreeWay(c \in b.copies, c \in h.copies, c \in s.copies)
    BY DEF ThreeWay
  <2>3. c \in merged.copies
    BY <1>1, <2>2
  <2> QED BY <2>1, <2>3 DEF Within
<1>3. ASSUME NEW k \in Keys, w \in s.main[k], ~ Within(w, merged)
      PROVE  w \in LeftOut(b, h, s, merged) \/ w \in D
  <2>1. CASE k \in Clashes(b, h, s)
    BY <1>3, <2>1 DEF LeftOut
  <2>2. CASE k \notin Clashes(b, h, s)
    <3>1. w \notin ThreeWay(b.main[k], h.main[k], s.main[k])
      BY <1>1, <1>3, <2>2 DEF Within, MergedKey
    <3>2. s.main[k] = b.main[k]
      BY <1>3, <2>2, <3>1 DEF ThreeWay, Clash, Clashes
    <3>3. Within(w, h) \/ w \in D
      BY <1>3, <3>2 DEF Within
    <3> QED BY <1>3, <3>3, MergeKeepsHome
  <2> QED BY <2>1, <2>2
<1> QED BY <1>2, <1>3 DEF Within

(* The checkpoint a merge makes: nothing of the latest is lost, and        *)
(* nothing of the branch.                                                  *)
LEMMA MergeInLine ==
  ASSUME TypesInv, BranchesGrounded, OneLine, [DataNext]_dataVars,
         NEW i \in DOMAIN changesets, ApplyMerges(i), NEW l, l = Latest
  PROVE  /\ Latest' = l + 1 /\ l \in DOMAIN checkpoints
         /\ DOMAIN checkpoints = 1..l /\ DOMAIN checkpoints' = 1..(l + 1) /\ l \in Nat
         /\ \A n \in DOMAIN checkpoints : checkpoints'[n] = checkpoints[n]
         /\ checkpoints[l].data.copies \subseteq checkpoints'[l + 1].data.copies
         /\ \A w : Within(w, checkpoints[l].data) =>
              Within(w, checkpoints'[l + 1].data) \/ w \in dropped'
         /\ \A w : Within(w, changesets[i].data) =>
              Within(w, checkpoints'[l + 1].data) \/ w \in dropped'
<1>1. PICK o : o = Operands(i)
  OBVIOUS
<1>2. PICK merged : merged = Merged(o.b, o.h, o.s, o.resolution, o.policy)
  OBVIOUS
<1>3. PICK n : n = changesets[i].base
  OBVIOUS
<1>4. /\ Latest' = l + 1 /\ l \in DOMAIN checkpoints /\ l \in Nat
      /\ DOMAIN checkpoints = 1..l /\ DOMAIN checkpoints' = 1..(l + 1)
      /\ \A x \in DOMAIN checkpoints : checkpoints'[x] = checkpoints[x]
      /\ checkpoints'[l + 1].data = merged
      /\ o.b \in Data /\ o.h \in Data /\ o.s \in Data
      /\ o.b = checkpoints[n].data /\ o.h = checkpoints[l].data
      /\ o.s = changesets[i].data
      /\ dropped' = dropped \cup LeftOut(o.b, o.h, o.s, merged)
  <2>1. /\ Latest' = l + 1 /\ l \in Nat /\ l # 0
        /\ \A x \in DOMAIN checkpoints : checkpoints'[x] = checkpoints[x]
        /\ DOMAIN checkpoints = 1..l /\ DOMAIN checkpoints' = 1..(l + 1)
        /\ o.b \in Data /\ o.h \in Data /\ o.s \in Data
        /\ o.b = checkpoints[n].data /\ o.h = checkpoints[l].data
        /\ o.s = changesets[i].data
    BY <1>1, <1>3, MergeAppends
  <2>2. dropped' = dropped \cup LeftOut(o.b, o.h, o.s, merged)
    BY <1>1, <1>2, MergeAppends
  <2>3. checkpoints'[l + 1] = [data |-> merged, parent |-> l, from |-> i]
    BY <1>1, <1>2, MergeAppends
  <2> QED BY <2>1, <2>2, <2>3
<1>5. n \in DOMAIN checkpoints /\ n <= l
  BY <1>3, <1>4 DEF TypesInv, TablesInv
<1>6. BuildsOn(o.b, o.s)
  BY <1>3, <1>4 DEF BranchesGrounded, Grounded, BuildsOn
<1>7. /\ o.b.copies \subseteq o.h.copies
      /\ \A w : Within(w, o.b) => Within(w, o.h) \/ w \in dropped
  BY <1>4, <1>5 DEF OneLine
<1>8. /\ o.h.copies \subseteq merged.copies
      /\ \A w : Within(w, o.h) => Within(w, merged) \/ w \in LeftOut(o.b, o.h, o.s, merged)
  BY <1>2, <1>4, <1>6, MergeKeepsHome
<1>9. \A w : Within(w, o.s) =>
        Within(w, merged) \/ w \in LeftOut(o.b, o.h, o.s, merged) \/ w \in dropped
  BY <1>2, <1>4, <1>6, <1>7, MergeKeepsBranch
<1>10. \A w : Within(w, checkpoints[l].data) =>
              Within(w, checkpoints'[l + 1].data) \/ w \in dropped'
  BY <1>4, <1>8
<1>11. \A w : Within(w, changesets[i].data) =>
              Within(w, checkpoints'[l + 1].data) \/ w \in dropped'
  BY <1>4, <1>9
<1> QED BY <1>4, <1>8, <1>10, <1>11

LEMMA CheckpointMoves ==
  ASSUME [DataNext]_dataVars
  PROVE  \/ UNCHANGED checkpoints
         \/ \E i \in DOMAIN changesets : ApplyMerges(i)
         \/ \E s \in Suitcases : SelectReplica(s) /\ checkpoints = <<>>
<1>1. CASE \E s \in Suitcases : SelectReplica(s) \/ ProjectSelection(s) \/ Exchange(s)
  BY <1>1 DEF SelectReplica, ProjectSelection, Exchange
<1> QED BY <1>1, TableMoves, ZenonT(40)
        DEF homeVars, CaptureHome, ApplyConflicts, ApplyCommits, ApplyBlocks, ResolveConflict

LEMMA OneLineStep ==
  ASSUME TypesInv, BranchesGrounded, OneLine, [DataNext]_dataVars
  PROVE  OneLine'
<1>1. CASE UNCHANGED checkpoints
  BY <1>1, DroppedGrows DEF OneLine
<1>2. ASSUME NEW i \in DOMAIN changesets, ApplyMerges(i) PROVE OneLine'
  <2>1. PICK l : l = Latest
    OBVIOUS
  <2>2. /\ l \in DOMAIN checkpoints /\ l \in Nat
        /\ DOMAIN checkpoints = 1..l /\ DOMAIN checkpoints' = 1..(l + 1)
        /\ \A n \in DOMAIN checkpoints : checkpoints'[n] = checkpoints[n]
        /\ checkpoints[l].data.copies \subseteq checkpoints'[l + 1].data.copies
        /\ \A w : Within(w, checkpoints[l].data) =>
             Within(w, checkpoints'[l + 1].data) \/ w \in dropped'
    BY <1>2, <2>1, MergeInLine
  <2> SUFFICES ASSUME NEW m \in DOMAIN checkpoints', NEW n \in DOMAIN checkpoints', m <= n
               PROVE  /\ checkpoints'[m].data.copies \subseteq checkpoints'[n].data.copies
                      /\ \A w : Within(w, checkpoints'[m].data) =>
                           Within(w, checkpoints'[n].data) \/ w \in dropped'
    BY DEF OneLine
  <2>3. CASE n \in DOMAIN checkpoints
    <3>1. m \in DOMAIN checkpoints
      BY <2>2, <2>3
    <3>2. checkpoints'[m] = checkpoints[m] /\ checkpoints'[n] = checkpoints[n]
      BY <2>2, <2>3, <3>1
    <3> QED BY <2>3, <3>1, <3>2, DroppedGrows DEF OneLine
  <2>4. CASE n = l + 1 /\ m \in DOMAIN checkpoints
    <3>1. m <= l /\ checkpoints'[m] = checkpoints[m]
      BY <2>2, <2>4
    <3>2. /\ checkpoints[m].data.copies \subseteq checkpoints[l].data.copies
          /\ \A w : Within(w, checkpoints[m].data) => Within(w, checkpoints[l].data) \/ w \in dropped
      BY <2>2, <2>4, <3>1 DEF OneLine
    <3> QED BY <2>2, <2>4, <3>1, <3>2, DroppedGrows
  <2>5. CASE n = l + 1 /\ m = l + 1
    BY <2>5
  <2> QED BY <2>2, <2>3, <2>4, <2>5
<1>3. ASSUME NEW s \in Suitcases, SelectReplica(s), checkpoints = <<>> PROVE OneLine'
  <2>1. checkpoints' = <<[data |-> volume[Home], parent |-> 0, from |-> 0]>>
    BY <1>3 DEF SelectReplica
  <2>2. DOMAIN checkpoints' = {1}
    BY <2>1
  <2> QED BY <2>2 DEF OneLine
<1> QED BY <1>1, <1>2, <1>3, CheckpointMoves

(* Writing adds to a content. *)
LEMMA WrittenBuildsOn ==
  ASSUME NEW b, NEW d \in Data, NEW k \in Keys, NEW n, BuildsOn(b, d)
  PROVE  BuildsOn(b, [d EXCEPT !.main[k] = @ \cup {n}])
<1> DEFINE e == [d EXCEPT !.main[k] = @ \cup {n}]
<1>1. e.copies = d.copies /\ \A x \in Keys : d.main[x] \subseteq e.main[x]
  BY DEF Data
<1> HIDE DEF e
<1>2. BuildsOn(b, e)
  BY <1>1 DEF BuildsOn
<1> QED BY <1>2 DEF e

LEMMA OneBaseStep ==
  ASSUME TypesInv, OneBase, [DataNext]_dataVars, ~ disturbed', NEW s \in Suitcases
  PROVE  OneBaseAt(s)'
<1>0. /\ OneBaseAt(s) /\ s \in Sites /\ s # Home /\ Home \in Sites
      /\ volume \in [Sites -> Data] /\ base \in [Sites -> Nat]
      /\ marker \in [Sites -> SUBSET (Nat \X Nat)] /\ revision \in [Sites -> Nat]
      /\ selection \in [Suitcases -> Seq(Nat)]
  BY HomeAssumption
     DEF OneBase, Sites, TypesInv, TablesInv, SitesInv, VolumesInv, MarkersInv, WiresInv
<1>00. base[s] # 0 => checkpoints'[base[s]] = checkpoints[base[s]]
  <2>1. base[s] <= Latest /\ base[s] \in Nat /\ Latest \in Nat /\ DOMAIN checkpoints = 1..Latest
    BY <1>0 DEF TypesInv, TablesInv, Latest
  <2>2. \A n \in DOMAIN checkpoints : checkpoints'[n] = checkpoints[n]
    BY TablesStep DEF Grown
  <2> QED BY <2>1, <2>2
<1>1. ASSUME base'[s] = base[s], selection'[s] = selection[s], volume'[s] = volume[s],
             s \in restored' <=> s \in restored, s \in up' => s \in up \/ s \in restored,
             revision'[s] = revision[s], marker'[s] = marker[s]
      PROVE  OneBaseAt(s)'
  BY <1>0, <1>00, <1>1 DEF OneBaseAt
<1>2. CASE ProjectSelection(s)
  <2>1. /\ selection[s] # <<>> /\ selection'[s] = Tail(selection[s]) /\ UNCHANGED siteVars
    BY <1>0, <1>2 DEF ProjectSelection
  <2>2. base[s] = 0 /\ s \notin restored /\ volume[s] = Empty /\ s \notin up
        /\ Len(selection[s]) <= 1
    BY <1>0, <2>1 DEF OneBaseAt
  <2>3. selection'[s] = <<>>
    <3>1. PICK q \in Seq(Nat) : q = selection[s]
      BY <1>0
    <3>2. Tail(q) = <<>>
      BY <2>1, <2>2, <3>1
    <3> QED BY <2>1, <3>1, <3>2
  <2> QED BY <2>1, <2>2, <2>3 DEF OneBaseAt, siteVars
<1>3. ASSUME base'[s] = base[s], UNCHANGED <<siteVars, selection>>
      PROVE  OneBaseAt(s)'
  BY <1>1, <1>3 DEF siteVars
<1>4. ASSUME base'[s] = base[s],
             \/ UNCHANGED <<siteVars, wireVars, writes, dropped>>
             \/ \E i \in DOMAIN changesets : ApplyMerges(i)
             \/ \E x \in Suitcases : Exchange(x)
      PROVE  OneBaseAt(s)'
  BY <1>3, <1>4 DEF wireVars, ApplyMerges, Exchange
<1>5. ASSUME base'[s] = base[s], NEW p \in Callers,
             ChooseCheckpoint(p) \/ RestoreHome(p) \/ MarkRestored(p)
      PROVE  OneBaseAt(s)'
  <2>1. CASE ChooseCheckpoint(p) \/ MarkRestored(p)
    <3>1. UNCHANGED <<volume, restored, up, revision, selection>> /\ marker'[s] = marker[s]
      BY <1>0, <2>1 DEF ChooseCheckpoint, MarkRestored, wireVars
    <3> QED BY <1>1, <1>5, <3>1
  <2>2. CASE RestoreHome(p)
    <3>1. UNCHANGED <<marker, up, revision, selection>> /\ volume'[s] = volume[s]
          /\ restored' = restored \cup {Home}
      BY <1>0, <2>2 DEF RestoreHome, Restores, wireVars
    <3> QED BY <1>0, <1>1, <1>5, <3>1
  <2> QED BY <1>5, <2>1, <2>2
<1>6. ASSUME base'[s] = base[s], NEW x \in Sites, NEW k \in Keys, Write(x, k)
      PROVE  OneBaseAt(s)'
  <2>1. UNCHANGED <<marker, up, revision, restored, selection>>
    BY <1>6 DEF Write, wireVars
  <2>2. CASE x # s
    <3>1. volume'[s] = volume[s]
      BY <1>0, <1>6, <2>2 DEF Write
    <3> QED BY <1>1, <1>6, <2>1, <3>1
  <2>3. CASE x = s
    <3>1. volume'[s] = [volume[s] EXCEPT !.main[k] = @ \cup {writes'}] /\ s \in up
      BY <1>0, <1>6, <2>3 DEF Write, Running
    <3>2. /\ s \in restored /\ base[s] # 0 /\ <<base[s], revision[s]>> \in marker[s]
          /\ BuildsOn(checkpoints[base[s]].data, volume[s]) /\ selection[s] = <<>>
      BY <1>0, <3>1 DEF OneBaseAt
    <3>3. BuildsOn(checkpoints[base[s]].data, volume'[s])
      <4>1. PICK n, d, b : n = writes' /\ d = volume[s] /\ b = checkpoints[base[s]].data
        OBVIOUS
      <4>2. d \in Data /\ BuildsOn(b, d)
        BY <1>0, <3>2, <4>1
      <4>3. BuildsOn(b, [d EXCEPT !.main[k] = @ \cup {n}])
        BY <4>2, WrittenBuildsOn
      <4> QED BY <3>1, <4>1, <4>3
    <3>4. /\ s \in restored' /\ base'[s] # 0 /\ <<base'[s], revision'[s]>> \in marker'[s]
          /\ BuildsOn(checkpoints'[base'[s]].data, volume'[s])
          /\ selection'[s] = <<>> /\ Len(selection'[s]) <= 1
      BY <1>00, <1>6, <2>1, <3>2, <3>3
    <3> QED BY <3>4 DEF OneBaseAt
  <2> QED BY <2>2, <2>3
<1>7. ASSUME NEW x \in Suitcases, SelectReplica(x), base'[s] = base[s]
      PROVE  OneBaseAt(s)'
  <2>1. UNCHANGED siteVars /\ selection' = [selection EXCEPT ![x] = Append(@, Len(checkpoints'))]
    BY <1>7 DEF SelectReplica
  <2>2. CASE x # s
    <3>1. selection'[s] = selection[s]
      BY <1>0, <2>1, <2>2
    <3> QED BY <1>1, <1>7, <2>1, <3>1 DEF siteVars
  <2>3. CASE x = s
    <3>1. base[s] = 0 /\ selection[s] = <<>>
      BY <1>7, <2>3 DEF SelectReplica
    <3>2. Len(selection'[s]) <= 1
      BY <1>0, <2>1, <2>3, <3>1
    <3>3. s \notin restored /\ volume[s] = Empty /\ s \notin up
      BY <1>0, <3>1 DEF OneBaseAt
    <3> QED BY <1>7, <2>1, <3>1, <3>2, <3>3 DEF OneBaseAt, siteVars
  <2> QED BY <2>2, <2>3
<1>8. ASSUME NEW x \in Suitcases, base'[s] = base[s],
             (CaptureBranch(x) /\ x \in restored) \/ SupervisorStarts(x)
      PROVE  OneBaseAt(s)'
  <2>1. /\ UNCHANGED <<volume, restored, revision, marker, selection>>
        /\ up' = up \cup {x} /\ x \in restored
    BY <1>8 DEF CaptureBranch, SupervisorStarts, wireVars
  <2> QED BY <1>1, <1>8, <2>1
<1>9. ASSUME NEW x \in Suitcases, MaterialiseReplica(x), base'[s] = base[s]
      PROVE  OneBaseAt(s)'
  <2>1. /\ volume' = [volume EXCEPT ![x] = checkpoints[base[x]].data]
        /\ restored' = restored \cup {x} /\ up' = up \cup {x}
        /\ marker' = [marker EXCEPT ![x] = MarkersBut(x, base[x]) \cup {<<base[x], revision[x]>>}]
        /\ UNCHANGED <<revision, selection>>
        /\ base[x] # 0 /\ <<base[x], revision[x]>> \notin marker[x]
    BY <1>9 DEF MaterialiseReplica, Restores, wireVars
  <2>2. CASE x # s
    <3>1. volume'[s] = volume[s] /\ marker'[s] = marker[s]
      BY <1>0, <2>1, <2>2
    <3> QED BY <1>1, <1>9, <2>1, <2>2, <3>1
  <2>3. CASE x = s
    <3>1. /\ volume'[s] = checkpoints[base[s]].data /\ <<base[s], revision[s]>> \in marker'[s]
          /\ s \in restored' /\ selection[s] = <<>>
      BY <1>0, <2>1, <2>3 DEF OneBaseAt
    <3>2. BuildsOn(checkpoints[base[s]].data, volume'[s])
      BY <3>1 DEF BuildsOn
    <3>3. /\ s \in restored' /\ base'[s] # 0 /\ <<base'[s], revision'[s]>> \in marker'[s]
          /\ BuildsOn(checkpoints'[base'[s]].data, volume'[s])
          /\ selection'[s] = <<>> /\ Len(selection'[s]) <= 1
      BY <1>00, <1>9, <2>1, <2>3, <3>1, <3>2
    <3> QED BY <3>3 DEF OneBaseAt
  <2> QED BY <2>2, <2>3
<1>10. \A x \in Suitcases : ~ MaterialiseCut(x) /\ \A y \in Sites : ~ Revise(y)
  BY DEF MaterialiseCut, Revise
<1>11. CASE base'[s] = base[s] /\ \A x \in Suitcases : ~ ProjectSelection(x)
  BY <1>0, <1>4, <1>5, <1>6, <1>7, <1>8, <1>9, <1>10, <1>11, SiteMoves
<1>12. ASSUME NEW x \in Suitcases, ProjectSelection(x), x # s
       PROVE  OneBaseAt(s)'
  <2>1. UNCHANGED siteVars /\ base'[s] = base[s] /\ selection'[s] = selection[s]
    BY <1>0, <1>12 DEF ProjectSelection
  <2> QED BY <1>1, <2>1 DEF siteVars
<1> QED BY <1>2, <1>11, <1>12, SuitcaseBase

(* Of the steps of a reconciliation. *)
LEMMA CommitMoves ==
  ASSUME TypesInv, [DataNext]_dataVars, job'.at = "commit"
  PROVE  job' = job \/ \E i \in DOMAIN changesets : ApplyMerges(i)
<1>0. job \in JobRow
  BY DEF TypesInv, CoordinatorInv
<1>1. CASE StartJob \/ CaptureHome \/ ApplyDone
  <2>1. CASE StartJob
    BY <2>1 DEF StartJob, JobEnds, NoJob
  <2>2. CASE CaptureHome
    BY <1>0, <2>2 DEF CaptureHome, JobRow
  <2>3. CASE ApplyDone
    <3>1. /\ job.at = "apply"
          /\ \/ job' = [job EXCEPT !.own = TRUE, !.todo = PendingOf(Home)]
             \/ job' = [job EXCEPT !.at = "adopt"]
      BY <2>3 DEF ApplyDone
    <3> QED BY <1>0, <3>1 DEF JobRow
  <2> QED BY <1>1, <2>1, <2>2, <2>3
<1>2. CASE CaptureHomeFails \/ ApplyThrows \/ RestartHome
  BY <1>2 DEF CaptureHomeFails, ApplyThrows, RestartHome, JobEnds, NoJob
<1>3. CASE \E i \in DOMAIN changesets : ApplyConflicts(i) \/ ApplyCommits(i) \/ ApplyBlocks(i)
  BY <1>0, <1>3 DEF ApplyConflicts, ApplyCommits, ApplyBlocks, Applying, JobRow
<1>4. CASE \E p \in Callers : \/ ChooseCheckpoint(p) \/ RestoreHome(p) \/ RestoreHomeFails(p)
                               \/ MarkRestored(p)
  BY <1>4 DEF ChooseCheckpoint, RestoreHome, RestoreHomeFails, MarkRestored, AdoptionEnds,
              JobEnds, NoJob
<1>5. CASE \/ SweepAdopts \/ \E site \in Sites : SweepOrigin(site)
           \/ \E s \in Suitcases : SelectReplica(s) \/ Exchange(s)
           \/ \E i \in DOMAIN changesets, k \in Keys, choice \in Resolutions \ {"none"} :
                ResolveConflict(i, k, choice)
           \/ UNCHANGED coordinatorVars
  BY <1>5, ZenonT(40) DEF SweepAdopts, SweepOrigin, SelectReplica, Exchange, ResolveConflict,
              coordinatorVars
<1> QED BY <1>1, <1>2, <1>3, <1>4, <1>5, CoordinatorMoves

LEMMA MergedIsInStep ==
  ASSUME TypesInv, BranchesGrounded, OneLine, MergedIsIn, [DataNext]_dataVars
  PROVE  MergedIsIn'
<1> SUFFICES ASSUME job'.at = "commit", NEW i \in DOMAIN changesets', IsNext(i)',
                    NEW w, Within(w, changesets'[i].data)
             PROVE  Within(w, checkpoints'[Latest'].data) \/ w \in dropped'
  BY DEF MergedIsIn
<1>0. /\ Latest \in Nat /\ job \in JobRow
      /\ job.at # "idle" => Latest # 0
      /\ \A n \in job.todo : n \in DOMAIN changesets
      /\ \A n \in DOMAIN changesets : changesets'[n].data = changesets[n].data
  BY TablesStep, Bounds DEF TypesInv, CoordinatorInv, Grown
<1>1. CASE job' = job
  <2>1. IsNext(i) /\ i \in DOMAIN changesets /\ job.at = "commit"
    BY <1>0, <1>1 DEF IsNext
  <2>2. UNCHANGED checkpoints
    <3>1. ASSUME NEW n \in DOMAIN changesets PROVE ~ ApplyMerges(n)
      BY <2>1 DEF ApplyMerges, Applying
    <3>2. checkpoints # <<>>
      BY <1>0, <2>1 DEF Latest
    <3> QED BY <3>1, <3>2, CheckpointMoves
  <2>3. Within(w, checkpoints[Latest].data) \/ w \in dropped
    BY <1>0, <2>1 DEF MergedIsIn
  <2> QED BY <2>2, <2>3, DroppedGrows DEF Latest
<1>2. ASSUME NEW n \in DOMAIN changesets, ApplyMerges(n)
      PROVE  Within(w, checkpoints'[Latest'].data) \/ w \in dropped'
  <2>1. IsNext(n) /\ job'.todo = job.todo
    BY <1>0, <1>2 DEF ApplyMerges, Applying, JobRow
  <2>2. i = n
    <3>1. i <= n /\ n <= i
      BY <2>1 DEF IsNext
    <3>2. i \in Nat /\ n \in Nat
      BY <1>0, <2>1 DEF IsNext, JobRow
    <3> QED BY <3>1, <3>2
  <2>3. PICK l : l = Latest
    OBVIOUS
  <2>4. /\ Latest' = l + 1
        /\ Within(w, changesets[n].data) => Within(w, checkpoints'[l + 1].data) \/ w \in dropped'
    BY <1>2, <2>3, MergeInLine
  <2>5. Within(w, changesets[n].data)
    BY <1>0, <2>2
  <2> QED BY <2>4, <2>5
<1> QED BY <1>1, <1>2, CommitMoves

(* A changeset is applied once for all, by its commit. *)
LEMMA AppliedMoves ==
  ASSUME TypesInv, [DataNext]_dataVars, NEW i \in DOMAIN changesets
  PROVE  /\ changesets'[i].status = "applied" => changesets[i].status = "applied" \/ ApplyCommits(i)
         /\ changesets[i].status = "applied" => changesets'[i].status = "applied"
<1>0. /\ \A n \in DOMAIN changesets : changesets[n] \in ChangesetRow
      /\ changesets \in Seq(ChangesetRow) /\ DOMAIN changesets = 1..Len(changesets)
      /\ Len(changesets) \in Nat
      /\ \A n \in job.todo : changesets[n].status = "pending"
      /\ \A n \in DOMAIN changesets :
           changesets[n].open # {} => changesets[n].status = "conflicted"
  BY DEF TypesInv, TablesInv, CoordinatorInv
<1>1. CASE UNCHANGED homeVars \/ \E s \in Suitcases : SelectReplica(s) \/ ProjectSelection(s)
  BY <1>1 DEF homeVars, SelectReplica, ProjectSelection
<1>2. ASSUME changesets' = changesets \/ \E c : changesets' = Append(changesets, c)
      PROVE  changesets'[i] = changesets[i]
  BY <1>0, <1>2
<1>3. CASE CaptureHome \/ \E s \in Suitcases : Exchange(s)
  BY <1>2, <1>3 DEF CaptureHome, Exchange
<1>4. ASSUME NEW n \in DOMAIN changesets, n # i,
             \/ ApplyConflicts(n) \/ ApplyMerges(n) \/ ApplyCommits(n) \/ ApplyBlocks(n)
             \/ \E k \in Keys, choice \in Resolutions \ {"none"} : ResolveConflict(n, k, choice)
      PROVE  changesets'[i] = changesets[i]
  BY <1>0, <1>4 DEF ApplyConflicts, ApplyMerges, ApplyCommits, ApplyBlocks, ResolveConflict
<1>5. CASE ApplyMerges(i)
  BY <1>5 DEF ApplyMerges
<1>6. CASE ApplyCommits(i)
  BY <1>0, <1>6 DEF ApplyCommits, IsNext
<1>7. CASE ApplyConflicts(i) \/ ApplyBlocks(i)
  <2>1. changesets[i].status = "pending"
    BY <1>0, <1>7 DEF ApplyConflicts, ApplyBlocks, Applying, IsNext
  <2>2. changesets'[i].status \in {"conflicted", "blocked"}
    BY <1>0, <1>7 DEF ApplyConflicts, ApplyBlocks, ChangesetRow
  <2> QED BY <2>1, <2>2
<1>8. ASSUME NEW k \in Keys, NEW choice \in Resolutions \ {"none"}, ResolveConflict(i, k, choice)
      PROVE  changesets[i].status = "conflicted" /\ changesets'[i].status \in {"conflicted", "pending"}
  BY <1>0, <1>8 DEF ResolveConflict, ChangesetRow
<1> QED BY <1>1, <1>3, <1>4, <1>5, <1>6, <1>7, <1>8, TableMoves

(* What is in Home's hands stays there, or somebody decides against it. *)
LEMMA SavedStays ==
  ASSUME TypesInv, BranchesGrounded, OneLine, MergedIsIn, [DataNext]_dataVars, NEW w, Saved(w)
  PROVE  Saved(w)'
<1>0. /\ Latest \in Nat /\ Latest' \in Nat /\ Latest <= Latest'
      /\ \A n \in 1..Latest : checkpoints'[n] = checkpoints[n]
      /\ DOMAIN changesets \subseteq DOMAIN changesets'
      /\ \A n \in DOMAIN changesets : changesets'[n].data = changesets[n].data
  <2>1. changesets \in Seq(ChangesetRow) /\ changesets' \in Seq(ChangesetRow)
        /\ checkpoints \in Seq(CheckpointRow) /\ checkpoints' \in Seq(CheckpointRow)
    BY TablesStep DEF TypesInv, TablesInv
  <2> QED BY <2>1, TablesStep, Bounds DEF Grown, Latest
<1>1. CASE w \in dropped
  BY <1>1, DroppedGrows DEF Saved
<1>2. ASSUME Latest # 0, Within(w, checkpoints[Latest].data)
      PROVE  Saved(w)'
  <2>1. PICK l, m : l = Latest /\ m = Latest'
    OBVIOUS
  <2>2. l \in DOMAIN checkpoints' /\ m \in DOMAIN checkpoints' /\ l <= m /\ m # 0
    <3>1. DOMAIN checkpoints' = 1..m
      BY <2>1, TablesStep DEF TablesInv, Latest
    <3> QED BY <1>0, <1>2, <2>1, <3>1
  <2>3. \A x : Within(x, checkpoints'[l].data) => Within(x, checkpoints'[m].data) \/ x \in dropped'
    BY <2>2, OneLineStep DEF OneLine
  <2>4. Within(w, checkpoints'[l].data)
    BY <1>0, <1>2, <2>1
  <2> QED BY <2>1, <2>2, <2>3, <2>4 DEF Saved
<1>3. ASSUME NEW i \in DOMAIN changesets, changesets[i].status # "applied",
             Within(w, changesets[i].data)
      PROVE  Saved(w)'
  <2>1. CASE changesets'[i].status # "applied"
    BY <1>0, <1>3, <2>1 DEF Saved
  <2>2. CASE ApplyCommits(i)
    <3>1. job.at = "commit" /\ IsNext(i)
      BY <2>2 DEF ApplyCommits
    <3>2. Within(w, checkpoints[Latest].data) \/ w \in dropped
      BY <1>3, <3>1 DEF MergedIsIn
    <3>3. Latest # 0
      BY <3>1 DEF TypesInv, CoordinatorInv
    <3> QED BY <1>1, <1>2, <3>2, <3>3
  <2> QED BY <1>3, <2>1, <2>2, AppliedMoves
<1> QED BY <1>1, <1>2, <1>3 DEF Saved

(* Home awaits an adoption from its capture on. *)
LEMMA AwaitingMoves ==
  ASSUME TypesInv, [DataNext]_dataVars, AwaitingAdoption'
  PROVE  AwaitingAdoption \/ CaptureHome
<1>0. job \in JobRow /\ Home \notin Suitcases
      /\ changesets \in Seq(ChangesetRow) /\ changesets' \in Seq(ChangesetRow)
      /\ \A n \in DOMAIN changesets : changesets'[n].site = changesets[n].site
  BY TablesStep, HomeAssumption DEF TypesInv, TablesInv, CoordinatorInv, Grown
<1>1. ASSUME HasUnfinished(Home)' PROVE HasUnfinished(Home) \/ CaptureHome
  <2>1. PICK i \in DOMAIN changesets' :
          changesets'[i].site = Home /\ changesets'[i].status \in Unfinished
    BY <1>1 DEF HasUnfinished
  <2>2. CASE i \in DOMAIN changesets
    <3>1. changesets[i].status # "applied"
      BY <2>1, <2>2, AppliedMoves DEF Unfinished
    <3>2. changesets[i].status \in Unfinished
      <4>1. changesets[i] \in ChangesetRow
        BY <1>0, <2>2
      <4> QED BY <3>1, <4>1 DEF ChangesetRow, Statuses
    <3> QED BY <1>0, <2>1, <2>2, <3>2 DEF HasUnfinished
  <2>3. CASE i \notin DOMAIN changesets
    BY <1>0, <2>1, <2>3, NewChangeset DEF Changeset
  <2> QED BY <2>2, <2>3
<1>2. ASSUME job'.at \in {"apply", "commit", "adopt"}
      PROVE  AwaitingAdoption \/ CaptureHome
  <2>1. CASE StartJob
    <3>1. PICK request : request = Head(queue)
      OBVIOUS
    <3>2. PendingOf(request.origin) # {} /\ request.origin = Home
      BY <1>2, <2>1, <3>1 DEF StartJob, JobEnds, NoJob
    <3> QED BY <3>2 DEF PendingOf, AwaitingAdoption, HasUnfinished, Unfinished
  <2>2. CASE CaptureHomeFails \/ ApplyThrows \/ RestartHome
    BY <1>2, <2>2 DEF CaptureHomeFails, ApplyThrows, RestartHome, JobEnds, NoJob
  <2>3. CASE ApplyDone
    BY <2>3 DEF ApplyDone, AwaitingAdoption
  <2>4. CASE \E i \in DOMAIN changesets :
               ApplyConflicts(i) \/ ApplyMerges(i) \/ ApplyCommits(i) \/ ApplyBlocks(i)
    BY <2>4 DEF ApplyConflicts, ApplyMerges, ApplyCommits, ApplyBlocks, Applying,
                AwaitingAdoption
  <2>5. CASE \E p \in Callers : \/ ChooseCheckpoint(p) \/ RestoreHome(p) \/ RestoreHomeFails(p)
                                 \/ MarkRestored(p)
    BY <1>2, <2>5 DEF ChooseCheckpoint, RestoreHome, RestoreHomeFails, MarkRestored, AdoptionEnds,
                      JobEnds, NoJob, AwaitingAdoption
  <2>6. CASE \/ SweepAdopts \/ \E site \in Sites : SweepOrigin(site)
             \/ \E s \in Suitcases : SelectReplica(s) \/ Exchange(s)
             \/ \E i \in DOMAIN changesets, k \in Keys, choice \in Resolutions \ {"none"} :
                  ResolveConflict(i, k, choice)
             \/ UNCHANGED coordinatorVars
    BY <1>2, <2>6, ZenonT(40) DEF SweepAdopts, SweepOrigin, SelectReplica, Exchange, ResolveConflict,
                      coordinatorVars, AwaitingAdoption
  <2> QED BY <2>1, <2>2, <2>3, <2>4, <2>5, <2>6, CoordinatorMoves
<1> QED BY <1>1, <1>2 DEF AwaitingAdoption

(* A restore that nothing disturbs is the one a reconciliation ends with,  *)
(* of the latest checkpoint and over a volume whose writes are saved.      *)
LEMMA RestoresLatest ==
  ASSUME TypesInv, NEW p \in Callers, RestoreHome(p), ~ disturbed'
  PROVE  /\ AwaitingAdoption /\ Latest # 0 /\ UNCHANGED checkpoints
         /\ volume'[Home] = checkpoints[Latest].data
<1>1. p = "job"
  BY DEF RestoreHome, Callers
<1>2. volume \in [Sites -> Data] /\ Home \in Sites
  BY DEF TypesInv, SitesInv, VolumesInv, Sites
<1> QED BY <1>1, <1>2
        DEF RestoreHome, Restores, homeVars, TypesInv, CoordinatorInv, AwaitingAdoption, Callers

LEMMA HomeIsSavedStep ==
  ASSUME TypesInv, BranchesGrounded, OneLine, MergedIsIn, HomeIsSaved, [DataNext]_dataVars,
         ~ disturbed', AwaitingAdoption', NEW w, Within(w, volume'[Home])
  PROVE  Saved(w)'
<1>0. Home \in Sites
  BY DEF Sites
<1>1. ASSUME AwaitingAdoption PROVE Saved(w)'
  <2>1. CASE volume'[Home] = volume[Home]
    BY <1>1, <2>1, SavedStays DEF HomeIsSaved
  <2>2. ASSUME NEW k \in Keys, Write(Home, k) PROVE FALSE
    BY <1>1, <2>2 DEF Write
  <2>3. ASSUME NEW p \in Callers, RestoreHome(p) PROVE Saved(w)'
    <3>1. Latest # 0 /\ UNCHANGED checkpoints /\ volume'[Home] = checkpoints[Latest].data
      BY <2>3, RestoresLatest
    <3> QED BY <3>1 DEF Saved, Latest
  <2> QED BY <1>0, <2>1, <2>2, <2>3, VolumeMoves
<1>2. ASSUME CaptureHome, ~ HasUnfinished(Home) PROVE Saved(w)'
  <2>1. PICK c : c = Changeset(Home, base[Home], volume[Home])
    OBVIOUS
  <2>2. /\ UNCHANGED <<checkpoints, volume, dropped>> /\ Within(w, c.data)
        /\ c.base = base[Home] /\ c.data = volume[Home] /\ c.status = "pending"
    BY <1>2, <2>1 DEF CaptureHome, siteVars, Changeset
  <2>3. CASE changesets' = Append(changesets, c)
    <3>1. changesets \in Seq(ChangesetRow)
      BY DEF TypesInv, TablesInv
    <3>2. PICK n : n = Len(changesets) + 1
      OBVIOUS
    <3>3. n \in DOMAIN changesets' /\ changesets'[n] = c
      BY <2>3, <3>1, <3>2
    <3> QED BY <2>2, <3>3 DEF Saved
  <2>4. CASE c.data = checkpoints[c.base].data
    <3>1. PICK l, b : l = Latest /\ b = base[Home]
      OBVIOUS
    <3>2. l \in DOMAIN checkpoints /\ b \in DOMAIN checkpoints /\ b <= l /\ l # 0
      BY <1>0, <1>2, <3>1 DEF CaptureHome, TypesInv, TablesInv, CoordinatorInv, Latest
    <3>3. Within(w, checkpoints[l].data) \/ w \in dropped
      BY <2>2, <2>4, <3>1, <3>2 DEF OneLine
    <3> QED BY <2>2, <3>1, <3>2, <3>3 DEF Saved, Latest
  <2> QED BY <1>2, <2>1, <2>3, <2>4 DEF CaptureHome
<1> QED BY <1>1, <1>2, AwaitingMoves DEF AwaitingAdoption

LEMMA NoWriteLostStep ==
  ASSUME TypesInv, BranchesGrounded, OneLine, OneBase, MergedIsIn, HomeIsSaved, NoWriteLost,
         [DataNext]_dataVars, ~ disturbed'
  PROVE  NoWriteLost'
<1>0. /\ writes \in Nat /\ volume \in [Sites -> Data] /\ changesets \in Seq(ChangesetRow)
      /\ branch \in [Suitcases -> [base : Nat, data : Data, sent : BOOLEAN]]
      /\ \A s \in Suitcases : s \in Sites /\ s # Home
  BY HomeAssumption
     DEF TypesInv, TablesInv, SitesInv, VolumesInv, WiresInv, CountsInv, Writes, Sites
<1>1. \A w : Saved(w) => Kept(w)'
  BY SavedStays DEF Saved, Kept
<1>2. \A w : ~ Within(w, Empty)
  BY DEF Within, Empty
<1>3. ASSUME NEW w \in 0..writes PROVE Kept(w)'
  <2>1. ASSUME NEW site \in Sites, Within(w, volume[site]) PROVE Kept(w)'
    <3>1. CASE Within(w, volume'[site])
      BY <3>1 DEF Kept
    <3>2. ASSUME site = Home, NEW p \in Callers, RestoreHome(p) PROVE Kept(w)'
      <4>1. AwaitingAdoption
        BY <3>2, RestoresLatest
      <4> QED BY <1>1, <2>1, <3>2, <4>1 DEF HomeIsSaved
    <3>3. ASSUME site # Home, MaterialiseReplica(site) PROVE FALSE
      <4>1. OneBaseAt(site)
        BY <3>3 DEF OneBase, Sites
      <4>2. volume[site] = Empty
        BY <3>3, <4>1 DEF OneBaseAt, MaterialiseReplica
      <4> QED BY <1>2, <2>1, <4>2
    <3>4. ~ MaterialiseCut(site)
      BY DEF MaterialiseCut
    <3> QED BY <2>1, <3>1, <3>2, <3>3, <3>4, VolumeGrows
  <2>2. ASSUME NEW s \in Suitcases, ~ branch[s].sent, Within(w, branch[s].data) PROVE Kept(w)'
    <3>1. branch[s] # NoBranch
      BY <1>2, <2>2 DEF NoBranch
    <3>2. CASE branch'[s] = branch[s]
      BY <2>2, <3>2 DEF Kept
    <3>3. ~ CaptureSuitcaseBranch(s) /\ ~ CaptureUnrestored(s)
      BY <3>1 DEF CaptureSuitcaseBranch, CaptureUnrestored, CaptureBranch
    <3>4. CASE Exchange(s)
      <4>1. PICK c : c = Changeset(s, branch[s].base, branch[s].data)
        OBVIOUS
      <4>2. changesets' = Append(changesets, c) /\ c.data = branch[s].data /\ c.status = "pending"
        BY <2>2, <3>1, <3>4, <4>1 DEF Exchange, Changeset
      <4>3. PICK n : n = Len(changesets) + 1
        OBVIOUS
      <4>4. n \in DOMAIN changesets' /\ changesets'[n] = c
        BY <1>0, <4>2, <4>3
      <4> QED BY <2>2, <4>2, <4>4 DEF Kept
    <3> QED BY <3>2, <3>3, <3>4, BranchMoves
  <2>3. Saved(w) \/ (\E site \in Sites : Within(w, volume[site]))
          \/ \E s \in Suitcases : ~ branch[s].sent /\ Within(w, branch[s].data)
    BY <1>3 DEF NoWriteLost, Kept, Saved
  <2> QED BY <1>1, <2>1, <2>2, <2>3
<1>4. CASE writes' = writes
  BY <1>3, <1>4 DEF NoWriteLost
<1>5. ASSUME NEW site \in Sites, NEW k \in Keys, Write(site, k) PROVE NoWriteLost'
  <2>1. PICK n, d : n = writes' /\ d = volume[site]
    OBVIOUS
  <2>2. n = writes + 1 /\ volume'[site] = [d EXCEPT !.main[k] = @ \cup {n}] /\ d \in Data
    BY <1>0, <1>5, <2>1 DEF Write
  <2>3. n \in volume'[site].main[k]
    BY <2>2 DEF Data
  <2>4. Kept(n)'
    BY <2>3 DEF Kept, Within
  <2>5. \A w \in 0..n : w \in 0..writes \/ w = n
    BY <1>0, <2>2
  <2> QED BY <1>3, <2>1, <2>4, <2>5 DEF NoWriteLost
<1>6. writes' = writes \/ \E site \in Sites, k \in Keys : Write(site, k)
  BY SiteMoves DEF ApplyMerges, ChooseCheckpoint, RestoreHome, MarkRestored, Revise, SelectReplica,
     ProjectSelection, Exchange, CaptureBranch, MaterialiseReplica, MaterialiseCut,
     SupervisorStarts
<1> QED BY <1>4, <1>5, <1>6

LEMMA WritesStep == TypesInv /\ WritesInv /\ [DataNext]_dataVars => WritesInv'
<1> SUFFICES ASSUME TypesInv, WritesInv, [DataNext]_dataVars, ~ disturbed'
             PROVE  (BranchesGrounded /\ OneLine /\ OneBase /\ MergedIsIn /\ HomeIsSaved
                       /\ NoWriteLost)'
  BY DEF WritesInv
<1>1. BranchesGrounded /\ OneLine /\ OneBase /\ MergedIsIn /\ HomeIsSaved /\ NoWriteLost
  BY StaysDisturbed DEF WritesInv
<1>2. BranchesGrounded' /\ OneLine'
  BY <1>1, BranchesGroundedStep, OneLineStep
<1>3. OneBase'
  BY <1>1, OneBaseStep DEF OneBase
<1>4. MergedIsIn'
  BY <1>1, MergedIsInStep
<1>5. HomeIsSaved'
  BY <1>1, HomeIsSavedStep DEF HomeIsSaved
<1>6. NoWriteLost'
  BY <1>1, NoWriteLostStep
<1> QED BY <1>2, <1>3, <1>4, <1>5, <1>6

LEMMA WritesInit == DataInit => WritesInv
<1> SUFFICES ASSUME DataInit PROVE WritesInv
  OBVIOUS
<1>1. BranchesGrounded /\ OneLine
  BY DEF DataInit, BranchesGrounded, OneLine, NoBranch
<1>2. OneBase
  BY HomeAssumption DEF DataInit, OneBase, OneBaseAt, Sites
<1>3. MergedIsIn /\ HomeIsSaved
  BY DEF DataInit, MergedIsIn, HomeIsSaved, AwaitingAdoption, HasUnfinished, NoJob
<1>4. NoWriteLost
  <2>1. PICK k : k \in Keys
    BY KeysAssumption
  <2>2. 0 \in volume[Home].main[k] /\ Home \in Sites
    BY <2>1 DEF DataInit, Sites
  <2>3. Kept(0)
    BY <2>1, <2>2 DEF Kept, Within
  <2>4. \A w \in 0..writes : w = 0
    BY DEF DataInit
  <2> QED BY <2>3, <2>4 DEF NoWriteLost
<1> QED BY <1>1, <1>2, <1>3, <1>4 DEF WritesInv

(* No write is lost as long as the protocol is left alone: it is in the    *)
(* latest checkpoint, in a volume or a branch not merged yet, or somebody  *)
(* decided against it, whatever crashes and fails at Home meanwhile.       *)
THEOREM UndisturbedWritesAreKept == DataSpec => []KeptWhenUndisturbed
<1>1. DataInit => TypesInv /\ WritesInv
  BY TypesInit, WritesInit
<1>2. WritesInv => KeptWhenUndisturbed
  BY DEF WritesInv, KeptWhenUndisturbed
<1> QED BY <1>1, <1>2, TypesStep, WritesStep, PTL DEF DataSpec
=============================================================================
