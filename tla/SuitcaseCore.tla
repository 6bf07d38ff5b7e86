---------------------------- MODULE SuitcaseCore ----------------------------
(***************************************************************************)
(* The core container of a suitcase and its membership file.               *)
(*                                                                         *)
(* A sync worker (lib/suitcase-sync-loop.ts) runs pass after pass, control  *)
(* commands (server/suitcase-control-main.ts) come as processes of their    *)
(* own, and the local server appends events to SQLite.  They meet in the   *)
(* membership file: most of them take its lock file first, the worker's    *)
(* changes of mode do not.  Processes die between any two steps; when the  *)
(* worker dies the container restarts, with its process numbers.           *)
(* The exchange with Home is one step here; FleetSync has its details.     *)
(***************************************************************************)
EXTENDS Naturals, Sequences, FiniteSets

CONSTANTS
  Commands,        \* slots for control commands
  CommandKinds,    \* the actions users ask for
  Pids,            \* process numbers
  PidReuse,        \* may a restarted process get the number of a dead one?
  SaveWindow,      \* may a step fall between truncating and writing the file?
  AwayAfter,       \* awayAfterFailures
  MaxLog,          \* bound: events the local server appends
  MaxCommands,     \* bound: commands started
  MaxCrashes,      \* bound: processes killed
  MaxFlips         \* bound: changes of the reachability of Home

ASSUME CoreAssumption ==
  /\ "worker" \notin Commands /\ IsFiniteSet(Commands)
  /\ CommandKinds \subseteq {"sync", "docked", "away", "candidate"}
  /\ Pids \subseteq Nat \ {0} /\ IsFiniteSet(Pids) /\ Cardinality(Pids) > Cardinality(Commands) + 1
  /\ PidReuse \in BOOLEAN
  /\ SaveWindow \in BOOLEAN
  /\ AwayAfter \in Nat \ {0}
  /\ {MaxLog, MaxCommands, MaxCrashes, MaxFlips} \subseteq Nat

Worker == "worker"
Procs == {Worker} \cup Commands
Modes == {"docked", "away"}

(* Event n of the local log, and the candidate of the nth command.         *)
Event == [seq : Nat \ {0}, source : {"log", "candidate"}, id : Nat \ {0}]
LogEvent(n) == [seq |-> n, source |-> "log", id |-> n]

(* A membership file that has been truncated and not yet rewritten.        *)
Torn == [torn |-> TRUE]
Membership == [next : Nat \ {0}, outbox : SUBSET Event, acked : Nat, mode : Modes]
Paired == [next |-> 1, outbox |-> {}, acked |-> 0, mode |-> "docked"]

NoLock == [by |-> 0, named |-> FALSE]

Down == [pid |-> 0, nth |-> 1, at |-> "down", job |-> "pass", mem |-> Paired, next |-> "top",
         seen |-> "docked", failures |-> 0, ok |-> TRUE]

VARIABLES
  lock,       \* the lock file: who created it, whether its pid is written
  file,       \* the membership file
  log,        \* events of this site in SQLite
  home,       \* events of this site at Home
  reachable,  \* is Home reachable?
  proc,       \* the processes: where each stands and what it has read
  count       \* commands, crashes and flips so far

world == <<log, home, reachable>>
vars == <<lock, file, world, proc, count>>

CoreInit ==
  /\ lock = NoLock
  /\ file = Paired
  /\ log = 0
  /\ home = <<>>
  /\ reachable = TRUE
  /\ \E pid \in Pids :
       proc = [p \in Procs |-> IF p = Worker THEN [Down EXCEPT !.pid = pid, !.at = "top"] ELSE Down]
  /\ count = [commands |-> 0, crashes |-> 0, flips |-> 0]

Alive == {proc[p].pid : p \in Procs} \ {0}
Is(p, at) == proc[p].at = at
Goto(p, at) == proc' = [proc EXCEPT ![p].at = at]

(* saveJson: the file is truncated, then written.                          *)
SaveThen(p, content, next) ==
  proc' = [proc EXCEPT ![p].mem = content, ![p].next = next, ![p].at = "truncate"]

(* Variant: the worker never records that Home is out of reach. *)
AfterFailureOnly(r) ==
  [r EXCEPT !.failures = IF @ > AwayAfter THEN @ ELSE @ + 1, !.job = "mark", !.at = "top"]

(* What becomes of a process that throws: a command prints the error, the  *)
(* worker counts the failure and marks the suitcase away when it is the    *)
(* AwayAfter-th in a row.  Failures beyond that are alike.                 *)
AfterFailure(r) ==
  LET failures == IF r.failures > AwayAfter THEN r.failures ELSE r.failures + 1
  IN [r EXCEPT !.failures = failures, !.job = "mark",
               !.at = IF r.seen # "away" /\ failures = AwayAfter THEN "load" ELSE "top"]

Threw(p) == IF p = Worker THEN AfterFailure(proc[p]) ELSE Down

(* The worker after a pass: a suitcase not docked when the pass began      *)
(* docks now, without the lock.                                            *)
AfterPass(r) ==
  IF r.seen # "docked" THEN [r EXCEPT !.job = "dock", !.at = "load"]
  ELSE [r EXCEPT !.failures = 0, !.at = "top"]

-----------------------------------------------------------------------------
(* THE LOCK (withSuitcaseMembershipLock)                                   *)

(* Variant: a lock that names nobody is stale. *)
OpenUnnamed(p) ==
  /\ Is(p, "open")
  /\ IF lock = NoLock
     THEN lock' = [by |-> proc[p].pid, named |-> FALSE] /\ Goto(p, "name")
     ELSE /\ proc' = [proc EXCEPT ![p] =
               IF ~ lock.named \/ lock.by \notin Alive THEN [@ EXCEPT !.at = "stale"] ELSE Threw(p)]
          /\ UNCHANGED lock
  /\ UNCHANGED <<file, world, count>>

(* openSync with wx.  A lock that names a dead process is stale; one that  *)
(* names nobody yet is taken for busy.                                     *)
Open(p) ==
  /\ Is(p, "open")
  /\ IF lock = NoLock
     THEN lock' = [by |-> proc[p].pid, named |-> FALSE] /\ Goto(p, "name")
     ELSE /\ proc' = [proc EXCEPT ![p] =
               IF lock.named /\ lock.by \notin Alive THEN [@ EXCEPT !.at = "stale"] ELSE Threw(p)]
          /\ UNCHANGED lock
  /\ UNCHANGED <<file, world, count>>

(* unlinkSync of whatever lock is there by now, then once more from the    *)
(* start; it throws when there is none.                                    *)
RemoveStale(p) ==
  /\ Is(p, "stale")
  /\ lock' = NoLock
  /\ IF lock = NoLock THEN proc' = [proc EXCEPT ![p] = Threw(p)] ELSE Goto(p, "open")
  /\ UNCHANGED <<file, world, count>>

(* The pid goes into the file that was opened, also when another process   *)
(* has since replaced it.                                                  *)
NameOwner(p) ==
  /\ Is(p, "name")
  /\ lock' = IF lock.by = proc[p].pid THEN [lock EXCEPT !.named = TRUE] ELSE lock
  /\ Goto(p, IF proc[p].job = "pass" THEN "enqueue" ELSE "load")
  /\ UNCHANGED <<file, world, count>>

(* The finally block removes the lock file, whoever's it is.               *)
Release(p) ==
  /\ Is(p, "release")
  /\ lock' = NoLock
  /\ proc' = [proc EXCEPT ![p] =
       IF ~ @.ok THEN Threw(p) ELSE IF p = Worker THEN AfterPass(@) ELSE Down]
  /\ UNCHANGED <<file, world, count>>

Fail(p) == proc' = [proc EXCEPT ![p].ok = FALSE, ![p].at = "release"]

-----------------------------------------------------------------------------
(* THE MEMBERSHIP FILE                                                     *)

Truncate(p) ==
  /\ SaveWindow
  /\ Is(p, "truncate")
  /\ file' = Torn
  /\ Goto(p, "write")
  /\ UNCHANGED <<lock, world, count>>

Write(p) ==
  /\ Is(p, IF SaveWindow THEN "write" ELSE "truncate")
  /\ file' = proc[p].mem
  /\ proc' = [proc EXCEPT ![p].at = proc[p].next,
                           ![p].failures = IF proc[p].job = "dock" THEN 0 ELSE @]
  /\ UNCHANGED <<lock, world, count>>

(* Variant: the rows below the newest one. *)
NewRowsShort == {LogEvent(n) : n \in (file.acked + 1) .. (log - 1)}

(* Variant: every row, acknowledged or not. *)
NewRowsAll == {LogEvent(n) : n \in 1 .. log}

(* enqueueSuitcaseDatabaseEvent over the rows of the local log: an event    *)
(* at or below the acknowledgement is left out, two events of one number   *)
(* end the pass.                                                           *)
NewRows == {LogEvent(n) : n \in (file.acked + 1) .. log}

Conflicting == \E e \in NewRows, x \in file.outbox : e.seq = x.seq /\ e # x

Enqueued ==
  [file EXCEPT !.outbox = @ \cup NewRows, !.next = IF log + 1 > @ THEN log + 1 ELSE @]

Enqueue(p) ==
  /\ Is(p, "enqueue")
  /\ IF file = Torn \/ Conflicting THEN Fail(p)
     ELSE IF NewRows = {} THEN Goto(p, "load")
     ELSE SaveThen(p, Enqueued, "load")
  /\ UNCHANGED <<lock, file, world, count>>

(* loadJson: the copy a pass or a change of mode works with from here on.  *)
(* queueSuitcaseCommandCandidate adds its event at once.                   *)
Load(p) ==
  /\ Is(p, "load")
  /\ LET r == proc[p]
         candidate == [seq |-> file.next, source |-> "candidate", id |-> r.nth]
     IN IF file = Torn
        THEN IF r.job \in {"dock", "mark"}
             THEN proc' = [proc EXCEPT ![p] = IF r.job = "dock" THEN Threw(p) ELSE Down]
             ELSE Fail(p)
        ELSE CASE r.job = "mark" -> SaveThen(p, [file EXCEPT !.mode = "away"], "top")
               [] r.job = "candidate" ->
                    SaveThen(p, [file EXCEPT !.next = @ + 1, !.outbox = @ \cup {candidate}], "release")
               [] OTHER -> proc' = [proc EXCEPT ![p].mem = file, ![p].at = "request"]
  /\ UNCHANGED <<lock, file, world, count>>

-----------------------------------------------------------------------------
(* HOME                                                                    *)

(* ingestEvents: an event Home has must be the same one, new ones must     *)
(* follow without a gap.                                                   *)
Refused(outbox) ==
  \/ \E e \in outbox : e.seq \in DOMAIN home /\ home[e.seq] # e
  \/ \E e \in outbox : e.seq > Len(home) + 1 /\ ~ \E x \in outbox : x.seq + 1 = e.seq

AcceptedThrough(outbox) ==
  CHOOSE n \in {e.seq : e \in outbox} \cup {Len(home)} :
    \A m \in {e.seq : e \in outbox} \cup {Len(home)} : m =< n

Ingested(outbox) ==
  [n \in 1 .. AcceptedThrough(outbox) |->
     IF n \in DOMAIN home THEN home[n] ELSE CHOOSE e \in outbox : e.seq = n]

(* Variant: the acknowledged events stay in the outbox. *)
AnsweredKeeps(mem, through) == [mem EXCEPT !.acked = IF through > @ THEN through ELSE @]

Answered(mem, through) ==
  [mem EXCEPT !.outbox = {e \in @ : e.seq > through},
              !.acked = IF through > @ THEN through ELSE @]

(* syncSuitcaseNow saves its copy of the file when it fails as well.       *)
Exchange(p) ==
  /\ Is(p, "request")
  /\ proc[p].job = "pass"
  /\ LET mem == proc[p].mem
     IN IF reachable /\ ~ Refused(mem.outbox)
        THEN /\ home' = Ingested(mem.outbox)
             /\ SaveThen(p, Answered(mem, AcceptedThrough(mem.outbox)), "release")
        ELSE /\ proc' = [proc EXCEPT ![p].ok = FALSE, ![p].next = "release", ![p].at = "truncate"]
             /\ UNCHANGED home
  /\ UNCHANGED <<lock, file, log, reachable, count>>

(* setSuitcaseMode asks Home first, then saves the copy it has read.       *)
ReportMode(p) ==
  /\ Is(p, "request")
  /\ proc[p].job \in {"docked", "away", "dock"}
  /\ LET r == proc[p]
         mode == IF r.job = "away" THEN "away" ELSE "docked"
     IN IF reachable
        THEN SaveThen(p, [r.mem EXCEPT !.mode = mode], IF r.job = "dock" THEN "top" ELSE "release")
        ELSE IF r.job = "dock" THEN proc' = [proc EXCEPT ![p] = Threw(p)] ELSE Fail(p)
  /\ UNCHANGED <<lock, file, world, count>>

-----------------------------------------------------------------------------
(* THE PROCESSES                                                           *)

(* The next turn of the loop.  Reading the file is outside its try: an     *)
(* unreadable file ends the worker.                                        *)
Turn ==
  /\ Is(Worker, "top")
  /\ proc' = [proc EXCEPT ![Worker] =
       IF file = Torn THEN Down
       ELSE [@ EXCEPT !.job = "pass", !.seen = file.mode, !.ok = TRUE, !.at = "open"]]
  /\ UNCHANGED <<lock, file, world, count>>

FreshPids == {pid \in Pids \ Alive : PidReuse \/ pid # lock.by}

(* A control command; its bootstrap reads the membership file.             *)
StartCommand(p, kind) ==
  /\ Is(p, "down")
  /\ ~ Is(Worker, "down")
  /\ file # Torn
  /\ count.commands < MaxCommands
  /\ \E pid \in FreshPids :
       proc' = [proc EXCEPT ![p] =
         [Down EXCEPT !.pid = pid, !.nth = count.commands + 1,
                      !.job = IF kind = "sync" THEN "pass" ELSE kind, !.at = "open"]]
  /\ count' = [count EXCEPT !.commands = @ + 1]
  /\ UNCHANGED <<lock, file, world>>

(* The local server appends an event; it reads the membership file, too.   *)
AppendLocal ==
  /\ ~ Is(Worker, "down")
  /\ file # Torn
  /\ log < MaxLog
  /\ log' = log + 1
  /\ UNCHANGED <<lock, file, home, reachable, proc, count>>

Crash(p) ==
  /\ ~ Is(p, "down")
  /\ count.crashes < MaxCrashes
  /\ proc' = [proc EXCEPT ![p] = Down]
  /\ count' = [count EXCEPT !.crashes = @ + 1]
  /\ UNCHANGED <<lock, file, world>>

(* core-entrypoint.sh tears the container down when the worker has ended;  *)
(* restarted, its bootstrap has to read the membership file.               *)
Restart ==
  /\ Is(Worker, "down")
  /\ IF file = Torn THEN proc' = [p \in Procs |-> Down]
     ELSE \E pid \in {n \in Pids : PidReuse \/ n # lock.by} :
            proc' = [p \in Procs |->
                       IF p = Worker THEN [Down EXCEPT !.pid = pid, !.at = "top"] ELSE Down]
  /\ UNCHANGED <<lock, file, world, count>>

Flip ==
  /\ count.flips < MaxFlips
  /\ reachable' = ~ reachable
  /\ count' = [count EXCEPT !.flips = @ + 1]
  /\ UNCHANGED <<lock, file, log, home, proc>>

Step(p) ==
  \/ Open(p) \/ RemoveStale(p) \/ NameOwner(p) \/ Release(p)
  \/ Truncate(p) \/ Write(p) \/ Enqueue(p) \/ Load(p)
  \/ Exchange(p) \/ ReportMode(p)

CoreNext ==
  \/ \E p \in Procs : Step(p) \/ Crash(p)
  \/ \E p \in Commands, kind \in CommandKinds : StartCommand(p, kind)
  \/ Turn \/ AppendLocal \/ Restart \/ Flip

CoreSpec == CoreInit /\ [][CoreNext]_vars

(* Processes run, the worker turns, Docker restarts the container.         *)
FairCoreSpec ==
  /\ CoreSpec
  /\ \A p \in Procs : WF_vars(Step(p))
  /\ WF_vars(Turn)
  /\ WF_vars(Restart)

-----------------------------------------------------------------------------
(* PROPERTIES                                                              *)

Process ==
  [pid : Pids \cup {0}, nth : 1 .. (MaxCommands + 1),
   at : {"down", "top", "open", "stale", "name", "enqueue", "load", "request",
         "truncate", "write", "release"},
   job : {"pass", "docked", "away", "candidate", "dock", "mark"},
   mem : Membership, next : {"top", "load", "release"}, seen : Modes,
   failures : 0 .. (AwayAfter + 1), ok : BOOLEAN]

(* The state stays within its types. *)
CoreTypeOK ==
  /\ lock \in [by : Pids \cup {0}, named : BOOLEAN]
  /\ file \in Membership \cup {Torn}
  /\ log \in 0..MaxLog
  /\ home \in Seq(Event)
  /\ reachable \in BOOLEAN
  /\ proc \in [Procs -> Process]
  /\ count \in [commands : 0..MaxCommands, crashes : 0..MaxCrashes, flips : 0..MaxFlips]

Locked(p) ==
  /\ proc[p].at \in {"name", "enqueue", "load", "request", "truncate", "write", "release"}
  /\ proc[p].job \notin {"dock", "mark"}

(* At most one process is inside withSuitcaseMembershipLock ("membership   *)
(* is busy with another core operation").                                  *)
LockExcludes == \A p, q \in Procs : Locked(p) /\ Locked(q) => p = q

(* The lock keeps the processes apart, and what they share its types.      *)
CoreSound == CoreTypeOK /\ LockExcludes

(* Candidates take their numbers from the file, local events from SQLite:   *)
(* where both are in use, or a change of mode without the lock writes an    *)
(* older copy back, one number is given twice.                             *)
HasCandidate ==
  \E e \in file.outbox \cup {home[i] : i \in DOMAIN home} : e.source = "candidate"

(* What the file says of its own events is never torn apart, also by the   *)
(* writers that overwrite each other: Home has what is acknowledged, and   *)
(* the outbox is the stretch of the local log behind it, unless candidates *)
(* are numbered as well (suitcase-sync-client.ts:696).                     *)
OutboxFollowsAck ==
  file # Torn =>
    /\ file.acked =< Len(home)
    /\ HasCandidate \/ \E m \in 0..log : file.outbox = {LogEvent(n) : n \in (file.acked + 1) .. m}

(* Every event of the local log reaches Home once Home can be reached.     *)
LogReachesHome ==
  \A n \in 1..MaxLog :
    (log >= n /\ []reachable) ~> (\E i \in DOMAIN home : home[i] = LogEvent(n))

(* The suitcase is recorded as away once Home stays out of reach, whatever  *)
(* was tried before: the file says so at every moment it can be read.      *)
AwayWhenUnreachable == <>[](~ reachable) => <>[](file # Torn => file.mode = "away")

(* The same of a worker that no command comes between.                     *)
AwayWhenUndisturbed ==
  [](count.commands = 0) => AwayWhenUnreachable

(* The suitcase is recorded as docked once Home stays reachable.           *)
DockedWhenReachable == <>[]reachable => <>[](file # Torn => file.mode = "docked")

(* The recorded mode follows Home: away or docked in the end, as Home stays *)
(* out of reach or in it (suitcase-sync-loop.ts 88-130).                   *)
ModeFollowsHome == AwayWhenUndisturbed /\ DockedWhenReachable

=============================================================================
