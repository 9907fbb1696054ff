---------------------------- MODULE HostOwnership ----------------------------
(***************************************************************************)
(* Who owns a data directory, and the commands that start and stop the     *)
(* Core that does (lifecycle/ownership.rs, mod.rs, host.rs, control.rs,    *)
(* launch.rs, daemon.rs, process.rs).                                      *)
(*                                                                         *)
(* A Core holds the runtime lease, an exclusive file lock, for as long as  *)
(* its process lives; the ownership record and the capability file tell    *)
(* commands which instance that is and how to talk to it.  Whoever changes *)
(* the record holds the administrative lock.  Commands read record, lease  *)
(* and process one after the other: what they know is old when they act.   *)
(***************************************************************************)
EXTENDS Naturals, Sequences, FiniteSets

CONSTANTS
  Cores,      \* instance ids; an instance is one process
  Mode,       \* [Cores -> {"foreground", "daemon", "service"}]
  Launchers,  \* runs of `daemon start`
  Child,      \* [Launchers -> Cores], the process a launch spawns
  Stoppers,   \* runs of `daemon stop`
  None,       \* no lock holder, no record
  Legacy      \* a record of an old version, which only has a pid

Clients == Launchers \cup Stoppers
Daemons == {c \in Cores : Mode[c] = "daemon"}

ASSUME ModeAssumption == Mode \in [Cores -> {"foreground", "daemon", "service"}]
ASSUME ChildAssumption ==
  /\ Child \in [Launchers -> Daemons]
  /\ \A l, m \in Launchers : Child[l] = Child[m] => l = m
ASSUME NamesAssumption ==
  /\ None \notin Cores \cup Clients /\ Legacy # None
  /\ Cores \cap Clients = {} /\ Launchers \cap Stoppers = {}

VARIABLES
  lease,      \* holder of the runtime lease
  admin,      \* holder of the administrative lock
  record,     \* ownership.json: None, Legacy, or instance, phase, endpoint
  legacyLive, \* some process has the pid of the legacy record
  capability, \* instances with a capability file
  core,       \* where the process of an instance is
  life,       \* LifecyclePhase of an instance
  stopAsked,  \* instances whose control server got an accepted stop
  doomed,     \* processes their launcher has killed
  toParent,   \* a child's standard output
  commit,     \* launchers that wrote COMMIT to their child
  client,     \* where a command is
  seen,       \* the record a command read
  held        \* what a command saw of the lease

files   == <<record, legacyLive, capability>>
process == <<life, stopAsked, doomed>>
command == <<client, seen, held>>
vars == <<lease, admin, files, core, process, toParent, commit, command>>

Phases == {"Starting", "Ready", "Stopping", "Failed"}
Records == {None, Legacy}
             \cup [inst : Cores, phase : Phases, endpoint : BOOLEAN]
IsCurrent(r) == r \notin {None, Legacy}
ASSUME RecordsAssumption ==
  {None, Legacy} \cap [inst : Cores, phase : Phases, endpoint : BOOLEAN] = {}

CoreStates ==
  {"unborn", "acquiring", "publishing", "preparing", "endpoint", "listening", "prepared",
   "marking", "marked", "running", "stopping", "draining", "cleaning", "released",
   "exiting", "exited"}
\* The lease is held and the record names the instance.
Published ==
  {"preparing", "endpoint", "listening", "prepared", "marking", "marked", "running",
   "stopping", "draining", "cleaning"}
Live(c) == core[c] \notin {"unborn", "exited"}
\* serve_control is running: from its spawn to the shutdown message of drain.
Listening(c) ==
  /\ Mode[c] # "foreground"
  /\ core[c] \in {"listening", "prepared", "marking", "marked", "running", "stopping"}

LauncherStates ==
  {"deciding", "awaitClaim", "awaitPrepared", "askPrepared", "awaitReady", "askReady",
   "cleanup", "ok", "dead"}
StopperStates ==
  {"dispatch", "awaiting", "confirming", "finishing", "noopCleanup", "stopped", "noop"}
ObserveStates == {"look", "lookHeld", "lookProcess"}
ClientStates == {"idle", "failed"} \cup LauncherStates \cup StopperStates \cup ObserveStates

(***************************************************************************)
(* The Core process.                                                       *)
(***************************************************************************)
\* Some instances and commands may have ended before.
Init ==
  /\ lease = None /\ admin = None
  /\ record \in {None, Legacy} /\ legacyLive \in BOOLEAN
  /\ record = None => ~legacyLive
  /\ capability = {}
  /\ core \in [Cores -> {"unborn", "exited"}]
  /\ life = [c \in Cores |-> "Starting"]
  /\ stopAsked = {} /\ doomed = {}
  /\ toParent = [l \in Launchers |-> <<>>]
  /\ commit = {}
  /\ client \in [Clients -> {"idle", "failed"}]
  /\ seen = [x \in Clients |-> None]
  /\ held = [x \in Clients |-> FALSE]

Goto(c, from, to) == core[c] = from /\ core' = [core EXCEPT ![c] = to]

\* The launcher of a daemon reads its output until it ends or gives up.
ParentGone(c) ==
  \E l \in Launchers : Child[l] = c /\ client[l] \in {"cleanup", "failed", "dead"}
Report(c, message) ==
  IF Mode[c] = "daemon"
  THEN /\ ~ParentGone(c)
       /\ toParent' = [l \in Launchers |-> IF Child[l] = c THEN Append(toParent[l], message)
                                           ELSE toParent[l]]
  ELSE UNCHANGED toParent

\* A foreground or service process is started by the terminal or the service manager.
StartProcess(c) ==
  /\ Mode[c] # "daemon"
  /\ Goto(c, "unborn", "acquiring")
  /\ UNCHANGED <<lease, admin, files, process, toParent, commit, command>>

\* The end of a process in any way: the system releases what it held.
Ended(c) ==
  /\ core' = [core EXCEPT ![c] = "exited"]
  /\ lease' = IF lease = c THEN None ELSE lease

\* acquire_with_mode: the lease, then the claim callback: CLAIM lets the launcher
\* give up the administrative lock the next step needs.
AcquireLease(c) ==
  /\ lease = None
  /\ Goto(c, "acquiring", "publishing")
  /\ lease' = c
  /\ Report(c, "CLAIM")
  /\ UNCHANGED <<admin, files, process, commit, command>>

\* The lease stays busy for the whole budget, or the claim cannot be reported.
LeaseBusy(c) ==
  /\ core[c] = "acquiring" /\ (lease # None \/ ParentGone(c))
  /\ Ended(c)
  /\ UNCHANGED <<admin, files, process, toParent, commit, command>>

\* RuntimeLease::publish: takes the administrative lock, replaces the record.
Publish(c, phase, endpoint) ==
  /\ admin = None
  /\ record' = [inst |-> c, phase |-> phase, endpoint |-> endpoint]

PublishStarting(c) ==
  /\ Goto(c, "publishing", "preparing")
  /\ Publish(c, "Starting", FALSE)
  /\ UNCHANGED <<lease, admin, legacyLive, capability, process, toParent, commit, command>>

\* The record could not be published: the process ends and leaves the files as
\* they are.
PublishFails(c) ==
  /\ core[c] = "publishing" /\ admin # None
  /\ Ended(c)
  /\ UNCHANGED <<admin, files, process, toParent, commit, command>>

\* prepare_control up to the new capability file.
CreateCapability(c) ==
  /\ Mode[c] # "foreground"
  /\ Goto(c, "preparing", "endpoint")
  /\ capability' = capability \cup {c}
  /\ UNCHANGED <<lease, admin, record, legacyLive, process, toParent, commit, command>>

\* The endpoint is published, the listener bound and its address published; the
\* control server starts.
BindListener(c) ==
  /\ Goto(c, IF Mode[c] = "foreground" THEN "preparing" ELSE "endpoint", "listening")
  /\ Publish(c, "Starting", Mode[c] # "foreground")
  /\ UNCHANGED <<lease, admin, legacyLive, capability, process, toParent, commit, command>>

\* startup_failure: configuration, database, socket or record; the record says
\* Failed if it can be published.  What is left is released as after a drain.
FailStartup(c) ==
  /\ core[c] \in {"preparing", "endpoint"}
  /\ core' = [core EXCEPT ![c] = "draining"]
  /\ life' = [life EXCEPT ![c] = "Failed"]
  /\ \/ admin = None /\ record' = [record EXCEPT !.phase = "Failed"]
     \/ admin # None /\ UNCHANGED record
  /\ UNCHANGED <<lease, admin, legacyLive, capability, stopAsked, doomed, toParent, commit,
                 command>>

\* The transport is up; a daemon tells its launcher and waits for COMMIT.
ReportPrepared(c) ==
  /\ Goto(c, "listening", "prepared")
  /\ Report(c, "PREPARED")
  /\ UNCHANGED <<lease, admin, files, process, commit, command>>

\* COMMIT was read and the scheduler has started: admission opens and the phase
\* becomes Ready, then the record says so.
MarkReady(c) ==
  /\ Goto(c, "prepared", "marking")
  /\ Mode[c] = "daemon" => \E l \in commit : Child[l] = c
  /\ life' = [life EXCEPT ![c] = "Ready"]
  /\ UNCHANGED <<lease, admin, files, stopAsked, doomed, toParent, commit, command>>

PublishReady(c) ==
  /\ Goto(c, "marking", "marked")
  /\ Publish(c, "Ready", Mode[c] # "foreground")
  /\ UNCHANGED <<lease, admin, legacyLive, capability, process, toParent, commit, command>>

ReportReady(c) ==
  /\ Goto(c, "marked", "running")
  /\ Report(c, "READY")
  /\ UNCHANGED <<lease, admin, files, process, commit, command>>

\* The end of serve's select, or of a startup that failed after the transport
\* was up: drain closes admission.  A stop accepted during startup waits for
\* the end of startup.
BeginDrain(c) ==
  /\ \/ core[c] = "running"
     \/ core[c] \in {"listening", "prepared", "marking"}
     \/ core[c] = "marked" /\ ParentGone(c)
  /\ core' = [core EXCEPT ![c] = "stopping"]
  /\ life' = [life EXCEPT ![c] = "Stopping"]
  /\ UNCHANGED <<lease, admin, files, stopAsked, doomed, toParent, commit, command>>

PublishStopping(c) ==
  /\ Goto(c, "stopping", "draining")
  /\ \/ admin = None /\ record' = [record EXCEPT !.phase = "Stopping"]
     \/ admin # None /\ UNCHANGED record
  /\ UNCHANGED <<lease, admin, legacyLive, capability, process, toParent, commit, command>>

\* Admission is drained.  release_after_drain removes the capability first, the
\* record second.
RemoveCapability(c) ==
  /\ Goto(c, "draining", "cleaning")
  /\ capability' = capability \ {c}
  /\ UNCHANGED <<lease, admin, record, legacyLive, process, toParent, commit, command>>

CleanupRecord(c) ==
  /\ Goto(c, "cleaning", "released")
  /\ \/ /\ admin = None
        /\ record' = IF IsCurrent(record) /\ record.inst = c THEN None ELSE record
     \/ admin # None /\ UNCHANGED record
  /\ UNCHANGED <<lease, admin, legacyLive, capability, process, toParent, commit, command>>

\* serve returns: the lease is dropped before the process is gone.
DropLease(c) ==
  /\ Goto(c, "released", "exiting")
  /\ lease' = None
  /\ UNCHANGED <<admin, files, process, toParent, commit, command>>

Exit(c) ==
  /\ core[c] = "exiting"
  /\ Ended(c)
  /\ UNCHANGED <<admin, files, process, toParent, commit, command>>

Crash(c) ==
  /\ Live(c)
  /\ Ended(c)
  /\ UNCHANGED <<admin, files, process, toParent, commit, command>>

\* The kill of a launcher takes effect.
Killed(c) == c \in doomed /\ Crash(c)

(***************************************************************************)
(* Observation (daemon::observe_with): record, lease, process, in turn.    *)
(***************************************************************************)
To(x, from, to) == client[x] = from /\ client' = [client EXCEPT ![x] = to]

LookRecord(x) ==
  /\ To(x, "look", "lookHeld")
  /\ seen' = [seen EXCEPT ![x] = record]
  /\ UNCHANGED <<lease, admin, files, core, process, toParent, commit, held>>

LookHeld(x) ==
  /\ To(x, "lookHeld", "lookProcess")
  /\ held' = [held EXCEPT ![x] = (lease # None)]
  /\ UNCHANGED <<lease, admin, files, core, process, toParent, commit, seen>>

\* A launcher's observations are local to its steps.
Forget(l) == seen' = [seen EXCEPT ![l] = None] /\ held' = [held EXCEPT ![l] = FALSE]

\* The state observe_with reports once it has looked for the recorded process.
Observed(x) ==
  LET r == seen[x] IN
  CASE r = None      -> IF held[x] THEN "Unknown" ELSE "Stopped"
    [] r = Legacy    -> IF held[x] \/ legacyLive THEN "Unknown" ELSE "Stopped"
    [] IsCurrent(r)  -> IF Live(r.inst) = held[x]
                        THEN IF held[x] THEN r.phase ELSE "Stopped"
                        ELSE "Unknown"

(***************************************************************************)
(* daemon start: launch.rs, with the reservation of daemon.rs.             *)
(***************************************************************************)
\* reserve_start takes the administrative lock and looks.  The record cannot
\* change under the lock, the lease and processes can.
Reserve(l) ==
  /\ admin = None
  /\ To(l, "idle", "deciding")
  /\ admin' = l
  /\ seen' = [seen EXCEPT ![l] = record]
  /\ held' = [held EXCEPT ![l] = (lease # None)]
  /\ UNCHANGED <<lease, files, core, process, toParent, commit>>

\* reserve_start refuses a directory that is owned, or may be.
Refused(l) ==
  \/ held[l]
  \/ seen[l] = Legacy /\ legacyLive
  \/ IsCurrent(seen[l]) /\ Live(seen[l].inst)

\* What a dead owner left is removed, its capability with it; the child is spawned
\* and retained, uncommitted, before anything is read from it.
Spawn(l) ==
  /\ To(l, "deciding", "awaitClaim")
  /\ ~Refused(l)
  /\ record' = None
  /\ capability' = IF IsCurrent(seen[l]) THEN capability \ {seen[l].inst} ELSE capability
  /\ Goto(Child[l], "unborn", "acquiring")
  /\ Forget(l)
  /\ UNCHANGED <<lease, admin, legacyLive, process, toParent, commit>>

\* A refusal, or an error or deadline before the child exists.
ReserveFails(l) ==
  /\ To(l, "deciding", "failed") \/ To(l, "idle", "failed")
  /\ admin' = IF admin = l THEN None ELSE admin
  /\ Forget(l)
  /\ UNCHANGED <<lease, files, core, process, toParent, commit>>

ReadLine(l, line, from, to) ==
  /\ To(l, from, to)
  /\ toParent[l] # <<>> /\ Head(toParent[l]) = line
  /\ toParent' = [toParent EXCEPT ![l] = Tail(@)]

ReadClaim(l) ==
  /\ ReadLine(l, "CLAIM", "awaitClaim", "awaitPrepared")
  /\ admin' = None
  /\ UNCHANGED <<lease, files, core, process, commit, seen, held>>

ReadPrepared(l) ==
  /\ ReadLine(l, "PREPARED", "awaitPrepared", "look")
  /\ UNCHANGED <<lease, admin, files, core, process, commit, seen, held>>

ReadReady(l) ==
  /\ ReadLine(l, "READY", "awaitReady", "look")
  /\ UNCHANGED <<lease, admin, files, core, process, commit, seen, held>>

\* verify_child: the observed Core is this child, in the phase expected.
VerifyChild(l) ==
  /\ To(l, "lookProcess", IF l \in commit THEN "askReady" ELSE "askPrepared")
  /\ Observed(l) = IF l \in commit THEN "Ready" ELSE "Starting"
  /\ seen[l].inst = Child[l] /\ seen[l].endpoint
  /\ UNCHANGED <<lease, admin, files, core, process, toParent, commit, seen, held>>

\* Mutant of Connected: whoever listens at the endpoint will do.
MutConnectedAnyone(x, c) == Listening(c) /\ c \in capability

\* request_control against handle_control_connection.  A port may be used again
\* by the next Core; the model always uses the same one.  The client proves it
\* has the capability of the instance it means, the server answers for itself.
Connected(x, c) ==
  /\ Listening(c)
  /\ seen[x].inst = c
  /\ c \in capability

\* The readiness request "prepared" is confirmed: COMMIT is written.
Commit(l, c) ==
  /\ To(l, "askPrepared", "awaitReady")
  /\ Connected(l, c)
  /\ life[c] = "Starting"
  /\ commit' = commit \cup {l}
  /\ Forget(l)
  /\ UNCHANGED <<lease, admin, files, core, process, toParent>>

\* The readiness request "ready" is confirmed: the child is handed off.
HandOff(l, c) ==
  /\ To(l, "askReady", "ok")
  /\ Connected(l, c)
  /\ life[c] = "Ready"
  /\ Forget(l)
  /\ UNCHANGED <<lease, admin, files, core, process, toParent, commit>>

\* Deadline, end of the child's output, a wrong answer or observation.
LaunchFails(l) ==
  /\ client[l] \in {"awaitClaim", "awaitPrepared", "askPrepared", "awaitReady", "askReady"}
                    \cup ObserveStates
  /\ client' = [client EXCEPT ![l] = "cleanup"]
  /\ toParent' = [toParent EXCEPT ![l] = <<>>]
  /\ Forget(l)
  /\ UNCHANGED <<lease, admin, files, core, process, commit>>

\* Mutant of CleanupLaunch: the child is left to itself.
MutCleanupLeavesChild(l) ==
  /\ To(l, "cleanup", "failed")
  /\ admin' = IF admin = l THEN None ELSE admin
  /\ UNCHANGED <<lease, files, core, process, toParent, commit, seen, held>>

\* cleanup_failed_launch: a child that is not gone by itself is killed, which
\* its handle allows while it is uncommitted.  The reservation ends here.
CleanupLaunch(l) ==
  /\ To(l, "cleanup", "failed")
  /\ doomed' = IF Live(Child[l]) THEN doomed \cup {Child[l]} ELSE doomed
  /\ admin' = IF admin = l THEN None ELSE admin
  /\ UNCHANGED <<lease, files, core, life, stopAsked, toParent, commit, seen, held>>

\* The launching command itself is interrupted.
LauncherDies(l) ==
  /\ client[l] \notin {"idle", "ok", "failed", "dead"}
  /\ client' = [client EXCEPT ![l] = "dead"]
  /\ admin' = IF admin = l THEN None ELSE admin
  /\ toParent' = [toParent EXCEPT ![l] = <<>>]
  /\ Forget(l)
  /\ UNCHANGED <<lease, files, core, process, commit>>

(***************************************************************************)
(* daemon stop.                                                            *)
(***************************************************************************)
StartStop(s) ==
  /\ To(s, "idle", "look")
  /\ UNCHANGED <<lease, admin, files, core, process, toParent, commit, seen, held>>

\* Nothing runs: only obsolete files are looked at.
StopNothing(s) ==
  /\ To(s, "lookProcess", "noopCleanup")
  /\ Observed(s) = "Stopped"
  /\ UNCHANGED <<lease, admin, files, core, process, toParent, commit, seen, held>>

\* The observation of a stopped Core names no instance: of the files only the
\* legacy pid is removed.
NoopCleanup(s) ==
  /\ admin = None /\ lease = None
  /\ To(s, "noopCleanup", "noop")
  /\ record' = IF record = Legacy /\ ~legacyLive THEN None ELSE record
  /\ UNCHANGED <<lease, admin, legacyLive, capability, core, process, toParent, commit,
                 seen, held>>

\* Verified: a daemon with an endpoint, whose process is still there.
StopVerified(s) ==
  /\ To(s, "lookProcess", "dispatch")
  /\ Observed(s) \in Phases
  /\ Mode[seen[s].inst] = "daemon" /\ seen[s].endpoint
  /\ UNCHANGED <<lease, admin, files, core, process, toParent, commit, seen, held>>

\* Mutant of AcceptStop: neither instance nor mode is looked at.
MutAcceptAnyStop(s, c) ==
  /\ To(s, "dispatch", "awaiting")
  /\ Listening(c)
  /\ stopAsked' = stopAsked \cup {c}
  /\ UNCHANGED <<lease, admin, files, core, life, doomed, toParent, commit, seen, held>>

\* The answer "accepted" is written before the stop is passed on; the client
\* may give up while it is on its way.
AcceptStop(s, c) ==
  /\ \/ To(s, "dispatch", "awaiting")
     \/ To(s, "dispatch", "failed")
  /\ Connected(s, c)
  /\ Mode[c] = "daemon"
  /\ stopAsked' = stopAsked \cup {c}
  /\ UNCHANGED <<lease, admin, files, core, life, doomed, toParent, commit, seen, held>>

PollLease(s) ==
  /\ To(s, "awaiting", IF lease = None THEN "confirming" ELSE "awaiting")
  /\ UNCHANGED <<lease, admin, files, core, process, toParent, commit, seen, held>>

PollProcess(s) ==
  /\ To(s, "confirming", IF Live(seen[s].inst) THEN "awaiting" ELSE "finishing")
  /\ UNCHANGED <<lease, admin, files, core, process, toParent, commit, seen, held>>

\* Mutant of FinishStop: removes the record that is there.
MutFinishBlindly(s) ==
  /\ To(s, "finishing", "stopped")
  /\ admin = None
  /\ record' = None
  /\ capability' = capability \ {seen[s].inst}
  /\ UNCHANGED <<lease, admin, legacyLive, core, process, toParent, commit, seen, held>>

\* cleanup_obsolete after a confirmed exit.
FinishStop(s) ==
  /\ To(s, "finishing", "stopped")
  /\ admin = None /\ lease = None
  /\ IsCurrent(record) => record.inst = seen[s].inst /\ ~Live(record.inst)
  /\ record' = IF record = Legacy /\ legacyLive THEN record ELSE None
  /\ capability' = IF IsCurrent(record) THEN capability \ {seen[s].inst} ELSE capability
  /\ UNCHANGED <<lease, admin, legacyLive, core, process, toParent, commit, seen, held>>

\* Deadline, refusal, unknown or replaced ownership.
StopFails(s) ==
  /\ client[s] \in {"dispatch", "awaiting", "confirming", "finishing", "noopCleanup"}
                     \cup ObserveStates
  /\ client' = [client EXCEPT ![s] = "failed"]
  /\ UNCHANGED <<lease, admin, files, core, process, toParent, commit, seen, held>>

(***************************************************************************)
(* Specification.                                                          *)
(***************************************************************************)
CoreStep(c) ==
  \/ AcquireLease(c) \/ LeaseBusy(c) \/ PublishStarting(c) \/ PublishFails(c)
  \/ CreateCapability(c) \/ BindListener(c) \/ FailStartup(c)
  \/ ReportPrepared(c) \/ MarkReady(c)
  \/ PublishReady(c) \/ ReportReady(c) \/ PublishStopping(c)
  \/ RemoveCapability(c) \/ CleanupRecord(c) \/ DropLease(c) \/ Exit(c)

\* serve's select ends for a stop, its wait for COMMIT with the parent or the deadline.
Wake(c) ==
  /\ \/ c \in stopAsked /\ core[c] \in {"running", "marking", "listening"}
     \/ ParentGone(c) /\ core[c] \in {"prepared", "marked", "listening"}
  /\ BeginDrain(c)

LaunchStep(l) ==
  \/ Reserve(l) \/ Spawn(l)
  \/ ReadClaim(l) \/ ReadPrepared(l) \/ ReadReady(l)
  \/ LookRecord(l) \/ LookHeld(l) \/ VerifyChild(l)
  \/ \E c \in Cores : Commit(l, c) \/ HandOff(l, c)
  \/ LaunchFails(l) \/ ReserveFails(l) \/ CleanupLaunch(l)

StopStep(s) ==
  \/ LookRecord(s) \/ LookHeld(s) \/ StopNothing(s) \/ NoopCleanup(s)
  \/ StopVerified(s) \/ (\E c \in Cores : AcceptStop(s, c))
  \/ PollLease(s) \/ PollProcess(s) \/ FinishStop(s) \/ StopFails(s)

Next ==
  \/ \E c \in Cores : StartProcess(c) \/ CoreStep(c) \/ BeginDrain(c) \/ Crash(c) \/ Killed(c)
  \/ \E l \in Launchers : LaunchStep(l) \/ LauncherDies(l)
  \/ \E s \in Stoppers : StartStop(s) \/ StopStep(s)

\* A process that runs goes on, the deadlines of a launch pass, killed processes
\* die.  Nothing makes a process start, crash or stop by itself, and nothing makes
\* a launch succeed.
Fairness ==
  /\ \A c \in Cores : WF_vars(Live(c) /\ (CoreStep(c) \/ Wake(c) \/ Killed(c)))
  /\ \A l \in Launchers : WF_vars(LaunchFails(l) \/ CleanupLaunch(l))

Spec == Init /\ [][Next]_vars /\ Fairness

(***************************************************************************)
(* Properties.                                                             *)
(***************************************************************************)
\* The variables keep their types.
TypeOK ==
  /\ lease \in Cores \cup {None} /\ admin \in Launchers \cup {None}
  /\ record \in Records /\ legacyLive \in BOOLEAN /\ capability \subseteq Cores
  /\ core \in [Cores -> CoreStates] /\ life \in [Cores -> Phases]
  /\ stopAsked \subseteq Cores /\ doomed \subseteq Cores
  /\ toParent \in [Launchers -> Seq({"CLAIM", "PREPARED", "READY"})]
  /\ commit \subseteq Launchers
  /\ client \in [Clients -> ClientStates]
  /\ seen \in [Clients -> Records] /\ held \in [Clients -> BOOLEAN]

\* From the publication of its record until it removes it itself, a Core holds
\* the lease and the record names it, whatever reservations, cleanups and other
\* Cores do with what they read before; a Core that runs can be reached through
\* its capability.
OwnerPublished ==
  \A c \in Cores :
    /\ core[c] \in Published => lease = c /\ IsCurrent(record) /\ record.inst = c
    /\ core[c] = "running" /\ Mode[c] # "foreground" =>
         record.phase = "Ready" /\ record.endpoint /\ c \in capability

\* When daemon stop reports a confirmed stop, the instance it talked to is gone
\* and the record does not name it.
StopConfirmed ==
  \A s \in Stoppers : client[s] = "stopped" =>
    /\ core[seen[s].inst] = "exited"
    /\ ~(IsCurrent(record) /\ record.inst = seen[s].inst)

\* A stop reaches the daemon it was meant for and no other Core, also when a
\* new Core listens where the old one did.
StopReachesTarget ==
  \A c \in stopAsked :
    /\ Mode[c] = "daemon"
    /\ \E s \in Stoppers : IsCurrent(seen[s]) /\ seen[s].inst = c

\* When daemon start reports success, its own child is ready and owns the data
\* directory, not some other Core that answered in its place.
LaunchConfirmed ==
  \A l \in Launchers : client[l] # "ok" /\ client'[l] = "ok" =>
    lease = Child[l] /\ life[Child[l]] = "Ready"

\* A child never waits for the administrative lock its launcher holds while the
\* launcher waits for the child: the claim has then been sent.
ClaimFreesLock ==
  \A l \in Launchers :
    core[Child[l]] = "publishing" /\ admin = l =>
      client[l] = "cleanup" \/ toParent[l] = <<"CLAIM">>

\* A legacy pid that may belong to a living process is removed by no command;
\* only a Core that holds the lease writes its own record over it.
LegacyRetained == record = Legacy /\ legacyLive /\ record' # record => IsCurrent(record')

\* A Core that accepted a stop ends, at whatever point of its startup it was.
\* (Processes do not come back, so "again and again" is "from some point on".)
AcceptedStopEnds == []<>(\A c \in stopAsked : core[c] = "exited")

\* No launch leaves a process behind that it did not report: when it fails, or
\* is interrupted before the commit, the child ends.
OrphansEnd ==
  []<>(\A l \in Launchers :
         client[l] = "failed" \/ (client[l] = "dead" /\ l \notin commit)
           => ~Live(Child[l]))

\* The data directory has one owner, the others can find it and nobody waits
\* for it in vain: the record follows the Core that holds the lease, and the
\* handshake of a launch leaves no lock that both sides wait for.
OwnershipSound == TypeOK /\ OwnerPublished /\ ClaimFreesLock

\* daemon stop ends the daemon it was asked to end, and no other Core.
StopSound == StopConfirmed /\ StopReachesTarget

\* daemon start reports its own child only, and neither it nor another command
\* takes a legacy record from a living process.
LaunchSound == [][LaunchConfirmed /\ LegacyRetained]_vars

\* Every process that was told to stop, or that a launch gave up, ends.
ProcessesEnd == AcceptedStopEnds /\ OrphansEnd
=============================================================================
