-------------------------- MODULE ServiceOperations --------------------------
(***************************************************************************)
(* Installing, starting, stopping and removing Core as a system service    *)
(* (lifecycle/service/mod.rs, helper.rs, native.rs, linux.rs, macos.rs,    *)
(* windows.rs).                                                            *)
(*                                                                         *)
(* A command holds the service lock.  It never changes the native manager  *)
(* itself: for every native step it writes a journal snapshot, spawns a    *)
(* helper, records its pid, and authorizes it by a second snapshot and a   *)
(* line on its standard input.  A command may die at any point; its helper *)
(* lives on, and the next command has only the journal, the helper lock    *)
(* and the manager to find out what happened.                              *)
(***************************************************************************)
EXTENDS Naturals, Sequences

CONSTANTS
  Commands,   \* runs of `kakune service ...`
  None        \* nobody, nothing

Ops      == {"install", "start", "stop", "uninstall"}
Actions  == {"Install", "Start", "Stop", "Remove"}
Managers == {"systemd", "launchd", "scm"}
Statuses == {"Prepared", "Authorized", "ObservedComplete", "OutcomeUnknown",
             "Reconciled"}

ASSUME CommandsAssumption == None \notin Commands

VARIABLES
  manager,     \* the native manager of this host
  native,      \* its registration of the service, and the Core it runs
  op,          \* what each command was asked for
  lock,        \* holder of the service lock
  helperLock,  \* command whose helper holds the helper lock
  attempt,     \* the journal file: its last snapshot, and a torn tail
  cmd,         \* where a command is
  helper,      \* where the helper of a command is
  task,        \* native step and definition the helper was prepared for
  told,        \* last line on the standard input of that helper
  doomed       \* helpers their command has killed

helpers == <<helperLock, helper, task, told, doomed>>
vars == <<manager, native, op, lock, attempt, cmd, helpers>>

(***************************************************************************)
(* The native manager, as far as commands can see it.  unit is the         *)
(* registered definition: the one install asks for, or another.  stale: a  *)
(* manager that still reports a unit whose file is gone.                   *)
(***************************************************************************)
States == {"Stopped", "Starting", "Running", "Stopping", "Failed"}
Natives == [unit : {"none", "ours", "other"}, enabled : BOOLEAN,
            stale : BOOLEAN, state : States, job : {"none", "start", "stop"},
            core : {"stopped", "starting", "ready", "unknown", "foreign"}]

NativeSteps == {"Register", "Description", "FailurePolicy", "Publish", "Reload",
                "Enable", "Start", "Stop", "Disable", "Delete"}

\* NativeMutation::steps.
Steps(action) ==
  CASE action = "Start" -> <<"Start">>
    [] action = "Stop" -> <<"Stop">>
    [] action = "Install" /\ manager = "systemd" -> <<"Publish", "Reload", "Enable">>
    [] action = "Install" /\ manager = "launchd" -> <<"Publish">>
    [] action = "Install" /\ manager = "scm" ->
         <<"Register", "Description", "FailurePolicy">>
    [] action = "Remove" /\ manager = "systemd" -> <<"Disable", "Delete", "Reload">>
    [] action = "Remove" /\ manager # "systemd" -> <<"Delete">>

\* Whether the manager reports accepted work that is not done.
Pending(n) == IF manager = "systemd" THEN n.job # "none"
                                     ELSE n.state \in {"Starting", "Stopping"}

\* The effect of one native step; {} when the manager refuses it.
\* A start or stop is only requested here: the manager carries it out later.
RequestStart(n) ==
  CASE n.state \notin {"Stopped", "Failed"} -> {n}
    [] manager = "systemd" -> {[n EXCEPT !.job = "start"]}
    [] OTHER -> {[n EXCEPT !.state = "Starting"]}
RequestStop(n) ==
  CASE n.state \in {"Stopped", "Failed"} /\ n.job = "none" ->
         {[n EXCEPT !.state = "Stopped"]}
    [] manager = "systemd" -> {[n EXCEPT !.job = "stop"]}
    [] OTHER -> {[n EXCEPT !.state = "Stopping"]}
Publish(n) ==
  IF n.unit # "none" THEN {} ELSE {[n EXCEPT !.unit = "ours"]}
Delete(n, expected) ==
  IF n.unit # expected \/ (manager = "scm" /\ n.state # "Stopped") THEN {}
  ELSE {[n EXCEPT !.unit = "none", !.stale = b] :
          b \in IF manager = "systemd" THEN BOOLEAN ELSE {FALSE}}
SystemdStep(n, step, expected) ==
  CASE step = "Publish" -> Publish(n)
    [] step = "Delete"  -> Delete(n, expected)
    [] step = "Reload"  -> {[n EXCEPT !.stale = FALSE]}
    [] step = "Enable"  -> {[n EXCEPT !.enabled = TRUE]}
    [] step = "Disable" -> {[n EXCEPT !.enabled = FALSE]}
    [] step = "Start"   -> RequestStart(n)
    [] step = "Stop"    -> RequestStop(n)
LaunchdStep(n, step, expected) ==
  CASE step = "Publish" -> Publish(n)
    [] step = "Delete"  -> Delete(n, expected)
    [] step = "Start"   -> RequestStart(n)
    [] step = "Stop"    -> RequestStop(n)
ScmStep(n, step, expected) ==
  CASE step = "Register" -> Publish(n)
    [] n.unit # expected -> {}
    [] step \in {"Description", "FailurePolicy"} -> {n}
    [] step = "Start"  -> RequestStart(n)
    [] step = "Stop"   -> RequestStop(n)
    [] step = "Delete" -> Delete(n, expected)
Effects(n, step, expected) ==
  CASE manager = "systemd" -> SystemdStep(n, step, expected)
    [] manager = "launchd" -> LaunchdStep(n, step, expected)
    [] manager = "scm"     -> ScmStep(n, step, expected)

(***************************************************************************)
(* Observations.  A manager is asked first, files and the Core after that: *)
(* the two halves may be of different moments.                             *)
(***************************************************************************)
Blank == [unit |-> "none", boot |-> FALSE, state |-> "Stopped",
          pending |-> FALSE, stale |-> FALSE, core |-> "stopped"]
SeeManager(n) ==
  [Blank EXCEPT !.state = n.state, !.pending = Pending(n), !.stale = n.stale]
SeeRest(o, n) ==
  IF n.unit = "none"
  THEN [Blank EXCEPT !.stale = o.stale,
                     !.state = IF manager = "launchd" THEN o.state ELSE "Stopped"]
  ELSE [o EXCEPT !.unit = n.unit, !.boot = (manager = "systemd" => n.enabled),
                 !.stale = FALSE, !.core = n.core]
\* A manager that knows a unit without its file, which nobody may act on.
Unknown(o) ==
  /\ o.unit = "none"
  /\ \/ manager = "systemd" /\ o.stale
     \/ manager = "launchd" /\ o.state # "Stopped"
CoreReady(o)   == o.core = "ready"
ServiceMode(o) == o.core # "foreign"
CoreAbsent(o)  == o.core = "stopped"
Expected(d, o) == o.unit = d

\* Mutant of Down: what the manager says is overlooked.
MutDown(o) == CoreAbsent(o)

Down(o) == o.state = "Stopped" /\ CoreAbsent(o)

\* operation_satisfied.
OperationSatisfied(action, d, o) ==
  /\ ~o.pending /\ o.core # "unknown"
  /\ action # "Remove" => Expected(d, o)
  /\ CASE action = "Install" -> Down(o) /\ o.boot
       [] action = "Start"   -> o.state = "Running" /\ CoreReady(o)
       [] action = "Stop"    -> Down(o)
       [] action = "Remove"  -> o.unit = "none" /\ CoreAbsent(o)

\* native_effects_are_settled.
Settled(j, o) ==
  /\ ~o.pending /\ o.state \in {"Stopped", "Failed"} /\ CoreAbsent(o)
  /\ o.unit = "none" \/ Expected(j.expected, o)

(***************************************************************************)
(* The journal.                                                            *)
(***************************************************************************)
Journals == [id : Commands, action : Actions, step : 1..3,
             expected : {"ours", "other"}, pid : BOOLEAN, status : Statuses,
             observed : BOOLEAN]
Tasks == [step : NativeSteps, expected : {"ours", "other"}]

ASSUME JournalsAssumption == {None} \cap (Journals \cup Tasks) = {}

\* native_attempt_outcome_is_known.
OutcomeKnown(j) == \/ j.status = "Authorized" /\ ~j.pid
                   \/ j.status = "OutcomeUnknown" /\ j.observed
IsFinal(j) == j.step = Len(Steps(j.action))

\* valid_attempt_transition.
ValidTransition(a, b) ==
  \/ a = b
  \/ <<a, b>> \in {<<"Prepared", "Authorized">>,
                   <<"Authorized", "ObservedComplete">>,
                   <<"Authorized", "OutcomeUnknown">>,
                   <<"ObservedComplete", "Reconciled">>,
                   <<"ObservedComplete", "OutcomeUnknown">>,
                   <<"OutcomeUnknown", "ObservedComplete">>}
\* valid_next_step.
ValidNextStep(j, k) ==
  /\ j.status = "ObservedComplete" /\ k.status = "Prepared" /\ ~k.pid
  /\ k.step = j.step + 1
\* validate_attempt_snapshot.
ValidSnapshot(j, k) ==
  /\ j.id = k.id /\ j.action = k.action /\ j.expected = k.expected
  /\ \/ ValidNextStep(j, k)
     \/ j.step = k.step /\ ValidTransition(j.status, k.status)

\* write_attempt_file: the snapshot replaces none, or follows the last one,
\* after the tail a crash has torn is cut off.
WriteAttempt(j) ==
  attempt' = [last |-> j, torn |-> FALSE, lost |-> attempt.lost]
Accepted(j) == attempt.last = None \/ ValidSnapshot(attempt.last, j)
RemoveAttempt == attempt' = [attempt EXCEPT !.last = None, !.torn = FALSE]

(***************************************************************************)
(* Commands.  at is the place, aim what an observation or the closing of   *)
(* the journal is for, want the definition it acts on.                     *)
(***************************************************************************)
Places == {"idle", "locked", "look", "look2", "judge", "decide", "mutate",
           "spawn", "own", "owned", "authorize", "send", "await", "reap",
           "close", "close2", "close3",
           "success", "noop", "failed", "refused", "crashed"}
Finished == {"success", "noop", "failed", "refused", "crashed"}
Aims == {"preflight", "between", "confirm", "ready", "stopped", "record"}
Observations == [unit : {"none", "ours", "other"}, boot : BOOLEAN, state : States,
                 pending : BOOLEAN, stale : BOOLEAN,
                 core : {"stopped", "starting", "ready", "unknown", "foreign"}]
CommandStates == [at : Places, aim : Aims, action : Actions, step : 1..3,
                  want : {"ours", "other"}, seen : Observations, failing : BOOLEAN]

First(o) == CASE o = "install" -> "Install" [] o = "start" -> "Start"
              [] o = "stop" -> "Stop" [] o = "uninstall" -> "Remove"
NewCommand(o) == [at |-> "idle", aim |-> "preflight", action |-> First(o),
                  step |-> 1, want |-> "ours", seen |-> Blank, failing |-> FALSE]

\* A host where nobody acts: the service is absent, stopped or runs.
QuietNatives ==
  {n \in Natives :
     /\ ~n.stale /\ n.job = "none"
     /\ n.unit = "none" => n.state = "Stopped" /\ ~n.enabled
     /\ n.unit # "none" => n.enabled
     /\ <<n.state, n.core>> \in {<<"Stopped", "stopped">>, <<"Running", "ready">>,
                                 <<"Failed", "stopped">>, <<"Stopped", "foreign">>}}

Init ==
  /\ manager \in Managers /\ native \in QuietNatives
  /\ op \in [Commands -> Ops]
  /\ lock = None /\ helperLock = None
  /\ attempt = [last |-> None, torn |-> FALSE, lost |-> FALSE]
  /\ cmd = [c \in Commands |-> NewCommand(op[c])]
  /\ helper = [c \in Commands |-> "none"] /\ told = [c \in Commands |-> "nothing"]
  /\ task = [c \in Commands |-> None] /\ doomed = {}

Goto(c, p) == cmd' = [cmd EXCEPT ![c].at = p]
Look(c, aim) == cmd' = [cmd EXCEPT ![c].at = "look", ![c].aim = aim,
                                   ![c].seen = Blank]
End(c, p) == /\ cmd' = [cmd EXCEPT ![c] = [NewCommand(op[c]) EXCEPT !.at = p]]
             /\ lock' = IF lock = c THEN None ELSE lock

\* acquire_service_lease: the service lock, then the helper lock, which is
\* let go at once: a helper of an earlier command has ended.
AcquireLock(c) ==
  /\ cmd[c].at = "idle" /\ lock = None
  /\ lock' = c /\ Goto(c, "locked")
  /\ UNCHANGED <<manager, native, op, attempt, helpers>>

PassHelperLock(c) ==
  /\ cmd[c].at = "locked" /\ helperLock = None
  /\ Look(c, "preflight")
  /\ UNCHANGED <<manager, native, op, lock, attempt, helpers>>

\* A deadline: of a lock, of an observation, of the wait for a state, before a
\* step or before its helper.  The journal stays as it is.
Expire(c) ==
  /\ cmd[c].at \in {"idle", "locked", "look", "look2", "mutate", "spawn"}
  /\ End(c, "failed")
  /\ UNCHANGED <<manager, native, op, attempt, helpers>>

LookManager(c) ==
  /\ cmd[c].at = "look"
  /\ cmd' = [cmd EXCEPT ![c].at = "look2", ![c].seen = SeeManager(native)]
  /\ UNCHANGED <<manager, native, op, lock, attempt, helpers>>

LookCore(c) ==
  /\ cmd[c].at = "look2"
  /\ LET o == SeeRest(cmd[c].seen, native) IN
     IF Unknown(o)
       THEN End(c, "failed")
       ELSE /\ cmd' = [cmd EXCEPT ![c].at = "judge", ![c].seen = o]
            /\ UNCHANGED lock
  /\ UNCHANGED <<manager, native, op, attempt, helpers>>

\* Why reconcile_pending refuses to go on over the journal of another command.
Unresolved(j, o) ==
  \/ j.status = "OutcomeUnknown" /\ ~(OutcomeKnown(j) /\ Settled(j, o))
  \/ ~IsFinal(j) /\ (j.status # "Prepared" \/ j.step # 1 \/ j.pid)
  \/ j.status # "Reconciled" /\ j.pid
Released(j, o) ==
  \/ OutcomeKnown(j) /\ Settled(j, o)
  \/ OperationSatisfied(j.action, j.expected, o)

\* reconcile_pending.
Reconcile(c) ==
  /\ cmd[c].at = "judge" /\ cmd[c].aim = "preflight"
  /\ LET j == attempt.last
         o == cmd[c].seen
     IN \/ /\ j = None
           /\ Goto(c, "decide") /\ UNCHANGED <<lock, attempt>>
        \/ /\ j # None /\ Unresolved(j, o)
           /\ End(c, "failed") /\ UNCHANGED attempt
        \/ /\ j # None /\ ~Unresolved(j, o)
           /\ IF j.status \in {"Prepared", "Reconciled"}
                THEN RemoveAttempt /\ Goto(c, "decide") /\ UNCHANGED lock
              ELSE IF Released(j, o)
                THEN Goto(c, "close") /\ UNCHANGED <<lock, attempt>>
              ELSE /\ IF j.status = "OutcomeUnknown" THEN UNCHANGED attempt
                      ELSE WriteAttempt([j EXCEPT !.status = "OutcomeUnknown"])
                   /\ End(c, "failed")
  /\ UNCHANGED <<manager, native, op, helpers>>

(***************************************************************************)
(* What a command does about a host whose journal is settled.              *)
(***************************************************************************)
Refuses(o, c) ==
  CASE op[c] = "install" ->
         o.pending \/ (o.unit # "none" /\ ~(Expected("ours", o) /\ o.boot))
    [] op[c] = "start" ->
         \/ o.unit = "none" \/ o.core = "unknown" \/ ~ServiceMode(o)
         \/ o.state = "Running" /\ (o.pending \/ ~CoreReady(o))
         \/ o.pending /\ o.state # "Starting"
         \/ o.state \in {"Failed", "Stopping"}
    [] op[c] \in {"stop", "uninstall"} ->
         o.core = "unknown" \/ o.pending \/ ~ServiceMode(o)
Satisfied(o, c) ==
  CASE op[c] = "install"   -> o.unit # "none"
    [] op[c] = "start"     -> o.state = "Running"
    [] op[c] = "stop"      -> o.unit = "none" \/ Down(o)
    [] op[c] = "uninstall" -> o.unit = "none"

\* install, start, stop and uninstall between the journal and the mutation.
\* uninstall stops the service first; start joins a start under way.
Decide(c) ==
  LET o == cmd[c].seen
      d == IF op[c] = "install" THEN "ours" ELSE o.unit
      a == IF op[c] = "uninstall" /\ ~Down(o) THEN "Stop" ELSE First(op[c])
  IN
  /\ cmd[c].at = "decide"
  /\ IF Refuses(o, c) THEN End(c, "failed")
     ELSE IF Satisfied(o, c) THEN End(c, "noop")
     ELSE /\ cmd' = [cmd EXCEPT ![c].seen = Blank, ![c].want = d, ![c].action = a,
                 ![c].at = IF op[c] = "start" /\ o.state = "Starting"
                             THEN "look" ELSE "mutate",
                 ![c].aim = IF op[c] = "start" /\ o.state = "Starting"
                             THEN "ready" ELSE "preflight"]
          /\ UNCHANGED lock
  /\ UNCHANGED <<manager, native, op, attempt, helpers>>

(***************************************************************************)
(* run_mutations and run_one.  A write the journal does not accept ends    *)
(* the command.                                                            *)
(***************************************************************************)
Record(c, j, p) ==
  IF Accepted(j)
    THEN WriteAttempt(j) /\ Goto(c, p) /\ UNCHANGED lock
    ELSE End(c, "refused") /\ UNCHANGED attempt

WritePrepared(c) ==
  /\ cmd[c].at = "mutate"
  /\ Record(c, [id |-> c, action |-> cmd[c].action, step |-> cmd[c].step,
                expected |-> cmd[c].want, pid |-> FALSE, status |-> "Prepared",
                observed |-> FALSE], "spawn")
  /\ UNCHANGED <<manager, native, op, helpers>>

SpawnHelper(c) ==
  /\ cmd[c].at = "spawn"
  /\ helper' = [helper EXCEPT ![c] = "born"] /\ told' = [told EXCEPT ![c] = "nothing"]
  /\ doomed' = doomed \ {c}
  /\ Goto(c, "own")
  /\ UNCHANGED <<manager, native, op, lock, attempt, helperLock, task>>

\* The pid is in the journal before the helper hears of the attempt.
OwnHelper(c) ==
  /\ cmd[c].at = "own"
  /\ Record(c, [attempt.last EXCEPT !.pid = TRUE], "owned")
  /\ told' = [told EXCEPT ![c] = "prepare"]
  /\ UNCHANGED <<manager, native, op, helperLock, helper, task, doomed>>

\* expect_frame: the helper is ready.
HearReady(c) ==
  /\ cmd[c].at = "owned" /\ helper[c] = "ready"
  /\ Goto(c, "authorize")
  /\ UNCHANGED <<manager, native, op, lock, attempt, helpers>>

Authorize(c) ==
  /\ cmd[c].at = "authorize"
  /\ Record(c, [attempt.last EXCEPT !.status = "Authorized"], "send")
  /\ UNCHANGED <<manager, native, op, helpers>>

SendAuthorize(c) ==
  /\ cmd[c].at = "send"
  /\ told' = [told EXCEPT ![c] = "authorize"] /\ Goto(c, "await")
  /\ UNCHANGED <<manager, native, op, lock, attempt, helperLock, helper, task, doomed>>

HearDone(c) ==
  /\ cmd[c].at = "await" /\ helper[c] = "ok"
  /\ Goto(c, "reap")
  /\ UNCHANGED <<manager, native, op, lock, attempt, helpers>>

\* A lost helper, another answer, or the deadline: the helper is killed.
Abort(c) ==
  /\ cmd[c].at \in {"own", "owned", "authorize", "send", "await"}
  /\ cmd' = [cmd EXCEPT ![c].at = "reap", ![c].failing = TRUE]
  /\ doomed' = doomed \cup {c}
  /\ UNCHANGED <<manager, native, op, lock, attempt, helperLock, helper, task, told>>

\* What the journal says of a step whose helper is gone, or may not be.
AfterHelper(j, reaped, failing) ==
  [j EXCEPT !.pid = j.pid /\ ~reaped,
            !.status = IF failing /\ j.status = "Authorized"
                         THEN "OutcomeUnknown" ELSE j.status]

AfterStep(c) ==
  CASE cmd[c].step < Len(Steps(cmd[c].action)) -> "between"
    [] cmd[c].action \in {"Install", "Remove"} -> "confirm"
    [] cmd[c].action = "Start" -> "ready"
    [] cmd[c].action = "Stop" -> "stopped"

ReapHelper(c) ==
  /\ cmd[c].at = "reap" /\ helper[c] \in {"ok", "bad"}
  /\ LET j == AfterHelper(attempt.last, TRUE, cmd[c].failing) IN
     IF ~Accepted(j) THEN End(c, "refused") /\ UNCHANGED attempt
     ELSE /\ WriteAttempt(j)
          /\ IF cmd[c].failing THEN End(c, "failed")
             ELSE Look(c, AfterStep(c)) /\ UNCHANGED lock
  /\ UNCHANGED <<manager, native, op, helpers>>

\* Mutant of RetainHelper: the pid is dropped although the helper lives.
MutRetainForgets(c) ==
  /\ cmd[c].at = "reap" /\ helper[c] \notin {"ok", "bad"}
  /\ WriteAttempt(AfterHelper(attempt.last, TRUE, FALSE))
  /\ End(c, "failed")
  /\ UNCHANGED <<manager, native, op, helpers>>

\* The deadline passes before the end of the helper and its output is seen.
RetainHelper(c) ==
  /\ cmd[c].at = "reap"
  /\ LET j == AfterHelper(attempt.last, FALSE, TRUE) IN
     IF Accepted(j) THEN WriteAttempt(j) /\ End(c, "failed")
     ELSE End(c, "refused") /\ UNCHANGED attempt
  /\ UNCHANGED <<manager, native, op, helpers>>

StepObserved(c) ==
  /\ cmd[c].at = "judge" /\ cmd[c].aim = "between"
  /\ LET j == [attempt.last EXCEPT !.status = "ObservedComplete", !.observed = TRUE]
     IN IF Accepted(j)
          THEN /\ WriteAttempt(j) /\ UNCHANGED lock
               /\ cmd' = [cmd EXCEPT ![c].at = "mutate", ![c].seen = Blank,
                                     ![c].step = cmd[c].step + 1]
          ELSE End(c, "refused") /\ UNCHANGED attempt
  /\ UNCHANGED <<manager, native, op, helpers>>

(***************************************************************************)
(* Whether the manager did what was asked.                                 *)
(***************************************************************************)
CloseAttempt(c) == Goto(c, "close") /\ UNCHANGED <<lock, attempt>>
Again(c)        == Look(c, cmd[c].aim) /\ UNCHANGED <<lock, attempt>>
GiveUp(c)       == End(c, "failed") /\ UNCHANGED attempt

\* record_failed_attempt and mark_attempt_unknown.
RecordFailed(c, o) ==
  LET j == attempt.last
      k == [j EXCEPT !.status = "OutcomeUnknown", !.observed = TRUE]
  IN IF j = None THEN GiveUp(c)
     ELSE IF Settled(j, o) /\ OutcomeKnown(j)
       THEN /\ cmd' = [cmd EXCEPT ![c].at = "close", ![c].failing = TRUE]
            /\ UNCHANGED <<lock, attempt>>
     ELSE IF Accepted(k) THEN WriteAttempt(k) /\ End(c, "failed")
     ELSE End(c, "refused") /\ UNCHANGED attempt

\* mutate_and_confirm.
Confirm(c) ==
  /\ cmd[c].at = "judge" /\ cmd[c].aim = "confirm"
  /\ LET o == cmd[c].seen IN
     IF o.pending THEN Again(c)
     ELSE IF OperationSatisfied(cmd[c].action, cmd[c].want, o) THEN CloseAttempt(c)
     ELSE RecordFailed(c, o)
  /\ UNCHANGED <<manager, native, op, helpers>>

\* wait_for_ready.
WaitForReady(c) ==
  /\ cmd[c].at = "judge" /\ cmd[c].aim = "ready"
  /\ LET o == cmd[c].seen IN
     IF ~Expected(cmd[c].want, o) \/ o.core = "unknown" THEN GiveUp(c)
     ELSE IF o.state = "Failed" THEN RecordFailed(c, o)
     ELSE IF o.state = "Running" /\ CoreReady(o) /\ ~o.pending THEN CloseAttempt(c)
     ELSE Again(c)
  /\ UNCHANGED <<manager, native, op, helpers>>

\* wait_for_stopped.
WaitForStopped(c) ==
  /\ cmd[c].at = "judge" /\ cmd[c].aim = "stopped"
  /\ LET o == cmd[c].seen IN
     IF ~Expected(cmd[c].want, o) \/ ~ServiceMode(o) THEN GiveUp(c)
     ELSE IF Down(o) /\ ~o.pending THEN CloseAttempt(c)
     ELSE Again(c)
  /\ UNCHANGED <<manager, native, op, helpers>>

(***************************************************************************)
(* complete_attempt: two snapshots, then the file is removed.              *)
(***************************************************************************)
Closed(c) ==
  IF cmd[c].failing THEN End(c, "failed")
  ELSE IF cmd[c].aim = "preflight" THEN Goto(c, "decide") /\ UNCHANGED lock
  ELSE IF op[c] = "uninstall" /\ cmd[c].action = "Stop"
    THEN /\ cmd' = [cmd EXCEPT ![c].at = "mutate", ![c].action = "Remove",
                                ![c].step = 1, ![c].seen = Blank]
         /\ UNCHANGED lock
  ELSE End(c, "success")

WriteComplete(c) ==
  /\ cmd[c].at = "close"
  /\ IF attempt.last = None THEN Closed(c) /\ UNCHANGED attempt
     ELSE Record(c, [attempt.last EXCEPT !.status = "ObservedComplete",
                                         !.observed = TRUE], "close2")
  /\ UNCHANGED <<manager, native, op, helpers>>

WriteReconciled(c) ==
  /\ cmd[c].at = "close2"
  /\ Record(c, [attempt.last EXCEPT !.status = "Reconciled"], "close3")
  /\ UNCHANGED <<manager, native, op, helpers>>

CloseJournal(c) ==
  /\ cmd[c].at = "close3"
  /\ RemoveAttempt /\ Closed(c)
  /\ UNCHANGED <<manager, native, op, helpers>>

\* A command is killed; what it was appending may be torn.
Crash(c) ==
  /\ cmd[c].at \notin Finished \cup {"idle"}
  /\ End(c, "crashed")
  /\ \/ UNCHANGED attempt
     \/ /\ attempt.last # None
        /\ cmd[c].at \in {"own", "authorize", "reap", "close", "close2"}
        /\ attempt' = [attempt EXCEPT !.torn = TRUE]
  /\ UNCHANGED <<manager, native, op, helpers>>

(***************************************************************************)
(* The helper of a command: serve_with and execute_step.                   *)
(***************************************************************************)
HelperPlaces == {"none", "born", "checked", "ready", "look", "act", "ok", "bad"}
Alive(c) == helper[c] \notin {"none", "ok", "bad"}
HelperEnd(c, how) ==
  /\ helper' = [helper EXCEPT ![c] = how]
  /\ helperLock' = IF helperLock = c THEN None ELSE helperLock
Task(j) == [step |-> Steps(j.action)[j.step], expected |-> j.expected]
Own(c, status) ==
  /\ attempt.last # None
  /\ attempt.last.id = c /\ attempt.last.status = status /\ attempt.last.pid

HearPrepare(c) ==
  /\ helper[c] = "born" /\ told[c] # "nothing"
  /\ IF Own(c, "Prepared")
       THEN /\ helper' = [helper EXCEPT ![c] = "checked"]
            /\ task' = [task EXCEPT ![c] = Task(attempt.last)]
            /\ UNCHANGED helperLock
       ELSE HelperEnd(c, "bad") /\ UNCHANGED task
  /\ UNCHANGED <<manager, native, op, lock, attempt, cmd, told, doomed>>

TakeHelperLock(c) ==
  /\ helper[c] = "checked" /\ helperLock = None
  /\ helperLock' = c /\ helper' = [helper EXCEPT ![c] = "ready"]
  /\ UNCHANGED <<manager, native, op, lock, attempt, cmd, task, told, doomed>>

HearAuthorize(c) ==
  /\ helper[c] = "ready" /\ told[c] = "authorize"
  /\ IF Own(c, "Authorized") /\ Task(attempt.last) = task[c]
       THEN helper' = [helper EXCEPT ![c] = "look"] /\ UNCHANGED helperLock
       ELSE HelperEnd(c, "bad")
  /\ UNCHANGED <<manager, native, op, lock, attempt, cmd, task, told, doomed>>

\* Mutant of HearNothing: a prepared helper waits on for its command.
MutHearNothing(c) ==
  /\ helper[c] = "born" /\ told[c] = "nothing"
  /\ HelperEnd(c, "bad")
  /\ UNCHANGED <<manager, native, op, lock, attempt, cmd, task, told, doomed>>

\* The command is gone and its end of the pipe closed, or the time of the
\* helper is up.
HearNothing(c) ==
  /\ \/ helper[c] = "born" /\ told[c] = "nothing"
     \/ helper[c] = "checked"
     \/ helper[c] = "ready" /\ told[c] = "prepare"
  /\ HelperEnd(c, "bad")
  /\ UNCHANGED <<manager, native, op, lock, attempt, cmd, task, told, doomed>>

\* execute_step looks at the manager before it touches it.
StepAllowed(step, d, o) ==
  IF step \in {"Register", "Publish"} THEN o.unit = "none" /\ ~o.pending
  ELSE IF step = "Reload" /\ o.unit = "none" THEN TRUE
  ELSE /\ Expected(d, o) /\ ~o.pending /\ o.core # "unknown" /\ ServiceMode(o)
       /\ step \in {"Disable", "Delete"} => Down(o)

HelperLook(c) ==
  /\ helper[c] = "look"
  /\ LET o == SeeRest(SeeManager(native), native)
         d == task[c].expected
     IN IF Unknown(o) \/ ~StepAllowed(task[c].step, d, o) THEN HelperEnd(c, "bad")
        ELSE IF task[c].step = "Start" /\ o.state = "Running" /\ CoreReady(o)
          THEN HelperEnd(c, "ok")
        ELSE helper' = [helper EXCEPT ![c] = "act"] /\ UNCHANGED helperLock
  /\ UNCHANGED <<manager, native, op, lock, attempt, cmd, task, told, doomed>>

\* The native call: done and reported, done and not reported, or not done.
HelperAct(c) ==
  /\ helper[c] = "act"
  /\ \/ /\ native' \in Effects(native, task[c].step, task[c].expected)
        /\ HelperEnd(c, "ok") \/ HelperEnd(c, "bad")
     \/ UNCHANGED native /\ HelperEnd(c, "bad")
  /\ UNCHANGED <<manager, op, lock, attempt, cmd, task, told, doomed>>

HelperDies(c) ==
  /\ Alive(c) /\ c \in doomed
  /\ HelperEnd(c, "bad")
  /\ UNCHANGED <<manager, native, op, lock, attempt, cmd, task, told, doomed>>

(***************************************************************************)
(* The manager and the Core go about their business.                       *)
(***************************************************************************)
StoppingMoves(n) ==
  CASE n.core \in {"starting", "ready"} -> {[n EXCEPT !.core = "unknown"]}
    [] n.core = "unknown" -> {[n EXCEPT !.core = "stopped"]}
    [] n.core \in {"stopped", "foreign"} ->
         {[n EXCEPT !.state = "Stopped", !.job = "none"]}
StartingMoves(n) ==
  CASE n.core = "stopped" -> {[n EXCEPT !.core = "starting"]}
    [] n.core = "starting" ->
         {[n EXCEPT !.core = "ready"],
          [n EXCEPT !.core = "stopped", !.state = "Failed", !.job = "none"]}
    [] n.core = "ready" -> {[n EXCEPT !.state = "Running", !.job = "none"]}
    [] n.core = "unknown" -> {[n EXCEPT !.core = "stopped"]}
    [] n.core = "foreign" -> {[n EXCEPT !.state = "Failed", !.job = "none"]}
RunningMoves(n) ==
  CASE n.core = "ready" -> {[n EXCEPT !.core = "unknown"]}
    [] n.core # "ready" -> {[n EXCEPT !.core = "stopped", !.state = s] :
                              s \in {"Failed", "Starting"}}
Moves(n) ==
  CASE n.job = "start" /\ n.state \in {"Stopped", "Failed"} ->
         {[n EXCEPT !.state = "Starting"]}
    [] n.job = "stop" /\ n.state \in {"Starting", "Running"} ->
         {[n EXCEPT !.state = "Stopping"]}
    [] n.job = "stop" /\ n.state \in {"Stopped", "Failed"} ->
         {[n EXCEPT !.job = "none", !.state = "Stopped"]}
    [] n.state = "Stopping" -> StoppingMoves(n)
    [] n.state = "Starting" /\ n.job # "stop" -> StartingMoves(n)
    [] n.state = "Running" /\ n.job # "stop" -> RunningMoves(n)
    [] n.state \in {"Stopped", "Failed"} /\ n.job = "none" -> {}

ManagerMoves == /\ native' \in Moves(native)
                /\ UNCHANGED <<manager, op, lock, attempt, cmd, helpers>>

\* A Core somebody starts in a terminal takes the data directory, or leaves.
ForeignCore ==
  /\ native.core \in {"stopped", "foreign"}
  /\ native' = [native EXCEPT !.core = IF @ = "stopped" THEN "foreign" ELSE "stopped"]
  /\ UNCHANGED <<manager, op, lock, attempt, cmd, helpers>>

HelperActs(c) == \/ HearPrepare(c) \/ TakeHelperLock(c) \/ HearAuthorize(c)
                 \/ HearNothing(c) \/ HelperLook(c) \/ HelperAct(c) \/ HelperDies(c)
CommandActs(c) ==
  \/ AcquireLock(c) \/ PassHelperLock(c) \/ Expire(c) \/ LookManager(c)
  \/ LookCore(c) \/ Reconcile(c) \/ Decide(c) \/ WritePrepared(c)
  \/ SpawnHelper(c) \/ OwnHelper(c) \/ HearReady(c) \/ Authorize(c)
  \/ SendAuthorize(c) \/ HearDone(c) \/ Abort(c) \/ ReapHelper(c)
  \/ RetainHelper(c) \/ StepObserved(c) \/ Confirm(c) \/ WaitForReady(c)
  \/ WaitForStopped(c) \/ WriteComplete(c) \/ WriteReconciled(c)
  \/ CloseJournal(c)
Next == \/ \E c \in Commands : CommandActs(c) \/ HelperActs(c) \/ Crash(c)
        \/ ManagerMoves \/ ForeignCore

\* Helpers run on; those that are killed die.
Fairness == \A c \in Commands : WF_vars(HelperActs(c))
Spec == Init /\ [][Next]_vars /\ Fairness

(***************************************************************************)
(* Properties                                                              *)
(***************************************************************************)
\* The variables have their types: commands, helpers and the journal only
\* reach the states mod.rs and helper.rs name.
TypeOK ==
  /\ manager \in Managers /\ native \in Natives /\ op \in [Commands -> Ops]
  /\ lock \in Commands \cup {None} /\ helperLock \in Commands \cup {None}
  /\ attempt \in [last : Journals \cup {None}, torn : BOOLEAN, lost : BOOLEAN]
  /\ cmd \in [Commands -> CommandStates]
  /\ \A c \in Commands : cmd[c].step <= Len(Steps(cmd[c].action))
  /\ helper \in [Commands -> HelperPlaces]
  /\ told \in [Commands -> {"nothing", "prepare", "authorize"}]
  /\ task \in [Commands -> Tasks \cup {None}]
  /\ doomed \subseteq Commands

\* A helper that may still change the native manager has its attempt, its
\* step and its pid in the journal, whatever became of its command: an effect
\* is never unjournaled, and no two helpers act (helper.rs run_one, serve_with).
EffectJournaled ==
  \A c \in Commands : helper[c] \in {"look", "act"} =>
    /\ attempt.last # None
    /\ attempt.last.id = c /\ attempt.last.pid
    /\ attempt.last.status \in {"Authorized", "OutcomeUnknown"}
    /\ Task(attempt.last) = task[c]

\* The journal accepts every snapshot a command writes and can always be read
\* again, after any crash (write_attempt_file, read_attempt_snapshot).
JournalReadable ==
  /\ ~attempt.lost
  /\ \A c \in Commands : cmd[c].at # "refused"

\* A definition is only removed from under a stopped service whose Core is
\* gone (helper.rs execute_step, uninstall).
RemovedStopped ==
  native.unit # "none" /\ native'.unit = "none" =>
    native.state = "Stopped" /\ native.core \in {"stopped", "foreign"}

\* What a command that reports success has brought about still holds when it
\* says so, and its journal is gone (install, start, stop, uninstall).
SuccessMeans ==
  \A c \in Commands : cmd[c].at # "success" /\ cmd'[c].at = "success" =>
    /\ attempt'.last = None
    /\ CASE op[c] = "install" ->
              native'.unit = "ours" /\ (manager = "systemd" => native'.enabled)
         [] op[c] = "start" -> native'.unit # "none"
         [] op[c] = "stop" -> native'.state = "Stopped" /\ native'.job = "none"
         [] op[c] = "uninstall" -> native'.unit = "none"

\* A helper does not keep the helper lock, for which every later command
\* waits, when its command has died (read_frame, HELPER_BUDGET).
HelperLockFreed == []<>(helperLock = None)

\* The journal covers every native effect that may still happen, and stays
\* readable, however commands and helpers die.
JournalSound == TypeOK /\ EffectJournaled /\ JournalReadable

\* Commands report what they did, and remove nothing that runs.
CommandsSound == [][RemovedStopped /\ SuccessMeans]_vars
=============================================================================
