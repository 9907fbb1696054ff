------------------------------ MODULE Scheduler ------------------------------
(***************************************************************************)
(* The scheduler task of Core (scheduler.rs) and the durable schedules it  *)
(* keeps in the store.                                                     *)
(*                                                                         *)
(* One task scans the enabled workflows once per scan interval, the unit   *)
(* of time here, and runs what is due.  What it knows of a workflow it     *)
(* read at the start of the scan, while clients edit, disable and enable   *)
(* workflows; the row of a schedule is advanced before the runs it pays    *)
(* for are admitted, and Core may stop or die in between.  Changes of      *)
(* files come through watchers and a bounded channel and are gathered      *)
(* until none came for the debounce time.  Every trigger here stands in a  *)
(* workflow of its own.                                                    *)
(***************************************************************************)
EXTENDS Integers, Sequences, FiniteSets, FiniteSetsExt

CONSTANTS
  Triggers,
  Kind,        \* [Triggers -> Kinds]
  Misfire,     \* [Triggers -> {"skip", "runOnce", "catchUp"}]
  MaxCatchUp,  \* limit of catchUp
  Every,       \* period of interval and cron triggers
  Instants,    \* instants the local time of a datetime trigger denotes
  Latest,      \* datetime triggers with dst: latest
  Files,       \* paths below the root of a filesystem trigger
  Matching,    \* those whose change is one of the configured events
  Capacity,    \* of the notification channel
  Debounce,
  MaxTime, MaxRevision, MaxStarts,   \* bounds
  None

Kinds == {"startup", "datetime", "interval", "cron", "filesystem"}
Calendar == {t \in Triggers : Kind[t] \in {"datetime", "interval", "cron"}}
Startup == {t \in Triggers : Kind[t] = "startup"}
Watched == {t \in Triggers : Kind[t] = "filesystem"}
OneShot(t) == Kind[t] = "datetime"

ASSUME TriggersAssumption ==
  /\ Kind \in [Triggers -> Kinds]
  /\ Misfire \in [Triggers -> {"skip", "runOnce", "catchUp"}]
  /\ Latest \subseteq Triggers /\ Matching \subseteq Files
  /\ None \notin Files
ASSUME NumbersAssumption ==
  {MaxCatchUp, Every, Capacity, Debounce, MaxTime, MaxRevision, MaxStarts}
    \subseteq Nat \ {0}
\* A local time denotes no instant, one, or two where the clock goes back.
ASSUME InstantsAssumption ==
  \A t \in Triggers : \/ Instants[t] = {}
                      \/ \E a, b \in 0 .. MaxTime : Instants[t] = {a, b}

VARIABLES
  now,       \* the clock
  workflow,  \* the rows of workflows: status and revision, config of a watch
  row,       \* scheduled_triggers: identity, next_run_at, completed_at
  core,      \* phase of the process
  booted,    \* when it started, and the rows it found due then
  seen,      \* seen_schedules and started
  loop,      \* where the task is
  sources,   \* list_enabled_workflow_sources as of the scan, still to visit
  scanned,   \* the scan of this interval is done
  runs,      \* executions about to be requested
  watchers, pending, channel, overflow,  \* FilesystemScheduler
  changed,   \* paths that have changed
  attempted, \* per trigger: runs admitted since its row was (re)established,
             \* first due of that row, starts in this process, paths handed on
  reports    \* durable scheduler.filesystem_overflow events, and all drops

store == <<workflow, row>>
task  == <<loop, sources, scanned, runs, seen>>
fs    == <<watchers, pending, channel, overflow>>
ghost == <<attempted, reports>>
vars  == <<now, store, core, booted, task, fs, changed, ghost>>

\* The identity of a row: 0 is the one of old versions, the policy alone.
Identities == 0 .. MaxRevision
Rows == [identity : Identities, due : 0 .. MaxTime + Every, completed : BOOLEAN]
Watches == [revision : Identities, config : {0, 1}]

ASSUME NoneAssumption == None \notin Rows \cup Watches

-----------------------------------------------------------------------------
(* When a trigger is due.                                                  *)

\* A local time that the clock passes twice is the first unless dst says
\* otherwise; one that it never shows is an error.
DatetimeDue(t) == IF t \in Latest THEN Max(Instants[t]) ELSE Min(Instants[t])

CronNextDue(after) == ((after \div Every) + 1) * Every

NextDueAfter(t, after) ==
  CASE OneShot(t) -> DatetimeDue(t)
    [] Kind[t] = "interval" -> after + Every
    [] OTHER -> CronNextDue(after)

InitialDue(t, at) ==
  CASE OneShot(t) -> DatetimeDue(t)
    [] Kind[t] = "interval" -> at
    [] OTHER -> CronNextDue(at)

\* The deadline stops being computable when the trigger is wrong: status
\* changes do not validate what they enable.
Invalid(t) == OneShot(t) /\ Instants[t] = {}

-----------------------------------------------------------------------------
(* schedule_trigger                                                        *)

\* Occurrences of t from due to at, in order: the backlog of a catch-up.
Backlog(t, due, at) ==
  {d \in due .. at : d = due \/ (~OneShot(t) /\ (d - due) % Every = 0)}

\* Runs and next deadline of a trigger that is due.  A process applies the
\* misfire policy to a trigger it sees for the first time; what becomes due
\* later runs once, however late the scan.
Due(t, due, at, recovering) ==
  LET backlog == Cardinality(Backlog(t, due, at))
      once == [count |-> 1, due |-> NextDueAfter(t, at), completed |-> OneShot(t)]
  IN CASE ~recovering -> once
       [] recovering /\ Misfire[t] = "skip" -> [once EXCEPT !.count = 0]
       [] recovering /\ Misfire[t] = "runOnce" -> once
       [] recovering /\ Misfire[t] = "catchUp" ->
            IF OneShot(t) THEN [count |-> 1, due |-> due, completed |-> TRUE]
            ELSE IF backlog > MaxCatchUp
            THEN [once EXCEPT !.count = MaxCatchUp]
            ELSE [count |-> backlog, due |-> due + backlog * Every, completed |-> FALSE]

Recovering(t) == t \notin seen

Visit(t) == loop = "scan" /\ runs = None /\ t \in DOMAIN sources.revision
Visited(t) == sources' = [sources EXCEPT !.revision =
                            [u \in DOMAIN @ \ {t} |-> @[u]]]
NewRow(t, at, revision) ==
  [identity |-> revision, due |-> InitialDue(t, at), completed |-> FALSE]
Established(t, at) ==
  attempted' = [attempted EXCEPT ![t].runs = 0, ![t].since = InitialDue(t, at)]

\* A first row, or the row of another revision: nothing runs in this scan.
Establish(t) ==
  /\ Visit(t) /\ t \in Calendar /\ ~Invalid(t)
  /\ row[t] # None => row[t].identity \notin {0, sources.revision[t]}
  /\ row' = [row EXCEPT ![t] = NewRow(t, sources.at, sources.revision[t])]
  /\ Established(t, sources.at) /\ Visited(t) /\ seen' = seen \cup {t}
  /\ UNCHANGED <<now, workflow, core, booted, loop, scanned, runs, fs, changed, reports>>

\* The row of an old version keeps its deadline under its new identity.
Adopt(t) ==
  /\ Visit(t) /\ t \in Calendar /\ ~Invalid(t)
  /\ row[t] # None /\ row[t].identity = 0
  /\ row' = [row EXCEPT ![t].identity = sources.revision[t]]
  /\ UNCHANGED <<now, workflow, core, booted, task, fs, changed, ghost>>

HasRow(t) ==
  /\ Visit(t) /\ t \in Calendar /\ ~Invalid(t)
  /\ row[t] # None /\ row[t].identity = sources.revision[t]

NotDue(t) ==
  /\ HasRow(t) /\ (row[t].completed \/ row[t].due > sources.at)
  /\ Visited(t) /\ seen' = seen \cup {t}
  /\ UNCHANGED <<now, store, core, booted, loop, scanned, runs, fs, changed, ghost>>

\* Mutant of Advance: the row stays as it is until the runs are admitted.
MutAdvance(t, next) == row' = row

\* advance_scheduled_trigger
Advance(t, next) ==
  row' = [row EXCEPT ![t].due = next.due, ![t].completed = next.completed]

Schedule(t) ==
  /\ HasRow(t) /\ ~row[t].completed /\ row[t].due <= sources.at
  /\ LET next == Due(t, row[t].due, sources.at, Recovering(t))
     IN /\ Advance(t, next)
        /\ runs' = [trigger |-> t, revision |-> sources.revision[t],
                    count |-> next.count, due |-> row[t].due]
  /\ Visited(t) /\ seen' = seen \cup {t}
  /\ UNCHANGED <<now, workflow, core, booted, loop, scanned, fs, changed, ghost>>

\* An error is reported, and the trigger stays unseen.
ReportInvalid(t) ==
  /\ Visit(t) /\ Invalid(t) /\ Visited(t)
  /\ UNCHANGED <<now, store, core, booted, loop, scanned, runs, seen, fs, changed, ghost>>

\* A startup trigger is taken as started before its run is requested.
Start(t) ==
  /\ Visit(t) /\ t \in Startup
  /\ seen' = seen \cup {t}
  /\ runs' = IF t \in seen THEN None
             ELSE [trigger |-> t, revision |-> sources.revision[t], count |-> 1, due |-> now]
  /\ Visited(t)
  /\ UNCHANGED <<now, store, core, booted, loop, scanned, fs, changed, ghost>>

-----------------------------------------------------------------------------
(* execute                                                                 *)

Admitted(t, revision) ==
  /\ core = "ready"
  /\ workflow[t].enabled /\ workflow[t].revision = revision

\* One request.  Draining and the store's guard drop it: the workflow must
\* be enabled at the revision of the request; a limit may refuse it too.
Execute ==
  /\ loop \in {"scan", "fire"} /\ runs # None /\ runs.count > 0
  /\ runs' = [runs EXCEPT !.count = @ - 1]
  /\ LET t == runs.trigger
     IN IF Admitted(t, runs.revision)
        THEN \/ attempted' = [attempted EXCEPT ![t].runs = @ + 1,
                                ![t].starts = IF t \in Startup THEN @ + 1 ELSE @]
             \/ UNCHANGED attempted
        ELSE UNCHANGED attempted
  /\ UNCHANGED <<now, store, core, booted, loop, sources, scanned, seen, fs, changed, reports>>

Executed ==
  /\ loop \in {"scan", "fire"} /\ runs # None /\ runs.count = 0
  /\ runs' = None
  /\ UNCHANGED <<now, store, core, booted, loop, sources, scanned, seen, fs, changed, ghost>>

-----------------------------------------------------------------------------
(* The loop                                                                *)

\* The scan reads all enabled workflows once.
BeginScan ==
  /\ loop = "wait" /\ ~scanned
  /\ scanned' = TRUE
  /\ IF core = "ready"
     THEN /\ loop' = "scan"
          /\ sources' = [at |-> now, revision |->
               [t \in {u \in Triggers : workflow[u].enabled} |-> workflow[t].revision],
               config |-> [t \in Watched |-> workflow[t].config]]
     ELSE loop' = "drain" /\ UNCHANGED sources
  /\ UNCHANGED <<now, store, core, booted, runs, seen, fs, changed, ghost>>

\* FilesystemScheduler::sync.  A watcher of the same configuration goes on
\* under the new revision; what it gathered for the old one is dropped.
\* Mutant of KeepsPending: what was gathered survives a new revision.
MutKeepsPending(t) == t \in DOMAIN sources.revision

KeepsPending(t) ==
  /\ t \in DOMAIN sources.revision /\ watchers[t] # None
  /\ watchers[t].config = sources.config[t]
  /\ watchers[t].revision = sources.revision[t]

KeepsWatcher(t) ==
  t \in DOMAIN sources.revision /\ watchers[t] # None
    /\ watchers[t].config = sources.config[t]

Sync ==
  /\ loop = "scan" /\ runs = None /\ DOMAIN sources.revision \subseteq Watched
  /\ watchers' = [t \in Watched |->
       IF t \in DOMAIN sources.revision
       THEN [revision |-> sources.revision[t], config |-> sources.config[t]] ELSE None]
  /\ pending' = [t \in Watched |-> IF KeepsPending(t) THEN pending[t] ELSE None]
  /\ overflow' = [t \in Watched |-> IF KeepsWatcher(t) THEN overflow[t] ELSE 0]
  /\ loop' = "drain" /\ sources' = None
  /\ UNCHANGED <<now, store, core, booted, scanned, runs, seen, channel, changed, ghost>>

\* The last instant of the clock stands for all later ones.
Later(n) == IF now + n > MaxTime THEN MaxTime ELSE now + n

\* filesystem_event_matches, and the paths a notification contributes.
Matches(path) == path \in Matching
TriggerPaths(path) == {path}

\* coalesce_pending: paths are gathered, the debounce starts over.
Coalesce(t, path) ==
  [revision |-> watchers[t].revision, due |-> Later(Debounce),
   paths |-> (IF pending[t] = None THEN {} ELSE pending[t].paths) \cup TriggerPaths(path)]

\* handle_event: what no watcher waits for is ignored.
HandleEvent ==
  LET t == Head(channel)[1]
      path == Head(channel)[2]
  IN /\ channel # <<>> /\ channel' = Tail(channel)
     /\ pending' = IF watchers[t] # None /\ Matches(path)
                   THEN [pending EXCEPT ![t] = Coalesce(t, path)] ELSE pending
     /\ UNCHANGED <<now, store, core, booted, sources, scanned, runs, seen,
                    watchers, overflow, changed, ghost>>

Drain == loop = "drain" /\ HandleEvent /\ UNCHANGED loop

\* record_overflow: the counter is reset, then the event is stored.
RecordOverflow ==
  /\ loop = "drain" /\ channel = <<>>
  /\ overflow' = [t \in Watched |-> IF watchers[t] = None THEN overflow[t] ELSE 0]
  /\ reports' = [reports EXCEPT !.durable = [t \in Watched |->
                   @[t] + (IF watchers[t] = None THEN 0 ELSE overflow[t])]]
  /\ loop' = "fire"
  /\ UNCHANGED <<now, store, core, booted, sources, scanned, runs, seen, watchers,
                 pending, channel, changed, attempted>>

\* take_due_pending
TakeDue(t) ==
  /\ loop = "fire" /\ runs = None /\ pending[t] # None /\ pending[t].due <= now
  /\ pending' = [pending EXCEPT ![t] = None]
  /\ runs' = [trigger |-> t, revision |-> pending[t].revision, count |-> 1, due |-> now]
  /\ attempted' = [attempted EXCEPT ![t].paths = @ \cup pending[t].paths]
  /\ UNCHANGED <<now, store, core, booted, loop, sources, scanned, seen, watchers,
                 channel, overflow, changed, reports>>

Wait ==
  /\ loop = "fire" /\ runs = None
  /\ \A t \in Watched : pending[t] # None => pending[t].due > now
  /\ loop' = "wait"
  /\ UNCHANGED <<now, store, core, booted, sources, scanned, runs, seen, fs, changed, ghost>>

\* The select: a deadline of a pending run (BeginScan is the one of the
\* scan), a notification, or the end.
Wake ==
  /\ loop = "wait" /\ scanned
  /\ \E t \in Watched : pending[t] # None /\ pending[t].due <= now
  /\ loop' = "drain"
  /\ UNCHANGED <<now, store, core, booted, sources, scanned, runs, seen, fs, changed, ghost>>

WakeForEvent == loop = "wait" /\ HandleEvent /\ loop' = "drain"

\* Mutant of StopTask: the signal is only polled next to a debounce deadline.
MutStopTask ==
  /\ loop = "wait" /\ core = "draining" /\ \E t \in Watched : pending[t] # None
  /\ loop' = "stopped" /\ seen' = {}
  /\ watchers' = [t \in Watched |-> None] /\ pending' = watchers'
  /\ channel' = <<>> /\ overflow' = [t \in Watched |-> 0]
  /\ UNCHANGED <<now, store, core, booted, sources, scanned, runs, changed, ghost>>

\* The handle's stop: the task, its watchers and its channel are dropped.
StopTask ==
  /\ loop = "wait" /\ core = "draining"
  /\ loop' = "stopped" /\ seen' = {}
  /\ watchers' = [t \in Watched |-> None] /\ pending' = watchers'
  /\ channel' = <<>> /\ overflow' = [t \in Watched |-> 0]
  /\ UNCHANGED <<now, store, core, booted, sources, scanned, runs, changed, ghost>>

Task ==
  \/ BeginScan \/ Sync \/ Execute \/ Executed
  \/ Drain \/ RecordOverflow \/ Wait \/ Wake \/ WakeForEvent \/ StopTask
  \/ \E t \in Triggers : Establish(t) \/ Adopt(t) \/ NotDue(t) \/ Schedule(t)
                           \/ ReportInvalid(t) \/ Start(t)
  \/ \E t \in Watched : TakeDue(t)

-----------------------------------------------------------------------------
(* Everything else                                                         *)

\* Time passes while the task sleeps or scans, up to the next scan or, with a
\* debounce under way, to a moment before it.
Tick ==
  /\ loop \in {"stopped", "wait", "scan"}
  /\ now' = Later(1)
  /\ scanned' \in {FALSE} \cup {scanned : t \in {u \in Watched : pending[u] # None}}
  /\ UNCHANGED <<store, core, booted, loop, sources, runs, seen, fs, changed, ghost>>

\* A client edits a workflow (update_workflow_if_revision), or changes its
\* status (set_workflow_status_if_revision) if the workflow is there.
Edit(t) ==
  /\ core = "ready" /\ workflow[t].exists /\ workflow[t].revision < MaxRevision
  /\ \E config \in {0, 1} :
       workflow' = [workflow EXCEPT ![t].revision = @ + 1,
                      ![t].config = IF t \in Watched THEN config ELSE @]
  /\ UNCHANGED <<now, row, core, booted, task, fs, changed, ghost>>

SetStatus(t) ==
  /\ core = "ready" /\ workflow[t].exists
  /\ workflow' = [workflow EXCEPT ![t].enabled = ~@]
  /\ UNCHANGED <<now, row, core, booted, task, fs, changed, ghost>>

\* The callback of a watcher runs on a thread of its own.  A full channel
\* costs the notification and counts it.
Notify(t, path) ==
  /\ watchers[t] # None /\ path \notin changed
  /\ changed' = changed \cup {path}
  /\ IF Len(channel) < Capacity
     THEN channel' = Append(channel, <<t, path>>) /\ UNCHANGED <<overflow, reports>>
     ELSE /\ overflow' = [overflow EXCEPT ![t] = @ + 1]
          /\ reports' = [reports EXCEPT !.dropped[t] = @ + 1]
          /\ UNCHANGED channel
  /\ UNCHANGED <<now, store, core, booted, task, watchers, pending, attempted>>

\* Core starts, becomes ready, drains, and is gone; or dies.
Boot ==
  /\ core = "down" /\ booted.starts < MaxStarts
  /\ core' = "starting" /\ loop' = "wait" /\ scanned' = FALSE
  /\ booted' = [starts |-> booted.starts + 1, at |-> now,
                late |-> {<<t, workflow[t].revision>> : t \in
                  {u \in Calendar : row[u] # None /\ row[u].due < now
                     /\ ~row[u].completed /\ workflow[u].revision = row[u].identity}}]
  /\ attempted' = [t \in Triggers |-> [attempted[t] EXCEPT !.starts = 0]]
  /\ UNCHANGED <<now, store, sources, runs, seen, fs, changed, reports>>

Ready ==
  /\ core = "starting" /\ core' = "ready"
  /\ UNCHANGED <<now, store, booted, task, fs, changed, ghost>>

Shutdown ==
  /\ core = "ready" /\ booted.starts < MaxStarts /\ core' = "draining"
  /\ UNCHANGED <<now, store, booted, task, fs, changed, ghost>>

Gone ==
  /\ core' = "down" /\ loop' = "stopped" /\ seen' = {} /\ runs' = None /\ sources' = None
  /\ watchers' = [t \in Watched |-> None] /\ pending' = watchers'
  /\ channel' = <<>> /\ overflow' = [t \in Watched |-> 0]
  /\ UNCHANGED <<now, store, booted, scanned, changed, ghost>>

Exit == core = "draining" /\ loop = "stopped" /\ Gone

Crash == core # "down" /\ booted.starts < MaxStarts /\ Gone

Init ==
  /\ now \in 1 .. MaxTime
  /\ \E there \in SUBSET Triggers :
       workflow = [t \in Triggers |-> [exists |-> t \in there, enabled |-> t \in there,
                                       revision |-> 1, config |-> 0]]
  /\ \/ row = [t \in Triggers |-> None]
     \/ row = [t \in Triggers |->
          IF t \in Calendar /\ ~Invalid(t) /\ workflow[t].exists
          THEN [identity |-> 0, due |-> InitialDue(t, 0), completed |-> FALSE] ELSE None]
  /\ core = "down" /\ booted = [starts |-> 0, at |-> 0, late |-> {}]
  /\ loop = "stopped" /\ sources = None /\ scanned = FALSE /\ runs = None /\ seen = {}
  /\ watchers = [t \in Watched |-> None] /\ pending = watchers
  /\ channel = <<>> /\ overflow = [t \in Watched |-> 0] /\ changed = {}
  /\ attempted = [t \in Triggers |->
       [runs |-> 0, since |-> IF row[t] = None THEN 0 ELSE row[t].due,
        starts |-> 0, paths |-> {}]]
  /\ reports = [durable |-> [t \in Watched |-> 0], dropped |-> [t \in Watched |-> 0]]

Next ==
  \/ Task \/ Tick \/ Boot \/ Ready \/ Shutdown \/ Exit \/ Crash
  \/ \E t \in Triggers : Edit(t) \/ SetStatus(t)
  \/ \E t \in Watched, path \in Files : Notify(t, path)

\* The runtime polls the task and Core comes to a phase in which it serves;
\* the clock goes on; the select does not prefer its other branches for ever
\* to the stop signal.
Fairness == WF_vars(Task) /\ WF_vars(Tick) /\ WF_vars(Ready) /\ SF_vars(StopTask)
Spec == Init /\ [][Next]_vars /\ Fairness

-----------------------------------------------------------------------------
(* Properties                                                              *)

Runs == [trigger : Triggers, revision : Identities, count : 0 .. MaxTime + 1,
         due : 0 .. MaxTime]
\* The variables keep their types; deadlines never lie beyond the next one.
TypeOK ==
  /\ now \in 1 .. MaxTime
  /\ workflow \in [Triggers -> [exists : BOOLEAN, enabled : BOOLEAN,
                                revision : 1 .. MaxRevision, config : {0, 1}]]
  /\ row \in [Triggers -> Rows \cup {None}]
  /\ core \in {"down", "starting", "ready", "draining"}
  /\ loop \in {"stopped", "scan", "drain", "fire", "wait"}
  /\ runs = None \/ runs \in Runs
  /\ seen \subseteq Triggers /\ channel \in Seq(Watched \X Files)

\* Occurrences of t up to now since its row was established.
Elapsed(t) == Cardinality(Backlog(t, attempted[t].since, now))

\* No occurrence is run twice: over any crashes and restarts a revision of a
\* calendar trigger gets at most one execution per occurrence that has come,
\* a date and time at most one.  The deadline is advanced before the runs
\* are requested (advance_scheduled_trigger before execute).
NoOccurrenceTwice ==
  \A t \in Calendar : row[t] # None => attempted[t].runs <= Elapsed(t)

\* A process starts what is due of an earlier process within the policy: of
\* the triggers that were late when it started it requests, for the revision
\* that was late, none under skip, one under runOnce, and never more than the
\* limit under catchUp.  (A date and time in the past that is edited is a
\* new row, due at once, to which no misfire policy applies.)
MisfireHonoured ==
  (runs # None /\ <<runs.trigger, runs.revision>> \in booted.late /\ runs.due < booted.at)
    => LET t == runs.trigger
       IN /\ Misfire[t] = "skip" => runs.count = 0
          /\ Misfire[t] = "runOnce" => runs.count <= 1
          /\ runs.count <= MaxCatchUp

\* A process runs a startup trigger at most once, whatever clients do to the
\* workflow meanwhile.
StartsOnce == \A t \in Startup : attempted[t].starts <= 1

\* What the scheduler gathered for one revision is not handed to another:
\* a pending run is of the revision its watcher has.
PendingOfWatcher ==
  \A t \in Watched : pending[t] # None =>
    watchers[t] # None /\ pending[t].revision = watchers[t].revision

Undisturbed(t) == core = "ready" /\ workflow[t].enabled

Late == {t \in Calendar : Undisturbed(t) /\ IF row[t] = None THEN ~Invalid(t)
                             ELSE ~row[t].completed /\ row[t].due <= now}

\* A due trigger does not stay due: time and again no trigger of an enabled
\* workflow of a serving Core is without a row or behind its deadline.
DueMovesOn == []<>(Late = {})

\* The scan under way, if any, read the workflow when it was enabled too.
Steady(t) == Undisturbed(t) /\ (sources # None => t \in DOMAIN sources.revision)

\* A change that a watcher took reaches a run, with its path among the paths
\* of the run, unless the workflow is edited or disabled, or Core stops or
\* dies.
ChangesReachRuns ==
  \A t \in Watched, path \in Matching :
    (watchers[t] # None /\ \E i \in DOMAIN channel : channel[i] = <<t, path>>)
      ~> (path \in attempted[t].paths \/ ~Steady(t) \/ workflow[t].revision > 1)

\* A stop of the scheduler is answered: the loop comes back to its select.
StopAnswered == core = "draining" ~> loop = "stopped"

\* Over crashes, restarts and edits nothing is started more often than its
\* trigger asks for.
FiresOnce == TypeOK /\ NoOccurrenceTwice /\ StartsOnce

\* What is started keeps to the misfire policy and to the revision that the
\* scheduler watches.
RunsFaithful == MisfireHonoured /\ PendingOfWatcher

\* The scheduler goes on: due triggers, changed files and a stop are all
\* attended to.
SchedulerLive == DueMovesOn /\ ChangesReachRuns /\ StopAnswered
=============================================================================
