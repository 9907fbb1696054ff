---------------------------- MODULE CoreExecution ----------------------------
(***************************************************************************)
(* One Core process (and its successors after crashes and restarts) that   *)
(* admits workflow executions, runs each one in a blocking worker, and     *)
(* recovers or drains them: src/src/lifecycle/{mod,execution,host}.rs, the *)
(* admission handlers of src/src/api.rs, src/src/scheduler.rs and          *)
(* src/src/management.rs, and the worker of src/src/runtime.rs over the    *)
(* transactions of ExecutionStore.                                         *)
(*                                                                         *)
(* A worker, once spawned, is its own thread: it holds the task permit     *)
(* from admission until it returns, so `worker[e] # "none"' is also the    *)
(* count AdmissionCoordinator keeps.  A graph run is abstracted to batches *)
(* of nodes that run concurrently (which nodes form a batch is left open;  *)
(* an unselected branch is a node that never runs).                        *)
(***************************************************************************)
EXTENDS ExecutionStore

CONSTANTS
    Nodes,         \* nodes of a plan
    Replayable,    \* delay, switch, foreach and loop nodes: no effect of their own
    Sensitive,     \* nodes whose result must not be stored
    MaxAttempts,   \* retry.maxAttempts of each node (1 without a retry policy)
    Keys, Hashes,  \* idempotency keys and request digests
    NoIdentity,    \* a request without idempotency key / a key never used
    MaxCrashes,    \* bound on process crashes
    MaxFaults      \* bound on workers lost to a store error

ASSUME NodesFinite == IsFiniteSet(Nodes)

ASSUME NodeAssumption ==
    /\ Replayable \subseteq Nodes
    /\ Sensitive \subseteq Nodes
    /\ MaxAttempts \in [Nodes -> Nat \ {0}]

ASSUME BoundAssumption == MaxCrashes \in Nat /\ MaxFaults \in Nat

ASSUME IdentityAssumption ==
    NoIdentity \notin (Keys \X Hashes) \cup (Hashes \X Executions)

Identities == (Keys \X Hashes) \cup {NoIdentity}

VARIABLES
    checkpoint,    \* node_checkpoints.status of every node of every execution
    identity,      \* the request identity an execution was created for
    idempotency,   \* execution_idempotency: key -> <<hash, execution>>
    core,          \* phase of the Core process, "down" when there is none
    toSpawn,       \* recovered queued executions not yet given a worker
    worker,        \* phase of the worker of each execution
    outcome,       \* error or result the worker carries out of the graph
    stage,         \* volatile progress of each node inside the worker
    tries,         \* attempts of a node made by this worker
    effects,       \* history: external effects of a node, over all processes
    faulted,       \* history: executions whose worker died of a store error
    crashes        \* history: process crashes so far

durableVars == <<status, completedAt, checkpoint, identity, idempotency>>
workVars == <<worker, outcome, stage, tries>>
historyVars == <<effects, faulted, crashes>>
vars == <<durableVars, core, toSpawn, workVars, historyVars>>

CheckpointStatuses == {"none", "running", "waiting", "completed", "unrecoverable"}
Uncertain == {"running", "unrecoverable"}
Phases == {"down", "recovering", "starting", "ready", "stopping"}
WorkerPhases == {"none", "preparing", "polling", "executing", "leaving"}
ControlErrors == {"shutdown", "cancelled", "timed_out"}
Outcomes == {"none", "succeeded", "failed"} \cup ControlErrors
Stages == {"idle", "ready", "begun", "acted", "settled"}

TypeOK ==
    /\ StoreTypeOK
    /\ checkpoint \in [Executions -> [Nodes -> CheckpointStatuses]]
    /\ identity \in [Executions -> Identities]
    /\ idempotency \in [Keys -> (Hashes \X Executions) \cup {NoIdentity}]
    /\ core \in Phases
    /\ toSpawn \subseteq Executions
    /\ worker \in [Executions -> WorkerPhases]
    /\ outcome \in [Executions -> Outcomes]
    /\ stage \in [Executions -> [Nodes -> Stages]]
    /\ tries \in [Executions -> [Nodes -> Nat]]
    /\ effects \in [Executions -> [Nodes -> Nat]]
    /\ faulted \subseteq Executions
    /\ crashes \in Nat

NoWork ==
    /\ worker = [e \in Executions |-> "none"]
    /\ outcome = [e \in Executions |-> "none"]
    /\ stage = [e \in Executions |-> [n \in Nodes |-> "idle"]]
    /\ tries = [e \in Executions |-> [n \in Nodes |-> 0]]

Init ==
    /\ StoreInit
    /\ checkpoint = [e \in Executions |-> [n \in Nodes |-> "none"]]
    /\ identity = [e \in Executions |-> NoIdentity]
    /\ idempotency = [k \in Keys |-> NoIdentity]
    /\ core = "down"
    /\ toSpawn = {}
    /\ NoWork
    /\ effects = [e \in Executions |-> [n \in Nodes |-> 0]]
    /\ faulted = {}
    /\ crashes = 0

-----------------------------------------------------------------------------
(* The Core process.                                                       *)

Accepting == core = "ready"
Serving == core \in {"starting", "ready", "stopping"}
ShutdownRequested == core = "stopping"
Drained == \A e \in Executions : worker[e] = "none"

(* Ownership of the data directory is acquired before the store is opened. *)
StartCore ==
    /\ core = "down"
    /\ core' = "recovering"
    /\ UNCHANGED <<durableVars, toSpawn, workVars, historyVars>>

(* Mutant of Resumable: only results that could not be stored are feared.  *)
MutResumableDespiteRunning ==
    {e \in Executions : \A n \in Nodes : checkpoint[e][n] # "unrecoverable"}

Resumable ==
    {e \in Executions : \A n \in Nodes : checkpoint[e][n] \notin Uncertain}

(* Mutant of Recover: the queue is listed before recovery ran.             *)
MutListBeforeRecovery ==
    /\ core = "recovering"
    /\ RecoverIncompleteExecutions(Resumable)
    /\ toSpawn' = {e \in Executions : status[e] = "queued"}
    /\ core' = "starting"
    /\ UNCHANGED <<checkpoint, identity, idempotency, workVars, historyVars>>

(* recover_incomplete_executions, then the snapshot of queued executions.  *)
Recover ==
    /\ core = "recovering"
    /\ RecoverIncompleteExecutions(Resumable)
    /\ toSpawn' = {e \in Executions : status'[e] = "queued"}
    /\ core' = "starting"
    /\ UNCHANGED <<checkpoint, identity, idempotency, workVars, historyVars>>

MarkReady ==
    /\ core = "starting"
    /\ core' = "ready"
    /\ UNCHANGED <<durableVars, toSpawn, workVars, historyVars>>

(* A step of startup fails after the server was spawned: the host drains.  *)
StartupFails ==
    /\ core = "starting"
    /\ core' = "stopping"
    /\ toSpawn' = {}
    /\ UNCHANGED <<durableVars, workVars, historyVars>>

(* The startup loop gives every queued execution of the snapshot a worker. *)
SpawnRecovered(e) ==
    /\ core = "ready"
    /\ e \in toSpawn
    /\ toSpawn' = toSpawn \ {e}
    /\ worker' = [worker EXCEPT ![e] = "polling"]
    /\ UNCHANGED <<durableVars, core, outcome, stage, tries, historyVars>>

(* A stop request, a signal or the end of the transport: admission closes  *)
(* for good and the workers' shutdown flag is set.                         *)
BeginStopping ==
    /\ core = "ready"
    /\ toSpawn = {}
    /\ core' = "stopping"
    /\ UNCHANGED <<durableVars, toSpawn, workVars, historyVars>>

(* Mutant of ReleaseAfterDrain: queued workers are not waited for.         *)
MutReleaseWhileQueued ==
    /\ core = "stopping"
    /\ \A e \in Executions : worker[e] \in {"none", "polling"}
    /\ core' = "down"
    /\ UNCHANGED <<durableVars, toSpawn, workVars, historyVars>>

(* Ownership is given up only when no permit is outstanding.               *)
ReleaseAfterDrain ==
    /\ core = "stopping"
    /\ Drained
    /\ core' = "down"
    /\ UNCHANGED <<durableVars, toSpawn, workVars, historyVars>>

Crash ==
    /\ core # "down"
    /\ crashes < MaxCrashes
    /\ crashes' = crashes + 1
    /\ core' = "down"
    /\ toSpawn' = {}
    /\ worker' = [e \in Executions |-> "none"]
    /\ outcome' = [e \in Executions |-> "none"]
    /\ stage' = [e \in Executions |-> [n \in Nodes |-> "idle"]]
    /\ tries' = [e \in Executions |-> [n \in Nodes |-> 0]]
    /\ UNCHANGED <<durableVars, effects, faulted>>

-----------------------------------------------------------------------------
(* Submission: a permit first, then one admission transaction.             *)

(* The handler found no execution for the key and obtained a permit.       *)
Submit(e, id) ==
    /\ Accepting
    /\ status[e] = "absent" /\ worker[e] = "none"
    /\ id # NoIdentity => idempotency[id[1]] = NoIdentity
    /\ worker' = [worker EXCEPT ![e] = "preparing"]
    /\ identity' = [identity EXCEPT ![e] = id]
    /\ UNCHANGED <<status, completedAt, checkpoint, idempotency, core, toSpawn,
                   outcome, stage, tries, historyVars>>

(* Mutant of KeyUnused: the lookup of the handler is relied upon.          *)
MutKeyNotRechecked(e) == TRUE

KeyUnused(e) == identity[e] # NoIdentity => idempotency[identity[e][1]] = NoIdentity

(* The row, its plan and its idempotency record commit together and the    *)
(* worker is spawned with the status the row was created with.             *)
Admit(e) ==
    /\ worker[e] = "preparing"
    /\ KeyUnused(e)
    /\ InsertExecution(e)
    /\ worker' = [worker EXCEPT ![e] =
                     IF AdmissionStatus(e) = "queued" THEN "polling" ELSE "executing"]
    /\ idempotency' = IF identity[e] = NoIdentity THEN idempotency
                      ELSE [idempotency EXCEPT ![identity[e][1]] = <<identity[e][2], e>>]
    /\ UNCHANGED <<checkpoint, identity, core, toSpawn, outcome, stage, tries, historyVars>>

(* The transaction finds the key taken (the earlier execution is returned, *)
(* or a conflict), or admission is refused: the permit is dropped.         *)
RefuseAdmission(e) ==
    /\ worker[e] = "preparing"
    /\ ~KeyUnused(e) \/ AdmissionStatus(e) = "rejected"
    /\ worker' = [worker EXCEPT ![e] = "none"]
    /\ identity' = [identity EXCEPT ![e] = NoIdentity]
    /\ UNCHANGED <<status, completedAt, checkpoint, idempotency, core, toSpawn,
                   outcome, stage, tries, historyVars>>

(* Cancellation through either API, as long as the transport is up.        *)
CancelLegacy(e) ==
    /\ Serving
    /\ RequestExecutionCancel(e)
    /\ UNCHANGED <<checkpoint, identity, idempotency, core, toSpawn, workVars, historyVars>>

CancelManaged(e) ==
    /\ Serving
    /\ RequestExecutionCancelOutcome(e)
    /\ UNCHANGED <<checkpoint, identity, idempotency, core, toSpawn, workVars, historyVars>>

(* Retention works on rows that ended at least a day ago; startup takes at *)
(* most 30 s and an execution at most an hour, so no worker of such a row  *)
(* is left or still to be spawned.                                         *)
Retain(expired) ==
    /\ \A e \in expired : worker[e] = "none" /\ e \notin toSpawn
    /\ ApplyRetention(expired)
    /\ checkpoint' = [e \in Executions |->
           IF e \in expired THEN [n \in Nodes |-> "none"] ELSE checkpoint[e]]
    /\ idempotency' = [k \in Keys |->
           IF idempotency[k] # NoIdentity /\ idempotency[k][2] \in expired
           THEN NoIdentity ELSE idempotency[k]]
    /\ UNCHANGED <<identity, core, toSpawn, workVars, historyVars>>

-----------------------------------------------------------------------------
(* A worker waiting for a slot: one turn of the 20 ms polling loop.        *)

Claim(e) ==
    /\ worker[e] = "polling"
    /\ ClaimExecutionSlot(e)
    /\ worker' = [worker EXCEPT ![e] = "executing"]
    /\ UNCHANGED <<checkpoint, identity, idempotency, core, toSpawn,
                   outcome, stage, tries, historyVars>>

PollCancelled(e) ==
    /\ worker[e] = "polling"
    /\ ~CanClaim(e)
    /\ ExecutionCancelRequested(e)
    /\ FinishExecution(e, "cancelled")
    /\ worker' = [worker EXCEPT ![e] = "none"]
    /\ UNCHANGED <<checkpoint, identity, idempotency, core, toSpawn,
                   outcome, stage, tries, historyVars>>

(* Mutant of PollShutdown: the polling loop does not look at the flag.     *)
MutPollIgnoresShutdown(e) == worker[e] = "polling" /\ FALSE /\ UNCHANGED vars

PollShutdown(e) ==
    /\ worker[e] = "polling"
    /\ ~CanClaim(e)
    /\ ~ExecutionCancelRequested(e)
    /\ ShutdownRequested
    /\ worker' = [worker EXCEPT ![e] = "none"]
    /\ UNCHANGED <<durableVars, core, toSpawn, outcome, stage, tries, historyVars>>

-----------------------------------------------------------------------------
(* A worker executing the graph.                                           *)

InFlight(e) == {n \in Nodes : stage[e][n] \in {"ready", "begun", "acted"}}

(* RunControl::check: shutdown, then cancellation, then the deadline, which *)
(* may have passed at any time.                                             *)
ControlError(e) ==
    IF ShutdownRequested THEN "shutdown"
    ELSE IF ExecutionCancelRequested(e) THEN "cancelled" ELSE "timed_out"

ControlPasses(e) == ~ShutdownRequested /\ ~ExecutionCancelRequested(e)

(* The loop of execute_graph picks the next batch of ready nodes.          *)
LaunchBatch(e, batch) ==
    /\ worker[e] = "executing"
    /\ InFlight(e) = {} /\ outcome[e] = "none"
    /\ ControlPasses(e)
    /\ batch # {} /\ \A n \in batch : stage[e][n] = "idle"
    /\ stage' = [stage EXCEPT ![e] =
                    [n \in Nodes |-> IF n \in batch THEN "ready" ELSE @[n]]]
    /\ UNCHANGED <<durableVars, core, toSpawn, worker, outcome, tries, historyVars>>

(* A completed checkpoint answers for the node; otherwise begin_checkpoint *)
(* marks it before anything happens outside.                               *)
ReuseCheckpoint(e, n) ==
    /\ stage[e][n] = "ready"
    /\ checkpoint[e][n] = "completed"
    /\ stage' = [stage EXCEPT ![e][n] = "settled"]
    /\ UNCHANGED <<durableVars, core, toSpawn, worker, outcome, tries, historyVars>>

BeginNode(e, n) ==
    /\ stage[e][n] = "ready"
    /\ checkpoint[e][n] # "completed"
    /\ checkpoint' = [checkpoint EXCEPT ![e][n] =
                         IF n \in Replayable THEN "waiting" ELSE "running"]
    /\ stage' = [stage EXCEPT ![e][n] = "begun"]
    /\ UNCHANGED <<status, completedAt, identity, idempotency, core, toSpawn,
                   worker, outcome, tries, historyVars>>

(* One attempt; a node that is not replayable has an effect outside.       *)
Act(e, n) ==
    /\ stage[e][n] = "begun"
    /\ tries' = [tries EXCEPT ![e][n] = @ + 1]
    /\ effects' = IF n \in Replayable THEN effects
                  ELSE [effects EXCEPT ![e][n] = @ + 1]
    /\ stage' = [stage EXCEPT ![e][n] = "acted"]
    /\ UNCHANGED <<durableVars, core, toSpawn, worker, outcome, faulted, crashes>>

(* The attempt failed and the policy allows another: the backoff wait ends *)
(* with a control check that passes.                                       *)
RetryNode(e, n) ==
    /\ stage[e][n] = "acted"
    /\ tries[e][n] < MaxAttempts[n]
    /\ ControlPasses(e) /\ outcome[e] = "none"
    /\ stage' = [stage EXCEPT ![e][n] = "begun"]
    /\ UNCHANGED <<durableVars, core, toSpawn, worker, outcome, tries, historyVars>>

CompleteNode(e, n) ==
    /\ stage[e][n] = "acted"
    /\ checkpoint' = [checkpoint EXCEPT ![e][n] =
                         IF n \in Sensitive THEN "unrecoverable" ELSE "completed"]
    /\ stage' = [stage EXCEPT ![e][n] = "settled"]
    /\ UNCHANGED <<status, completedAt, identity, idempotency, core, toSpawn,
                   worker, outcome, tries, historyVars>>

(* The node gives up with its own error or with the one of a control check *)
(* ("sibling node failed" once another node failed).  Which error of a     *)
(* batch is reported depends on the order of nodes, not on time.           *)
FailNode(e, n) ==
    /\ stage[e][n] \in {"begun", "acted"}
    /\ stage' = [stage EXCEPT ![e][n] = "settled"]
    /\ \/ \E error \in {"failed", ControlError(e)} :
             outcome' = [outcome EXCEPT ![e] = error]
       \/ outcome[e] # "none" /\ outcome' = outcome
    /\ UNCHANGED <<durableVars, core, toSpawn, worker, tries, historyVars>>

(* The worker returns from the graph: with the failure of a batch, with a  *)
(* failed check between batches, or with a result once enough nodes ran.   *)
LeaveGraph(e) ==
    /\ worker[e] = "executing"
    /\ InFlight(e) = {}
    /\ \/ outcome[e] # "none" /\ outcome' = outcome
       \/ /\ outcome[e] = "none"
          /\ outcome' = [outcome EXCEPT ![e] = ControlError(e)]
       \/ /\ outcome[e] = "none"
          /\ \E n \in Nodes : stage[e][n] = "settled"
          /\ outcome' = [outcome EXCEPT ![e] = "succeeded"]
    /\ worker' = [worker EXCEPT ![e] = "leaving"]
    /\ UNCHANGED <<durableVars, core, toSpawn, stage, tries, historyVars>>

(* Volatile state of a worker that returned.                               *)
EndWorker(e) ==
    /\ worker' = [worker EXCEPT ![e] = "none"]
    /\ outcome' = [outcome EXCEPT ![e] = "none"]
    /\ stage' = [stage EXCEPT ![e] = [n \in Nodes |-> "idle"]]
    /\ tries' = [tries EXCEPT ![e] = [n \in Nodes |-> 0]]

(* finish_execution with the outcome; after a shutdown the row stays as it *)
(* is, for recovery to look at.                                            *)
FinishWorker(e) ==
    /\ worker[e] = "leaving"
    /\ IF outcome[e] = "shutdown"
       THEN UNCHANGED storeVars
       ELSE FinishExecution(e, outcome[e])
    /\ EndWorker(e)
    /\ UNCHANGED <<checkpoint, identity, idempotency, core, toSpawn, historyVars>>

(* A store call of the worker outside a node fails (5 s lock bound, disk): *)
(* the worker returns and nothing is left to drive the row.                *)
StoreFault(e) ==
    /\ \/ worker[e] \in {"polling", "leaving"}
       \/ worker[e] = "executing" /\ \A n \in Nodes : stage[e][n] = "idle"
    /\ Cardinality(faulted) < MaxFaults
    /\ faulted' = faulted \cup {e}
    /\ EndWorker(e)
    /\ UNCHANGED <<durableVars, core, toSpawn, effects, crashes>>

-----------------------------------------------------------------------------
NodeStep(e, n) ==
    \/ ReuseCheckpoint(e, n)
    \/ BeginNode(e, n)
    \/ Act(e, n)
    \/ RetryNode(e, n)
    \/ CompleteNode(e, n)
    \/ FailNode(e, n)

WorkerStep(e) ==
    \/ Admit(e)
    \/ RefuseAdmission(e)
    \/ Claim(e)
    \/ PollCancelled(e)
    \/ PollShutdown(e)
    \/ \E batch \in SUBSET Nodes : LaunchBatch(e, batch)
    \/ \E n \in Nodes : NodeStep(e, n)
    \/ LeaveGraph(e)
    \/ FinishWorker(e)

CoreStep ==
    \/ StartCore
    \/ Recover
    \/ MarkReady
    \/ StartupFails
    \/ \E e \in Executions : SpawnRecovered(e)
    \/ BeginStopping
    \/ ReleaseAfterDrain
    \/ Crash

ClientStep(e) ==
    \/ \E id \in Identities : Submit(e, id)
    \/ CancelLegacy(e)
    \/ CancelManaged(e)

Next ==
    \/ CoreStep
    \/ \E e \in Executions : ClientStep(e) \/ WorkerStep(e) \/ StoreFault(e)
    \/ \E expired \in SUBSET Executions : Retain(expired)

Spec == Init /\ [][Next]_vars

(* A blocking worker is a thread of its own and keeps running; startup and  *)
(* drain are straight-line code.  Nothing obliges a client, an operator or  *)
(* the machine to act, and a stopped Core need not be started again.        *)
Fairness ==
    /\ WF_vars(Recover)
    /\ WF_vars(MarkReady \/ StartupFails)
    /\ WF_vars(ReleaseAfterDrain)
    /\ \A e \in Executions : WF_vars(SpawnRecovered(e)) /\ WF_vars(WorkerStep(e))

FairSpec == Spec /\ Fairness

-----------------------------------------------------------------------------
(* Safety.                                                                 *)

(* claim_execution_slot and execution_admission count the runs of a        *)
(* workflow against the limit of the plan that wants to start.  Whatever   *)
(* mixture of revisions is running, the runs whose plan allows at most k   *)
(* concurrent runs are never more than k, across crashes, recovery and     *)
(* cancellation.                                                           *)
ConcurrencyBound ==
    \A x \in Limited :
        Cardinality({e \in Rows(WorkflowOf[x], Occupying) \cap Limited :
                         MaxRuns[e] <= MaxRuns[x]}) <= MaxRuns[x]

(* "A checkpoint marked running is an uncertain external effect and is     *)
(* never replayed" (store.rs): over any number of crashes, restarts and    *)
(* resumed workers a node acts on the outside world at most as often as    *)
(* its own retry policy allows one worker to.                              *)
EffectsBounded ==
    \A e \in Executions, n \in Nodes : effects[e][n] <= MaxAttempts[n]

(* The status a worker acts on is stale the moment it is read.  A worker   *)
(* in the polling loop still finds its row queued or cancelled (any other  *)
(* status would keep it polling for ever), and one in the graph finds it   *)
(* running or cancelling (any other would drop its result silently).       *)
WorkerMatchesRow ==
    \A e \in Executions :
        /\ worker[e] = "preparing" => status[e] = "absent"
        /\ worker[e] = "polling" => status[e] \in {"queued", "cancelled"}
        /\ worker[e] \in {"executing", "leaving"} => status[e] \in Occupying

(* While Core is ready, every row that has not ended is driven by a worker *)
(* or about to get one, unless its worker died of a store error: no row is *)
(* left to occupy a slot until the next restart.                           *)
RowHasDriver ==
    core = "ready" =>
        \A e \in Executions :
            status[e] \in Incomplete =>
                \/ worker[e] \in {"polling", "executing", "leaving"}
                \/ e \in toSpawn /\ worker[e] = "none"
                \/ e \in faulted

(* The lease on the data directory is released, and recovery rewrites the  *)
(* rows, only when no worker that could still write to the store is left.  *)
OwnershipCoversWork ==
    core \in {"down", "recovering", "starting"} => Drained

(* Two submissions with one idempotency key never create two executions,   *)
(* however the lookup of one interleaves with the transaction of the other; *)
(* the record of the key names that execution and its request.             *)
OneExecutionPerKey ==
    \A e \in Executions :
        identity[e] # NoIdentity /\ status[e] \notin {"absent", "deleted"} =>
            idempotency[identity[e][1]] = <<identity[e][2], e>>

(* An execution that ended keeps its status: no late worker, second        *)
(* cancellation or recovery revives or relabels it; only retention removes *)
(* the row.                                                                *)
EndedForGood ==
    [][\A e \in Executions :
          status[e] \in Ended \cup {"deleted"} => status'[e] \in {status[e], "deleted"}]_vars

-----------------------------------------------------------------------------
(* Liveness.                                                               *)

(* Every admitted execution ends while Core keeps running: the queue drains *)
(* and no worker waits for ever.                                           *)
AdmittedEnds ==
    \A e \in Executions :
        (core = "ready" /\ status[e] \in Incomplete)
            ~> (status[e] \in Ended \cup {"deleted"} \/ core # "ready")

(* A stopping Core gets rid of its workers and releases the lease.         *)
DrainCompletes == (core = "stopping") ~> (core = "down")

(* What was admitted ends, and a Core that was told to stop finishes its    *)
(* drain.                                                                  *)
CoreLive == AdmittedEnds /\ DrainCompletes

-----------------------------------------------------------------------------
(* Refinement.                                                             *)

JobOf(s) ==
    CASE s = "absent" -> "new"
      [] s = "queued" -> "waiting"
      [] s \in Occupying -> "active"
      [] s \in Ended -> "done"
      [] s = "deleted" -> "gone"

Contract == INSTANCE ExecutionContract WITH
    job <- [e \in Executions |-> JobOf(status[e])],
    performed <- effects

(* Admission, workers, cancellation, crashes, recovery, drain and retention *)
(* together implement the contract: every step is a step of it or changes   *)
(* nothing it speaks of.                                                    *)
ImplementsContract == Contract!Spec
=============================================================================
