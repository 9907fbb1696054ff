---------------------------- MODULE PluginRemoval ----------------------------
(***************************************************************************)
(* Installing, using and removing one plugin: the plugin tables of         *)
(* src/src/store.rs, the coordinated removal of src/src/plugin_services.rs, *)
(* the commit of src/src/plugin_install.rs and the handlers of             *)
(* src/src/api.rs that call them.                                          *)
(*                                                                         *)
(* Every store call is a transaction, but a removal or a commit is a       *)
(* sequence of store calls and file operations run by an HTTP handler, by  *)
(* the worker of an execution that ended, or by startup, with nothing that *)
(* excludes the others.  `pc' says where each of these processes is and    *)
(* `target' which package it works on.                                     *)
(*                                                                         *)
(* A build is a version and a digest: it determines the package directory. *)
(* All workflows of the model use the plugin.                              *)
(***************************************************************************)
EXTENDS ExecutionStore

CONSTANTS
    Builds,       \* builds of the plugin
    NoBuild,      \* no record, no pin, no catalog entry
    Admins,       \* concurrent management requests
    Startup,      \* the startup sequence of a Core process
    Legacy,       \* executions submitted through POST /api/v1/executions
    Installable,  \* builds that may be committed while the model runs
    MaxCrashes    \* bound on restarts of Core

ASSUME PluginAssumption ==
    /\ NoBuild \notin Builds
    /\ Legacy \subseteq Executions
    /\ Installable \subseteq Builds
    /\ MaxCrashes \in Nat
    /\ Admins \cap Executions = {}
    /\ Startup \notin Admins \cup Executions

VARIABLES
    installed,    \* the build of the installed_plugins row
    lifecycle,    \* plugin_lifecycle.status, "none" without a row
    enabled,      \* installed_plugins.enabled
    files,        \* package directory of each build
    pins,         \* plugin_execution_pins: the build an execution pinned
    workflow,     \* status column of each workflow
    blocked,      \* plugin_removal_workflows
    core,         \* "down", "reconciling" or "up"
    catalog,      \* the plugin registry of the API state
    using,        \* the registry snapshot a submission or a worker holds
    pc, target,   \* position and package of each process
    affected,     \* workflows found by the reference scan of a request
    crashes       \* history: crashes so far

recordVars == <<installed, lifecycle, enabled>>
workflowVars == <<workflow, blocked>>
procVars == <<pc, target, affected>>
coreVars == <<core, catalog, crashes>>
vars == <<storeVars, recordVars, files, pins, workflowVars, using, procVars, coreVars>>

Procs == Admins \cup Executions \cup {Startup}
Build == Builds \cup {NoBuild}
Steps == {"idle", "publish", "observe", "pins", "recheck", "lookup", "delete",
          "finalize", "fail", "place", "upsertPlaced", "upsertReused", "load", "store"}

TypeOK ==
    /\ StoreTypeOK
    /\ installed \in Build
    /\ lifecycle \in {"none", "active", "pending removal", "removal failed"}
    /\ lifecycle = "none" <=> installed = NoBuild
    /\ enabled \in BOOLEAN
    /\ files \in [Builds -> {"absent", "intact", "damaged"}]
    /\ pins \in [Executions -> Build]
    /\ workflow \in [Workflows -> {"absent", "enabled", "disabled"}]
    /\ blocked \subseteq Workflows
    /\ core \in {"down", "reconciling", "up"}
    /\ catalog \in Build
    /\ using \in [Executions -> Build]
    /\ pc \in [Procs -> Steps]
    /\ target \in [Procs -> Build]
    /\ affected \in [Procs -> SUBSET Workflows]
    /\ crashes \in Nat

(* A running Core with one build committed and nothing admitted yet.       *)
Init ==
    /\ StoreInit
    /\ installed \in Builds
    /\ lifecycle = "active" /\ enabled = TRUE
    /\ files = [b \in Builds |-> IF b = installed THEN "intact" ELSE "absent"]
    /\ pins = [e \in Executions |-> NoBuild]
    /\ workflow = [w \in Workflows |-> "absent"]
    /\ blocked = {}
    /\ core = "up"
    /\ catalog = installed
    /\ using = [e \in Executions |-> NoBuild]
    /\ pc = [p \in Procs |-> "idle"]
    /\ target = [p \in Procs |-> NoBuild]
    /\ affected = [p \in Procs |-> {}]
    /\ crashes = 0

Unpinned == \A e \in Executions : pins[e] = NoBuild
Pending == lifecycle = "pending removal"

(* Mutant of Blocked: a failed removal no longer blocks.                   *)
MutBlockedOnlyPending(w) == w \in blocked /\ Pending

Blocked(w) == w \in blocked /\ lifecycle \in {"pending removal", "removal failed"}

Carry(p, step, b) ==
    /\ pc' = [pc EXCEPT ![p] = step]
    /\ target' = [target EXCEPT ![p] = b]

Goto(p, step) == Carry(p, step, NoBuild)

(* Where a process goes when it is done reconciling: a request rebuilds    *)
(* the catalog, a worker or startup just returns.                          *)
Reconciled(p) == IF p \in Admins THEN "load" ELSE "idle"

-----------------------------------------------------------------------------
(* Executions.                                                             *)

(* Statuses on whose assignment the trigger releases the pins of a row.    *)
Releasing == {"succeeded", "failed", "cancelled", "timed_out"}

ReleasePins ==
    pins' = [e \in Executions |->
                IF status'[e] # status[e] /\ status'[e] \in Releasing
                THEN NoBuild ELSE pins[e]]

(* The handler compiles the workflow with a snapshot of the catalog; the   *)
(* canonical path also compares the digest of the package.                 *)
Prepare(e) ==
    /\ core = "up"
    /\ status[e] = "absent" /\ using[e] = NoBuild
    /\ workflow[WorkflowOf[e]] # "absent"
    /\ catalog # NoBuild
    /\ e \notin Legacy => files[catalog] = "intact"
    /\ using' = [using EXCEPT ![e] = catalog]
    /\ UNCHANGED <<storeVars, recordVars, files, pins, workflowVars, procVars, coreVars>>

(* Mutant of Pinnable: admission does not look at the lifecycle.           *)
MutPinnableWhilePending(b) == installed = b

Pinnable(b) == enabled /\ lifecycle = "active" /\ installed = b

AdmitCanonical(e) ==
    /\ e \notin Legacy /\ using[e] # NoBuild
    /\ ~Blocked(WorkflowOf[e])
    /\ Pinnable(using[e])
    /\ InsertExecution(e)
    /\ pins' = [pins EXCEPT ![e] = using[e]]
    /\ UNCHANGED <<recordVars, files, workflowVars, using, procVars, coreVars>>

(* The legacy path names no plugin requirement and no revision: no pin and *)
(* no look at the barrier.                                                 *)
AdmitLegacy(e) ==
    /\ e \in Legacy /\ using[e] # NoBuild
    /\ InsertExecution(e)
    /\ UNCHANGED <<recordVars, files, pins, workflowVars, using, procVars, coreVars>>

RefuseAdmission(e) ==
    /\ status[e] = "absent" /\ using[e] # NoBuild
    /\ \/ AdmissionStatus(e) = "rejected"
       \/ e \notin Legacy /\ (Blocked(WorkflowOf[e]) \/ ~Pinnable(using[e]))
    /\ using' = [using EXCEPT ![e] = NoBuild]
    /\ UNCHANGED <<storeVars, recordVars, files, pins, workflowVars, procVars, coreVars>>

Claim(e) ==
    /\ core = "up"
    /\ ClaimExecutionSlot(e)
    /\ UNCHANGED <<recordVars, files, pins, workflowVars, using, procVars, coreVars>>

(* Mutant of Finish: nobody reconciles after an execution ended.           *)
MutFinishNoReconcile(e, outcome) ==
    /\ core = "up"
    /\ status[e] \in Occupying
    /\ outcome = "cancelled" => status[e] = "cancelling"
    /\ FinishExecution(e, outcome)
    /\ ReleasePins
    /\ using' = [using EXCEPT ![e] = NoBuild]
    /\ UNCHANGED <<recordVars, files, workflowVars, procVars, coreVars>>

(* The worker ends the row; having done so it reconciles removals.         *)
Finish(e, outcome) ==
    /\ core = "up"
    /\ status[e] \in Occupying
    /\ outcome = "cancelled" => status[e] = "cancelling"
    /\ FinishExecution(e, outcome)
    /\ ReleasePins
    /\ using' = [using EXCEPT ![e] = NoBuild]
    /\ Goto(e, "observe")
    /\ UNCHANGED <<recordVars, files, workflowVars, affected, coreVars>>

(* Either cancellation request.  The worker of a queued execution finds    *)
(* the row cancelled and finish_execution has nothing left to do.          *)
Cancel(e) ==
    /\ core = "up"
    /\ RequestExecutionCancel(e) \/ RequestExecutionCancelOutcome(e)
    /\ ReleasePins
    /\ UNCHANGED <<recordVars, files, workflowVars, using, procVars, coreVars>>

-----------------------------------------------------------------------------
(* A removal request.                                                      *)

(* request_removal reads the record, its state and every workflow.         *)
Review(a) ==
    /\ core = "up" /\ pc[a] = "idle"
    /\ lifecycle \in {"active", "pending removal"}
    /\ files[installed] # "absent"
    /\ affected' = [affected EXCEPT ![a] = {w \in Workflows : workflow[w] # "absent"}]
    /\ Goto(a, "publish")
    /\ UNCHANGED <<storeVars, recordVars, files, pins, workflowVars, using, coreVars>>

(* request_plugin_removal: barrier, disabled workflows and the count of    *)
(* pins in one transaction, whatever the state has become meanwhile.       *)
Publish(a) ==
    /\ pc[a] = "publish"
    /\ lifecycle # "none"
    /\ lifecycle' = "pending removal"
    /\ enabled' = FALSE
    /\ workflow' = [w \in Workflows |->
                       IF w \in affected[a] THEN "disabled" ELSE workflow[w]]
    /\ blocked' = blocked \cup affected[a]
    /\ Goto(a, IF Unpinned THEN "recheck" ELSE "load")
    /\ affected' = [affected EXCEPT ![a] = {}]
    /\ UNCHANGED <<storeVars, installed, files, pins, using, coreVars>>

PublishTooLate(a) ==
    /\ pc[a] = "publish"
    /\ lifecycle = "none"
    /\ Goto(a, "idle")
    /\ affected' = [affected EXCEPT ![a] = {}]
    /\ UNCHANGED <<storeVars, recordVars, files, pins, workflowVars, using, coreVars>>

(* The request of an operator who retries a failed removal.                *)
Resume(a) ==
    /\ core = "up" /\ pc[a] = "idle"
    /\ lifecycle = "removal failed"
    /\ lifecycle' = "pending removal"
    /\ Goto(a, "pins")
    /\ UNCHANGED <<storeVars, installed, enabled, files, pins, workflowVars, using, affected, coreVars>>

-----------------------------------------------------------------------------
(* Reconciliation: reconcile_pending_removals from "observe", reconcile_one *)
(* from "recheck".                                                          *)

Read(p, at, condition, next) ==
    /\ pc[p] = at
    /\ Goto(p, IF condition THEN next ELSE Reconciled(p))
    /\ UNCHANGED <<storeVars, recordVars, files, pins, workflowVars, using, affected, coreVars>>

ObservePending(p) == Read(p, "observe", Pending, "pins")
CountPins(p) == Read(p, "pins", Unpinned, "recheck")
RecheckPins(p) == Read(p, "recheck", Unpinned, "lookup")

(* The record is read again for the path of the package.                   *)
Lookup(p) ==
    /\ pc[p] = "lookup"
    /\ Carry(p, IF installed = NoBuild THEN Reconciled(p) ELSE "delete", installed)
    /\ UNCHANGED <<storeVars, recordVars, files, pins, workflowVars, using, affected, coreVars>>

DeleteFiles(p) ==
    /\ pc[p] = "delete"
    /\ files' = [files EXCEPT ![target[p]] = "absent"]
    /\ Goto(p, "finalize")
    /\ UNCHANGED <<storeVars, recordVars, pins, workflowVars, using, affected, coreVars>>

(* remove_dir_all fails, perhaps half way.                                 *)
DeleteFails(p) ==
    /\ pc[p] = "delete"
    /\ files[target[p]] # "absent"
    /\ \E left \in {files[target[p]], "damaged"} :
          files' = [files EXCEPT ![target[p]] = left]
    /\ Goto(p, "fail")
    /\ UNCHANGED <<storeVars, recordVars, pins, workflowVars, using, affected, coreVars>>

(* The row goes, and with it its lifecycle and its blocked workflows.      *)
DropRecord ==
    /\ installed' = NoBuild
    /\ lifecycle' = "none"
    /\ enabled' = FALSE
    /\ blocked' = {}

(* finalize_plugin_removal checks state and pins once more.                *)
Finalizable == Pending /\ Unpinned

Finalize(p) ==
    /\ pc[p] = "finalize"
    /\ \/ /\ Finalizable
          /\ DropRecord
          /\ Goto(p, Reconciled(p))
       \/ /\ ~Finalizable
          /\ Goto(p, IF lifecycle = "none" THEN Reconciled(p) ELSE "fail")
          /\ UNCHANGED <<recordVars, blocked>>
    /\ UNCHANGED <<storeVars, files, pins, workflow, using, affected, coreVars>>

(* mark_plugin_removal_failed; when nothing is pending it is an error, on  *)
(* which a request returns without rebuilding the catalog.                 *)
MarkFailed(p) ==
    /\ pc[p] = "fail"
    /\ lifecycle' = IF Pending THEN "removal failed" ELSE lifecycle
    /\ Goto(p, IF Pending THEN Reconciled(p) ELSE "idle")
    /\ UNCHANGED <<storeVars, installed, enabled, files, pins, workflowVars, using, affected, coreVars>>

-----------------------------------------------------------------------------
(* The other management requests.                                          *)

(* commit of a prepared build: is its directory there already?             *)
StartCommit(a, b) ==
    /\ core = "up" /\ pc[a] = "idle"
    /\ files[b] # "damaged"
    /\ Carry(a, IF files[b] = "intact" THEN "upsertReused" ELSE "place", b)
    /\ UNCHANGED <<storeVars, recordVars, files, pins, workflowVars, using, affected, coreVars>>

(* The staged directory is renamed into place, unless one turned up there. *)
Place(a) ==
    /\ pc[a] = "place"
    /\ \/ /\ files[target[a]] = "absent"
          /\ files' = [files EXCEPT ![target[a]] = "intact"]
          /\ Carry(a, "upsertPlaced", target[a])
       \/ /\ files[target[a]] # "absent"
          /\ files' = files
          /\ Goto(a, "idle")
    /\ UNCHANGED <<storeVars, recordVars, pins, workflowVars, using, affected, coreVars>>

(* Mutant of Replaceable: pins do not prevent a replacement.               *)
MutReplacePinned == lifecycle \in {"none", "active"}

(* upsert_plugin_install_with_source: inserts, or replaces an active and   *)
(* unpinned record.                                                        *)
Replaceable == lifecycle = "none" \/ (lifecycle = "active" /\ Unpinned)

Upsert(a) ==
    /\ pc[a] \in {"upsertPlaced", "upsertReused"}
    /\ Replaceable
    /\ installed' = target[a]
    /\ lifecycle' = "active"
    /\ enabled' = TRUE
    /\ Goto(a, "load")
    /\ UNCHANGED <<storeVars, files, pins, workflowVars, using, affected, coreVars>>

(* Refused: the directory this request placed is moved back.               *)
UpsertRefused(a) ==
    /\ pc[a] \in {"upsertPlaced", "upsertReused"}
    /\ ~Replaceable
    /\ files' = IF pc[a] = "upsertPlaced"
                THEN [files EXCEPT ![target[a]] = "absent"] ELSE files
    /\ Goto(a, "idle")
    /\ UNCHANGED <<storeVars, recordVars, pins, workflowVars, using, affected, coreVars>>

(* Enabling needs an active record, disabling any record.                  *)
SetPluginEnabled(a, on) ==
    /\ core = "up" /\ pc[a] = "idle"
    /\ lifecycle # "none"
    /\ on => lifecycle = "active"
    /\ enabled' = on
    /\ Goto(a, "load")
    /\ UNCHANGED <<storeVars, installed, lifecycle, files, pins, workflowVars, using, affected, coreVars>>

(* DELETE /api/v1/plugins/{id}: the record only, the files stay.           *)
RemovePluginInstall(a) ==
    /\ core = "up" /\ pc[a] = "idle"
    /\ lifecycle = "active" /\ Unpinned
    /\ DropRecord
    /\ Goto(a, "load")
    /\ UNCHANGED <<storeVars, files, pins, workflow, using, affected, coreVars>>

(* What the registry is built from: the enabled record, if it loads.       *)
EnabledBuild == IF enabled THEN installed ELSE NoBuild
Loadable == EnabledBuild # NoBuild => files[EnabledBuild] = "intact"

(* refresh_plugin_catalog loads first and takes the catalog lock after.    *)
LoadRegistry(a) ==
    /\ pc[a] = "load"
    /\ \/ Loadable /\ Carry(a, "store", EnabledBuild)
       \/ ~Loadable /\ Goto(a, "idle")
    /\ UNCHANGED <<storeVars, recordVars, files, pins, workflowVars, using, affected, coreVars>>

StoreRegistry(a) ==
    /\ pc[a] = "store"
    /\ catalog' = target[a]
    /\ Goto(a, "idle")
    /\ UNCHANGED <<storeVars, recordVars, files, pins, workflowVars, using, affected, core, crashes>>

CreateWorkflow(w) ==
    /\ core = "up"
    /\ workflow[w] = "absent" /\ catalog # NoBuild
    /\ workflow' = [workflow EXCEPT ![w] = "enabled"]
    /\ UNCHANGED <<storeVars, recordVars, files, pins, blocked, using, procVars, coreVars>>

SetWorkflowStatus(w, to) ==
    /\ core = "up"
    /\ workflow[w] \notin {"absent", to}
    /\ to = "enabled" => ~Blocked(w)
    /\ workflow' = [workflow EXCEPT ![w] = to]
    /\ UNCHANGED <<storeVars, recordVars, files, pins, blocked, using, procVars, coreVars>>

-----------------------------------------------------------------------------
(* Crash and restart.                                                      *)

Crash ==
    /\ core # "down"
    /\ crashes < MaxCrashes
    /\ crashes' = crashes + 1
    /\ core' = "down"
    /\ catalog' = NoBuild
    /\ using' = [e \in Executions |-> NoBuild]
    /\ pc' = [p \in Procs |-> "idle"]
    /\ target' = [p \in Procs |-> NoBuild]
    /\ affected' = [p \in Procs |-> {}]
    /\ UNCHANGED <<storeVars, recordVars, files, pins, workflowVars>>

(* Startup recovers the executions, then reconciles, then loads.           *)
Restart(resumable) ==
    /\ core = "down"
    /\ RecoverIncompleteExecutions(resumable)
    /\ ReleasePins
    /\ core' = "reconciling"
    /\ Goto(Startup, "observe")
    /\ UNCHANGED <<recordVars, files, workflowVars, using, affected, catalog, crashes>>

(* Recovered executions get the registry startup has built.                *)
FinishStartup ==
    /\ core = "reconciling" /\ pc[Startup] = "idle"
    /\ Loadable
    /\ core' = "up"
    /\ catalog' = EnabledBuild
    /\ using' = [e \in Executions |->
                    IF status[e] = "queued" THEN EnabledBuild ELSE NoBuild]
    /\ UNCHANGED <<storeVars, recordVars, files, pins, workflowVars, procVars, crashes>>

StartupFails ==
    /\ core = "reconciling" /\ pc[Startup] = "idle"
    /\ ~Loadable
    /\ core' = "down"
    /\ UNCHANGED <<storeVars, recordVars, files, pins, workflowVars, using, procVars,
                   catalog, crashes>>

-----------------------------------------------------------------------------
(* What a process does once it was started.                                *)
ProcStep(p) ==
    \/ Publish(p)
    \/ PublishTooLate(p)
    \/ ObservePending(p)
    \/ CountPins(p)
    \/ RecheckPins(p)
    \/ Lookup(p)
    \/ DeleteFiles(p)
    \/ DeleteFails(p)
    \/ Finalize(p)
    \/ MarkFailed(p)
    \/ Place(p)
    \/ Upsert(p)
    \/ UpsertRefused(p)
    \/ LoadRegistry(p)
    \/ StoreRegistry(p)

ExecutionStep(e) ==
    \/ Prepare(e)
    \/ AdmitCanonical(e)
    \/ AdmitLegacy(e)
    \/ RefuseAdmission(e)
    \/ Claim(e)
    \/ \E outcome \in Releasing : Finish(e, outcome)
    \/ Cancel(e)

AdminRequest(a) ==
    \/ Review(a)
    \/ Resume(a)
    \/ \E b \in Installable : StartCommit(a, b)
    \/ \E on \in BOOLEAN : SetPluginEnabled(a, on)
    \/ RemovePluginInstall(a)

Next ==
    \/ \E p \in Procs : ProcStep(p)
    \/ \E e \in Executions : ExecutionStep(e)
    \/ \E a \in Admins : AdminRequest(a)
    \/ \E w \in Workflows : CreateWorkflow(w)
    \/ \E w \in Workflows, to \in {"enabled", "disabled"} : SetWorkflowStatus(w, to)
    \/ Crash
    \/ \E resumable \in SUBSET Executions : Restart(resumable)
    \/ FinishStartup
    \/ StartupFails

Spec == Init /\ [][Next]_vars

(* A handler or worker that was started runs on, and an execution has a    *)
(* deadline: it claims its slot when it can and ends.                      *)
Fairness ==
    /\ \A p \in Procs : WF_vars(ProcStep(p))
    /\ \A e \in Executions :
          /\ WF_vars(Claim(e))
          /\ WF_vars(\E outcome \in Releasing : Finish(e, outcome))
    /\ WF_vars(FinishStartup)

FairSpec == Spec /\ Fairness

-----------------------------------------------------------------------------
(* Properties.                                                             *)

(* "A pin prevents Core-managed replacement and direct deletion while an   *)
(* execution holds it" (docs/storage-schema-17.md), read on the record: an *)
(* execution admitted canonically holds a pin as long as it is incomplete, *)
(* and the record of a pinned build is neither replaced nor dropped,       *)
(* however removals, commits, deletions and restarts interleave.           *)
PinProtectsRecord ==
    \A e \in Executions :
        /\ e \notin Legacy /\ status[e] \in Incomplete => pins[e] # NoBuild
        /\ pins[e] # NoBuild => installed = pins[e]

(* The same sentence read on the package: the files of a pinned build stay. *)
PinnedContentKept ==
    \A e \in Executions : pins[e] # NoBuild => files[pins[e]] = "intact"

(* load_installed_plugin_registry fails startup when an enabled record     *)
(* does not load: an enabled record always has its package.                *)
EnabledRecordLoads == Loadable

(* Packages stay where records and executions need them.                   *)
ContentKept == PinnedContentKept /\ EnabledRecordLoads

(* A workflow the barrier disabled is not enabled again before the removal *)
(* completes, by any request or restart.                                   *)
BlockedStaysDisabled == \A w \in blocked : workflow[w] = "disabled"

(* "Retries pending removals after startup and terminal execution          *)
(* transitions" (plugin_services.rs): a pending removal completes or fails *)
(* visibly once the executions that hold it up are over.                   *)
RemovalSettles == Pending ~> ~Pending
=============================================================================
