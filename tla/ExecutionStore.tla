--------------------------- MODULE ExecutionStore ---------------------------
(***************************************************************************)
(* The `executions' table of src/src/store.rs and the SQLite transactions  *)
(* that change a row of it.  Every operator below with primed variables is *)
(* one transaction: with_connection holds the connection mutex around it,  *)
(* so it is atomic whatever the threads of the Core process do.            *)
(*                                                                         *)
(* An element of Executions is the UUID a row is created with.  The plan   *)
(* stored with the row is immutable, so what a plan says about concurrency *)
(* is a function of the execution and not of its workflow: two revisions   *)
(* of one workflow may carry different limits at the same time.            *)
(***************************************************************************)
EXTENDS Naturals, FiniteSets

CONSTANTS
    Executions,   \* execution ids
    Workflows,    \* workflow ids
    WorkflowOf,   \* the workflow_name column of each execution
    Limited,      \* executions whose plan sets policy.concurrency.maxRuns
    MaxRuns,      \* that limit (irrelevant outside Limited)
    Queueing,     \* executions whose plan says overflow: queue
    MaxQueued     \* policy.concurrency.maxQueued (irrelevant outside Queueing)

ASSUME ExecutionsFinite == IsFiniteSet(Executions)

ASSUME PlanAssumption ==
    /\ WorkflowOf \in [Executions -> Workflows]
    /\ Limited \subseteq Executions
    /\ Queueing \subseteq Executions
    /\ MaxRuns \in [Executions -> Nat \ {0}]
    /\ MaxQueued \in [Executions -> Nat]

VARIABLES
    status,       \* the status column; "absent" before INSERT, "deleted" after retention
    completedAt   \* whether completed_at is set

storeVars == <<status, completedAt>>

Occupying == {"running", "cancelling"}
Incomplete == {"queued"} \cup Occupying
Ended == {"succeeded", "failed", "cancelled", "timed_out", "interrupted"}
Statuses == {"absent", "deleted"} \cup Incomplete \cup Ended

StoreTypeOK ==
    /\ status \in [Executions -> Statuses]
    /\ completedAt \in [Executions -> BOOLEAN]

StoreInit ==
    /\ status = [e \in Executions |-> "absent"]
    /\ completedAt = [e \in Executions |-> FALSE]

-----------------------------------------------------------------------------
(* Admission.                                                              *)

Rows(w, S) == {e \in Executions : WorkflowOf[e] = w /\ status[e] \in S}

(* Mutant of HasRoom: the limit is taken to be inclusive.                  *)
MutRoomInclusive(e) ==
    e \in Limited => Cardinality(Rows(WorkflowOf[e], Occupying)) <= MaxRuns[e]

(* Room for one more run of e's workflow, by the limit e's own plan carries. *)
HasRoom(e) ==
    e \in Limited => Cardinality(Rows(WorkflowOf[e], Occupying)) < MaxRuns[e]

HasQueueRoom(e) ==
    /\ e \in Queueing
    /\ Cardinality(Rows(WorkflowOf[e], {"queued"})) < MaxQueued[e]

(* execution_admission: the status a new row gets, or no row at all.       *)
AdmissionStatus(e) ==
    IF HasRoom(e) THEN "running" ELSE IF HasQueueRoom(e) THEN "queued" ELSE "rejected"

InsertExecution(e) ==
    /\ status[e] = "absent"
    /\ AdmissionStatus(e) # "rejected"
    /\ status' = [status EXCEPT ![e] = AdmissionStatus(e)]
    /\ UNCHANGED completedAt

(* Mutant of CanClaim: claims without counting the runs.                   *)
MutClaimUncounted(e) == status[e] = "queued"

(* claim_execution_slot: true when the row moved to running.               *)
CanClaim(e) == status[e] = "queued" /\ HasRoom(e)

ClaimExecutionSlot(e) ==
    /\ CanClaim(e)
    /\ status' = [status EXCEPT ![e] = "running"]
    /\ UNCHANGED completedAt

-----------------------------------------------------------------------------
(* Completion and cancellation.                                            *)

(* finish_execution: a row that already ended is left as it is.            *)
FinishExecution(e, outcome) ==
    IF status[e] \in Incomplete
    THEN /\ status' = [status EXCEPT ![e] = outcome]
         /\ completedAt' = [completedAt EXCEPT ![e] = TRUE]
    ELSE UNCHANGED storeVars

(* Mutant of RequestExecutionCancel: a queued row is asked to cancel.      *)
MutCancelQueuedCooperatively(e) ==
    /\ status[e] \in {"queued", "running"}
    /\ status' = [status EXCEPT ![e] = "cancelling"]
    /\ UNCHANGED completedAt

(* Mutant of RequestExecutionCancel: the statuses of the UPDATE are gone.  *)
MutCancelAnyRow(e) ==
    /\ status[e] \notin {"absent", "deleted"}
    /\ status' = [status EXCEPT ![e] =
                     IF @ = "queued" THEN "cancelled" ELSE "cancelling"]
    /\ UNCHANGED completedAt

(* request_execution_cancel, behind POST /api/v1/executions/{id}/cancel.   *)
RequestExecutionCancel(e) ==
    /\ status[e] \in {"queued", "running"}
    /\ status' = [status EXCEPT ![e] =
                     IF @ = "queued" THEN "cancelled" ELSE "cancelling"]
    /\ UNCHANGED completedAt

(* request_execution_cancel_outcome, behind the management API.            *)
RequestExecutionCancelOutcome(e) ==
    \/ /\ status[e] = "queued"
       /\ status' = [status EXCEPT ![e] = "cancelled"]
       /\ completedAt' = [completedAt EXCEPT ![e] = TRUE]
    \/ /\ status[e] = "running"
       /\ status' = [status EXCEPT ![e] = "cancelling"]
       /\ UNCHANGED completedAt

ExecutionCancelRequested(e) == status[e] \in {"cancelling", "cancelled"}

-----------------------------------------------------------------------------
(* Startup recovery and retention.                                         *)

(* The status recovery gives a row; `resumable' is the set of executions   *)
(* none of whose checkpoints is an uncertain effect.                       *)
RecoveredStatus(e, resumable) ==
    CASE status[e] = "cancelling" -> "cancelled"
      [] status[e] = "running" /\ e \in resumable -> "queued"
      [] status[e] = "running" /\ e \notin resumable -> "interrupted"
      [] OTHER -> status[e]

(* recover_incomplete_executions: one transaction over all occupying rows. *)
RecoverIncompleteExecutions(resumable) ==
    /\ status' = [e \in Executions |-> RecoveredStatus(e, resumable)]
    /\ completedAt' = [e \in Executions |->
           IF status[e] \in Occupying
           THEN RecoveredStatus(e, resumable) # "queued"
           ELSE completedAt[e]]

(* apply_retention deletes the rows that carry a completion time older than *)
(* the horizon and are not pinned; `expired' is that choice.                *)
ApplyRetention(expired) ==
    /\ expired # {}
    /\ \A e \in expired : completedAt[e] /\ status[e] # "deleted"
    /\ status' = [e \in Executions |-> IF e \in expired THEN "deleted" ELSE status[e]]
    /\ UNCHANGED completedAt

=============================================================================
