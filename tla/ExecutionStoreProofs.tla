------------------------ MODULE ExecutionStoreProofs ------------------------
(* Facts about the transactions of ExecutionStore that the proofs of the    *)
(* modules built on it share.                                               *)
EXTENDS ExecutionStore, FiniteSetTheorems, TLAPS

(* A row of executions is created running or queued.                       *)
LEMMA AdmissionStatusType ==
    \A e \in Executions :
        AdmissionStatus(e) # "rejected" => AdmissionStatus(e) \in {"running", "queued"}
  BY DEF AdmissionStatus

(* Recovery leaves no row occupying a slot.                                *)
LEMMA RecoveredStatusType ==
    ASSUME StoreTypeOK, NEW e \in Executions, NEW S
    PROVE  /\ RecoveredStatus(e, S) \in Statuses
           /\ RecoveredStatus(e, S) \notin Occupying
  BY DEF RecoveredStatus, StoreTypeOK, Statuses, Occupying, Incomplete, Ended

(* The rows of a workflow can be counted.                                  *)
LEMMA RowsFinite ==
    \A w, S : IsFiniteSet(Rows(w, S)) /\ Cardinality(Rows(w, S)) \in Nat
  BY ExecutionsFinite, FS_Subset, FS_CardinalityType DEF Rows

(* Each transaction keeps the table in its type.                           *)
LEMMA InsertType ==
    ASSUME StoreTypeOK, NEW e \in Executions, InsertExecution(e)
    PROVE  StoreTypeOK'
  BY AdmissionStatusType DEF StoreTypeOK, InsertExecution, Statuses, Incomplete, Occupying

LEMMA RecoverType ==
    ASSUME StoreTypeOK, NEW S, RecoverIncompleteExecutions(S)
    PROVE  StoreTypeOK'
  <1>1. status' \in [Executions -> Statuses]
    BY RecoveredStatusType DEF RecoverIncompleteExecutions
  <1>2. completedAt' \in [Executions -> BOOLEAN]
    BY DEF RecoverIncompleteExecutions, StoreTypeOK
  <1> QED BY <1>1, <1>2 DEF StoreTypeOK

LEMMA FinishType ==
    ASSUME StoreTypeOK, NEW e \in Executions, NEW o \in Ended, FinishExecution(e, o)
    PROVE  StoreTypeOK'
  BY DEF StoreTypeOK, FinishExecution, Statuses, storeVars

LEMMA CancelType ==
    ASSUME StoreTypeOK, NEW e \in Executions,
           RequestExecutionCancel(e) \/ RequestExecutionCancelOutcome(e)
    PROVE  StoreTypeOK'
  BY DEF StoreTypeOK, RequestExecutionCancel, RequestExecutionCancelOutcome, Statuses,
         Incomplete, Occupying, Ended
=============================================================================
