------------------------- MODULE CoreExecutionProofs -------------------------
(***************************************************************************)
(* Proofs about CoreExecution, for every value of its constants: types,    *)
(* agreement of workers and rows, ownership, effects, concurrency, and     *)
(* what becomes of an execution: it always has a driver, its idempotency   *)
(* key names it, and it ends once.  At the end CoreExecution is shown to   *)
(* implement ExecutionContract.                                            *)
(***************************************************************************)
EXTENDS CoreExecution, ExecutionStoreProofs

-----------------------------------------------------------------------------
(* Types.                                                                  *)

(* A worker that left the graph carries an outcome out of it; finishing the *)
(* row with it is well typed for that reason.                               *)
LeavingCarriesOutcome ==
    \A e \in Executions : worker[e] = "leaving" => outcome[e] # "none"

(* Every step keeps every variable in its type.                            *)
LEMMA TypeStep == TypeOK /\ LeavingCarriesOutcome /\ [Next]_vars => TypeOK'
  <1> SUFFICES ASSUME TypeOK, LeavingCarriesOutcome, [Next]_vars PROVE TypeOK'
    OBVIOUS
  <1> USE NodeAssumption, BoundAssumption DEF TypeOK, StoreTypeOK, Statuses, Incomplete, Occupying, Ended, 
        CheckpointStatuses, Phases, WorkerPhases, ControlErrors, Outcomes, Stages, Identities
  <1>1. CASE StartCore BY <1>1 DEF StartCore, durableVars, workVars, historyVars
  <1>2. CASE Recover
    <2>1. status' \in [Executions -> Statuses]
      BY <1>2, RecoveredStatusType DEF Recover, RecoverIncompleteExecutions
    <2>2. completedAt' \in [Executions -> BOOLEAN]
      BY <1>2 DEF Recover, RecoverIncompleteExecutions
    <2> QED BY <2>1, <2>2, <1>2 DEF Recover, workVars, historyVars
  <1>3. CASE MarkReady BY <1>3 DEF MarkReady, durableVars, workVars, historyVars
  <1>4. CASE StartupFails BY <1>4 DEF StartupFails, durableVars, workVars, historyVars
  <1>5. CASE \E e \in Executions : SpawnRecovered(e)
    BY <1>5 DEF SpawnRecovered, durableVars, workVars, historyVars
  <1>6. CASE BeginStopping BY <1>6 DEF BeginStopping, durableVars, workVars, historyVars
  <1>7. CASE ReleaseAfterDrain BY <1>7 DEF ReleaseAfterDrain, durableVars, workVars, historyVars
  <1>8. CASE Crash BY <1>8 DEF Crash, durableVars
  <1>9. ASSUME NEW e \in Executions, NEW id \in Identities, Submit(e, id) PROVE TypeOK'
    BY <1>9 DEF Submit, historyVars
  <1>10. ASSUME NEW e \in Executions, CancelLegacy(e) PROVE TypeOK'
    BY <1>10 DEF CancelLegacy, RequestExecutionCancel, workVars, historyVars
  <1>11. ASSUME NEW e \in Executions, CancelManaged(e) PROVE TypeOK'
    BY <1>11 DEF CancelManaged, RequestExecutionCancelOutcome, workVars, historyVars
  <1>12. ASSUME NEW e \in Executions, Admit(e) PROVE TypeOK'
    <2>1. status' \in [Executions -> Statuses] /\ completedAt' \in [Executions -> BOOLEAN]
      BY <1>12, AdmissionStatusType DEF Admit, InsertExecution
    <2>2. idempotency' \in [Keys -> (Hashes \X Executions) \cup {NoIdentity}]
      BY <1>12 DEF Admit
    <2> QED BY <2>1, <2>2, <1>12 DEF Admit, historyVars
  <1>13. ASSUME NEW e \in Executions, RefuseAdmission(e) PROVE TypeOK'
    BY <1>13 DEF RefuseAdmission, historyVars
  <1>14. ASSUME NEW e \in Executions, Claim(e) PROVE TypeOK'
    BY <1>14 DEF Claim, ClaimExecutionSlot, historyVars
  <1>15. ASSUME NEW e \in Executions, PollCancelled(e) PROVE TypeOK'
    BY <1>15 DEF PollCancelled, FinishExecution, storeVars, historyVars
  <1>16. ASSUME NEW e \in Executions, PollShutdown(e) PROVE TypeOK'
    BY <1>16 DEF PollShutdown, durableVars, historyVars
  <1>17. ASSUME NEW e \in Executions, NEW batch \in SUBSET Nodes, LaunchBatch(e, batch) PROVE TypeOK'
    BY <1>17 DEF LaunchBatch, durableVars, historyVars
  <1>18. ASSUME NEW e \in Executions, NEW n \in Nodes, NodeStep(e, n) PROVE TypeOK'
    <2>1. CASE ReuseCheckpoint(e, n) BY <2>1 DEF ReuseCheckpoint, durableVars, historyVars
    <2>2. CASE BeginNode(e, n) BY <2>2 DEF BeginNode, historyVars
    <2>3. CASE Act(e, n) BY <2>3 DEF Act, durableVars
    <2>4. CASE RetryNode(e, n) BY <2>4 DEF RetryNode, durableVars, historyVars
    <2>5. CASE CompleteNode(e, n) BY <2>5 DEF CompleteNode, historyVars
    <2>6. CASE FailNode(e, n) BY <2>6 DEF FailNode, ControlError, durableVars, historyVars
    <2> QED BY <1>18, <2>1, <2>2, <2>3, <2>4, <2>5, <2>6 DEF NodeStep
  <1>19. ASSUME NEW e \in Executions, LeaveGraph(e) PROVE TypeOK'
    BY <1>19 DEF LeaveGraph, ControlError, durableVars, historyVars
  <1>20. ASSUME NEW e \in Executions, FinishWorker(e) PROVE TypeOK'
    BY <1>20 DEF FinishWorker, EndWorker, FinishExecution, storeVars, historyVars, LeavingCarriesOutcome
  <1>21. ASSUME NEW e \in Executions, StoreFault(e) PROVE TypeOK'
    BY <1>21 DEF StoreFault, EndWorker, durableVars
  <1>22. ASSUME NEW expired \in SUBSET Executions, Retain(expired) PROVE TypeOK'
    BY <1>22 DEF Retain, ApplyRetention, workVars, historyVars
  <1>23. CASE UNCHANGED vars BY <1>23 DEF vars, durableVars, workVars, historyVars
  <1> QED
    BY <1>1, <1>2, <1>3, <1>4, <1>5, <1>6, <1>7, <1>8, <1>9, <1>10, <1>11, <1>12, <1>13,
       <1>14, <1>15, <1>16, <1>17, <1>18, <1>19, <1>20, <1>21, <1>22, <1>23
       DEF Next, CoreStep, ClientStep, WorkerStep

LEMMA TypeInit == Init => TypeOK
  BY DEF Init, StoreInit, NoWork, TypeOK, StoreTypeOK, Statuses, Incomplete, Occupying, Ended,
         CheckpointStatuses, Phases, WorkerPhases, ControlErrors, Outcomes, Stages, Identities

-----------------------------------------------------------------------------
(* Workers and rows.                                                       *)

(* Only a starting or ready Core has recovered executions to spawn; none   *)
(* of them has a worker yet, and nobody but a canceller touched its row.   *)
SpawnShape ==
    /\ core \in {"down", "recovering", "stopping"} => toSpawn = {}
    /\ \A e \in toSpawn : worker[e] = "none" /\ status[e] \in {"queued", "cancelled"}

RowShape == WorkerMatchesRow /\ SpawnShape /\ OwnershipCoversWork

LEMMA RowShapeStep == TypeOK /\ RowShape /\ [Next]_vars => RowShape'
  <1> SUFFICES ASSUME TypeOK, RowShape, [Next]_vars PROVE RowShape'
    OBVIOUS
  <1> USE DEF RowShape, WorkerMatchesRow, SpawnShape, OwnershipCoversWork, Drained, TypeOK,
              StoreTypeOK, Statuses, Incomplete, Occupying, Ended, Phases, WorkerPhases
  <1>1. CASE StartCore
    BY <1>1 DEF StartCore, durableVars, workVars, historyVars
  <1>2. CASE Recover
    BY <1>2, RecoveredStatusType DEF Recover, workVars, historyVars, RecoverIncompleteExecutions
  <1>3. CASE MarkReady
    BY <1>3 DEF MarkReady, durableVars, workVars, historyVars
  <1>4. CASE StartupFails
    BY <1>4 DEF StartupFails, durableVars, workVars, historyVars
  <1>5. ASSUME NEW e \in Executions, SpawnRecovered(e) PROVE RowShape'
    BY <1>5 DEF SpawnRecovered, durableVars, workVars, historyVars
  <1>6. CASE BeginStopping
    BY <1>6 DEF BeginStopping, durableVars, workVars, historyVars
  <1>7. CASE ReleaseAfterDrain
    BY <1>7 DEF ReleaseAfterDrain, durableVars, workVars, historyVars
  <1>8. CASE Crash
    BY <1>8 DEF Crash, durableVars
  <1>9. ASSUME NEW e \in Executions, NEW id \in Identities, Submit(e, id) PROVE RowShape'
    BY <1>9 DEF Submit, historyVars, Accepting
  <1>10. ASSUME NEW e \in Executions, CancelLegacy(e) PROVE RowShape'
    BY <1>10 DEF CancelLegacy, RequestExecutionCancel, workVars, historyVars, Serving
  <1>11. ASSUME NEW e \in Executions, CancelManaged(e) PROVE RowShape'
    BY <1>11 DEF CancelManaged, RequestExecutionCancelOutcome, workVars, historyVars, Serving
  <1>12. ASSUME NEW e \in Executions, Admit(e) PROVE RowShape'
    BY <1>12, AdmissionStatusType DEF Admit, InsertExecution, historyVars
  <1>13. ASSUME NEW e \in Executions, RefuseAdmission(e) PROVE RowShape'
    BY <1>13 DEF RefuseAdmission, historyVars
  <1>14. ASSUME NEW e \in Executions, Claim(e) PROVE RowShape'
    BY <1>14 DEF Claim, ClaimExecutionSlot, CanClaim, historyVars
  <1>15. ASSUME NEW e \in Executions, PollCancelled(e) PROVE RowShape'
    BY <1>15 DEF PollCancelled, FinishExecution, storeVars, historyVars, ExecutionCancelRequested
  <1>16. ASSUME NEW e \in Executions, PollShutdown(e) PROVE RowShape'
    BY <1>16 DEF PollShutdown, durableVars, historyVars
  <1>17. ASSUME NEW e \in Executions, NEW batch \in SUBSET Nodes, LaunchBatch(e, batch)
        PROVE  RowShape'
    BY <1>17 DEF LaunchBatch, durableVars, historyVars
  <1>18. ASSUME NEW e \in Executions, NEW n \in Nodes, ReuseCheckpoint(e, n) PROVE RowShape'
    BY <1>18 DEF ReuseCheckpoint, durableVars, historyVars
  <1>19. ASSUME NEW e \in Executions, NEW n \in Nodes, BeginNode(e, n) PROVE RowShape'
    BY <1>19 DEF BeginNode, historyVars
  <1>20. ASSUME NEW e \in Executions, NEW n \in Nodes, Act(e, n) PROVE RowShape'
    BY <1>20 DEF Act, durableVars
  <1>21. ASSUME NEW e \in Executions, NEW n \in Nodes, RetryNode(e, n) PROVE RowShape'
    BY <1>21 DEF RetryNode, durableVars, historyVars
  <1>22. ASSUME NEW e \in Executions, NEW n \in Nodes, CompleteNode(e, n) PROVE RowShape'
    BY <1>22 DEF CompleteNode, historyVars
  <1>23. ASSUME NEW e \in Executions, NEW n \in Nodes, FailNode(e, n) PROVE RowShape'
    BY <1>23 DEF FailNode, durableVars, historyVars
  <1>24. ASSUME NEW e \in Executions, LeaveGraph(e) PROVE RowShape'
    BY <1>24 DEF LeaveGraph, durableVars, historyVars
  <1>25. ASSUME NEW e \in Executions, FinishWorker(e) PROVE RowShape'
    BY <1>25 DEF FinishWorker, EndWorker, FinishExecution, storeVars, historyVars
  <1>26. ASSUME NEW e \in Executions, StoreFault(e) PROVE RowShape'
    BY <1>26 DEF StoreFault, EndWorker, durableVars
  <1>27. ASSUME NEW expired \in SUBSET Executions, Retain(expired) PROVE RowShape'
    BY <1>27 DEF Retain, ApplyRetention, workVars, historyVars
  <1>28. CASE UNCHANGED vars
    BY <1>28 DEF vars, durableVars, workVars, historyVars
  <1> QED
    BY <1>1, <1>2, <1>3, <1>4, <1>5, <1>6, <1>7, <1>8, <1>9, <1>10, <1>11, <1>12, <1>13,
       <1>14, <1>15, <1>16, <1>17, <1>18, <1>19, <1>20, <1>21, <1>22, <1>23, <1>24,
       <1>25, <1>26, <1>27, <1>28 DEF Next, CoreStep, ClientStep, WorkerStep, NodeStep

LEMMA RowShapeInit == Init => RowShape
  BY DEF Init, NoWork, RowShape, WorkerMatchesRow, SpawnShape, OwnershipCoversWork, Drained

-----------------------------------------------------------------------------
(* The volatile state of a worker.                                         *)

(* Outside the graph a worker has no node in progress; inside it a node    *)
(* that has not begun has made no attempt, and one that may act has an     *)
(* attempt left.                                                           *)
WorkShape ==
    \A e \in Executions :
        /\ worker[e] \notin {"executing", "leaving"} =>
              outcome[e] = "none" /\ \A n \in Nodes : stage[e][n] = "idle"
        /\ worker[e] = "leaving" =>
              outcome[e] # "none" /\ \A n \in Nodes : stage[e][n] \in {"idle", "settled"}
        /\ \A n \in Nodes :
              /\ stage[e][n] \in {"idle", "ready"} => tries[e][n] = 0
              /\ stage[e][n] = "begun" => tries[e][n] < MaxAttempts[n]
              /\ tries[e][n] <= MaxAttempts[n]

LEMMA WorkShapeStep == TypeOK /\ RowShape /\ WorkShape /\ [Next]_vars => WorkShape'
  <1> SUFFICES ASSUME TypeOK, RowShape, WorkShape, [Next]_vars PROVE WorkShape'
    OBVIOUS
  <1> USE NodeAssumption DEF WorkShape, TypeOK, Stages, WorkerPhases, Outcomes
  <1>1. CASE StartCore
    BY <1>1 DEF StartCore, durableVars, workVars, historyVars
  <1>2. CASE Recover
    BY <1>2 DEF Recover, workVars, historyVars
  <1>3. CASE MarkReady
    BY <1>3 DEF MarkReady, durableVars, workVars, historyVars
  <1>4. CASE StartupFails
    BY <1>4 DEF StartupFails, durableVars, workVars, historyVars
  <1>5. ASSUME NEW e \in Executions, SpawnRecovered(e) PROVE WorkShape'
    BY <1>5 DEF SpawnRecovered, durableVars, workVars, historyVars, RowShape, SpawnShape
  <1>6. CASE BeginStopping
    BY <1>6 DEF BeginStopping, durableVars, workVars, historyVars
  <1>7. CASE ReleaseAfterDrain
    BY <1>7 DEF ReleaseAfterDrain, durableVars, workVars, historyVars
  <1>8. CASE Crash
    BY <1>8 DEF Crash, durableVars
  <1>9. ASSUME NEW e \in Executions, NEW id \in Identities, Submit(e, id) PROVE WorkShape'
    BY <1>9 DEF Submit, historyVars
  <1>10. ASSUME NEW e \in Executions, CancelLegacy(e) PROVE WorkShape'
    BY <1>10 DEF CancelLegacy, RequestExecutionCancel, workVars, historyVars
  <1>11. ASSUME NEW e \in Executions, CancelManaged(e) PROVE WorkShape'
    BY <1>11 DEF CancelManaged, RequestExecutionCancelOutcome, workVars, historyVars
  <1>12. ASSUME NEW e \in Executions, Admit(e) PROVE WorkShape'
    BY <1>12 DEF Admit, InsertExecution, historyVars
  <1>13. ASSUME NEW e \in Executions, RefuseAdmission(e) PROVE WorkShape'
    BY <1>13 DEF RefuseAdmission, historyVars
  <1>14. ASSUME NEW e \in Executions, Claim(e) PROVE WorkShape'
    BY <1>14 DEF Claim, ClaimExecutionSlot, CanClaim, historyVars
  <1>15. ASSUME NEW e \in Executions, PollCancelled(e) PROVE WorkShape'
    BY <1>15 DEF PollCancelled, FinishExecution, storeVars, historyVars
  <1>16. ASSUME NEW e \in Executions, PollShutdown(e) PROVE WorkShape'
    BY <1>16 DEF PollShutdown, durableVars, historyVars
  <1>17. ASSUME NEW e \in Executions, NEW batch \in SUBSET Nodes, LaunchBatch(e, batch)
        PROVE  WorkShape'
    BY <1>17 DEF LaunchBatch, durableVars, historyVars, InFlight
  <1>18. ASSUME NEW e \in Executions, NEW n \in Nodes, ReuseCheckpoint(e, n) PROVE WorkShape'
    BY <1>18 DEF ReuseCheckpoint, durableVars, historyVars
  <1>19. ASSUME NEW e \in Executions, NEW n \in Nodes, BeginNode(e, n) PROVE WorkShape'
    BY <1>19 DEF BeginNode, historyVars
  <1>20. ASSUME NEW e \in Executions, NEW n \in Nodes, Act(e, n) PROVE WorkShape'
    BY <1>20 DEF Act, durableVars
  <1>21. ASSUME NEW e \in Executions, NEW n \in Nodes, RetryNode(e, n) PROVE WorkShape'
    BY <1>21 DEF RetryNode, durableVars, historyVars
  <1>22. ASSUME NEW e \in Executions, NEW n \in Nodes, CompleteNode(e, n) PROVE WorkShape'
    BY <1>22 DEF CompleteNode, historyVars
  <1>23. ASSUME NEW e \in Executions, NEW n \in Nodes, FailNode(e, n) PROVE WorkShape'
    BY <1>23 DEF FailNode, durableVars, historyVars, ControlError, ControlErrors
  <1>24. ASSUME NEW e \in Executions, LeaveGraph(e) PROVE WorkShape'
    BY <1>24 DEF LeaveGraph, durableVars, historyVars, ControlError, InFlight
  <1>25. ASSUME NEW e \in Executions, FinishWorker(e) PROVE WorkShape'
    BY <1>25 DEF FinishWorker, EndWorker, FinishExecution, storeVars, historyVars
  <1>26. ASSUME NEW e \in Executions, StoreFault(e) PROVE WorkShape'
    BY <1>26 DEF StoreFault, EndWorker, durableVars
  <1>27. ASSUME NEW expired \in SUBSET Executions, Retain(expired) PROVE WorkShape'
    BY <1>27 DEF Retain, ApplyRetention, workVars, historyVars
  <1>28. CASE UNCHANGED vars
    BY <1>28 DEF vars, durableVars, workVars, historyVars
  <1> QED
    BY <1>1, <1>2, <1>3, <1>4, <1>5, <1>6, <1>7, <1>8, <1>9, <1>10, <1>11, <1>12, <1>13,
       <1>14, <1>15, <1>16, <1>17, <1>18, <1>19, <1>20, <1>21, <1>22, <1>23, <1>24,
       <1>25, <1>26, <1>27, <1>28 DEF Next, CoreStep, ClientStep, WorkerStep, NodeStep

LEMMA WorkShapeInit == Init => WorkShape
  BY NodeAssumption DEF Init, NoWork, WorkShape

-----------------------------------------------------------------------------
(* The part of the inductive invariant every other proof builds on.        *)

Shape == TypeOK /\ RowShape /\ WorkShape

LEMMA ShapeInvariant == Spec => []Shape
  <1>1. Init => Shape
    BY TypeInit, RowShapeInit, WorkShapeInit DEF Shape
  <1>2. Shape /\ [Next]_vars => Shape'
    BY TypeStep, RowShapeStep, WorkShapeStep DEF Shape, WorkShape, LeavingCarriesOutcome
  <1> QED
    BY <1>1, <1>2, PTL DEF Spec

(* Every reachable state is well typed: each variable of the specification *)
(* keeps to its columns, phases and counters, the status column included,  *)
(* which a worker writes from the outcome it carries.                      *)
THEOREM TypeCorrect == Spec => []TypeOK
  BY ShapeInvariant, PTL DEF Shape

(* A polling worker finds its row queued or cancelled and one in the graph *)
(* finds it running or cancelling, whatever cancellations, recoveries and  *)
(* other workers interleave with it.                                       *)
THEOREM WorkersMatchRows == Spec => []WorkerMatchesRow
  BY ShapeInvariant, PTL DEF Shape, RowShape

(* No worker outlives the ownership of the data directory, and recovery    *)
(* never rewrites the row of a live worker.                                *)
THEOREM OwnershipCovers == Spec => []OwnershipCoversWork
  BY ShapeInvariant, PTL DEF Shape, RowShape

-----------------------------------------------------------------------------
(* Effects and checkpoints.                                                *)

(* Why an effect is not repeated.  A node that acted has left the marks    *)
(* "none" and "waiting" behind for as long as the row exists; a queued row *)
(* has no uncertain mark, so a worker in the graph meets one only at a     *)
(* node it began itself; and while a node is in progress its effects are   *)
(* attempts of this very worker.                                           *)
EffectShapeAt(e, n) ==
    /\ status[e] = "absent" => checkpoint[e][n] = "none"
    /\ status[e] # "deleted" /\ checkpoint[e][n] \in {"none", "waiting"} => effects[e][n] = 0
    /\ status[e] = "queued" => checkpoint[e][n] \notin Uncertain
    /\ worker[e] = "executing" /\ stage[e][n] \in {"idle", "ready"} =>
          checkpoint[e][n] \notin Uncertain
    /\ stage[e][n] \in {"begun", "acted"} =>
          /\ effects[e][n] <= tries[e][n]
          /\ n \notin Replayable => checkpoint[e][n] = "running"
    /\ n \in Replayable => effects[e][n] = 0
    /\ effects[e][n] <= MaxAttempts[n]

EffectShape == \A e \in Executions, n \in Nodes : EffectShapeAt(e, n)

(* A node in progress belongs to a worker in the graph, on a row that is   *)
(* running or being cancelled.                                             *)
LEMMA InProgress ==
    ASSUME Shape, NEW e \in Executions, NEW n \in Nodes,
           stage[e][n] \in {"ready", "begun", "acted"}
    PROVE  worker[e] = "executing" /\ status[e] \in Occupying
  BY DEF Shape, TypeOK, WorkerPhases, WorkShape, RowShape, WorkerMatchesRow

LEMMA EffectShapeStep == Shape /\ EffectShape /\ [Next]_vars => EffectShape'
  <1> SUFFICES ASSUME Shape, EffectShape, [Next]_vars PROVE EffectShape'
    OBVIOUS
  <1> USE NodeAssumption DEF EffectShape, EffectShapeAt, Shape, TypeOK, Uncertain, CheckpointStatuses, Stages, WorkerPhases
  <1>1. CASE StartCore
    BY <1>1 DEF StartCore, durableVars, workVars, historyVars
  <1>2. CASE Recover
    BY <1>2 DEF Recover, workVars, historyVars, RecoverIncompleteExecutions, RecoveredStatus, Resumable, RowShape, OwnershipCoversWork, Drained, StoreTypeOK, Statuses, Incomplete, Occupying, Ended
  <1>3. CASE MarkReady
    BY <1>3 DEF MarkReady, durableVars, workVars, historyVars
  <1>4. CASE StartupFails
    BY <1>4 DEF StartupFails, durableVars, workVars, historyVars
  <1>5. ASSUME NEW e \in Executions, SpawnRecovered(e) PROVE EffectShape'
    BY <1>5 DEF SpawnRecovered, durableVars, workVars, historyVars, RowShape, SpawnShape, WorkShape
  <1>6. CASE BeginStopping
    BY <1>6 DEF BeginStopping, durableVars, workVars, historyVars
  <1>7. CASE ReleaseAfterDrain
    BY <1>7 DEF ReleaseAfterDrain, durableVars, workVars, historyVars
  <1>8. CASE Crash
    BY <1>8 DEF Crash, durableVars
  <1>9. ASSUME NEW e \in Executions, NEW id \in Identities, Submit(e, id) PROVE EffectShape'
    BY <1>9 DEF Submit, historyVars
  <1>10. ASSUME NEW e \in Executions, CancelLegacy(e) PROVE EffectShape'
    BY <1>10 DEF CancelLegacy, RequestExecutionCancel, workVars, historyVars, StoreTypeOK
  <1>11. ASSUME NEW e \in Executions, CancelManaged(e) PROVE EffectShape'
    BY <1>11 DEF CancelManaged, RequestExecutionCancelOutcome, workVars, historyVars, StoreTypeOK
  <1>12. ASSUME NEW e \in Executions, Admit(e) PROVE EffectShape'
    BY <1>12, AdmissionStatusType DEF Admit, InsertExecution, historyVars, RowShape, WorkerMatchesRow, StoreTypeOK
  <1>13. ASSUME NEW e \in Executions, RefuseAdmission(e) PROVE EffectShape'
    BY <1>13 DEF RefuseAdmission, historyVars
  <1>14. ASSUME NEW e \in Executions, Claim(e) PROVE EffectShape'
    BY <1>14 DEF Claim, ClaimExecutionSlot, CanClaim, historyVars, WorkShape, StoreTypeOK
  <1>15. ASSUME NEW e \in Executions, PollCancelled(e) PROVE EffectShape'
    BY <1>15 DEF PollCancelled, FinishExecution, storeVars, historyVars, ExecutionCancelRequested, StoreTypeOK
  <1>16. ASSUME NEW e \in Executions, PollShutdown(e) PROVE EffectShape'
    BY <1>16 DEF PollShutdown, durableVars, historyVars
  <1>17. ASSUME NEW e \in Executions, NEW batch \in SUBSET Nodes, LaunchBatch(e, batch)
        PROVE  EffectShape'
    BY <1>17 DEF LaunchBatch, durableVars, historyVars
  <1>18. ASSUME NEW e \in Executions, NEW n \in Nodes, ReuseCheckpoint(e, n) PROVE EffectShape'
    BY <1>18 DEF ReuseCheckpoint, durableVars, historyVars
  <1>19. ASSUME NEW e \in Executions, NEW n \in Nodes, BeginNode(e, n) PROVE EffectShape'
    <2>1. worker[e] = "executing" /\ status[e] \in {"running", "cancelling"}
      BY <1>19, InProgress DEF BeginNode, Occupying
    <2> SUFFICES ASSUME NEW x \in Executions, NEW m \in Nodes PROVE EffectShapeAt(x, m)'
      BY DEF EffectShape
    <2>2. CASE x = e /\ m = n
      BY <1>19, <2>1, <2>2 DEF BeginNode, historyVars, WorkShape
    <2>3. CASE ~(x = e /\ m = n)
      BY <1>19, <2>3 DEF BeginNode, historyVars
    <2> QED BY <2>2, <2>3
  <1>20. ASSUME NEW e \in Executions, NEW n \in Nodes, Act(e, n) PROVE EffectShape'
    BY <1>20 DEF Act, durableVars, WorkShape, RowShape, WorkerMatchesRow, StoreTypeOK, Statuses, Incomplete, Occupying, Ended
  <1>21. ASSUME NEW e \in Executions, NEW n \in Nodes, RetryNode(e, n) PROVE EffectShape'
    BY <1>21 DEF RetryNode, durableVars, historyVars
  <1>22. ASSUME NEW e \in Executions, NEW n \in Nodes, CompleteNode(e, n) PROVE EffectShape'
    <2>1. worker[e] = "executing" /\ status[e] \in {"running", "cancelling"}
      BY <1>22, InProgress DEF CompleteNode, Occupying
    <2> SUFFICES ASSUME NEW x \in Executions, NEW m \in Nodes PROVE EffectShapeAt(x, m)'
      BY DEF EffectShape
    <2>2. CASE x = e /\ m = n
      BY <1>22, <2>1, <2>2 DEF CompleteNode, historyVars, WorkShape
    <2>3. CASE ~(x = e /\ m = n)
      BY <1>22, <2>3 DEF CompleteNode, historyVars
    <2> QED BY <2>2, <2>3
  <1>23. ASSUME NEW e \in Executions, NEW n \in Nodes, FailNode(e, n) PROVE EffectShape'
    BY <1>23 DEF FailNode, durableVars, historyVars
  <1>24. ASSUME NEW e \in Executions, LeaveGraph(e) PROVE EffectShape'
    BY <1>24 DEF LeaveGraph, durableVars, historyVars
  <1>25. ASSUME NEW e \in Executions, FinishWorker(e) PROVE EffectShape'
    <2>1. status[e] \in Occupying /\ outcome[e] # "none"
      BY <1>25 DEF FinishWorker, RowShape, WorkerMatchesRow, WorkShape
    <2>2. status'[e] # "absent" /\ status'[e] # "queued" /\ status'[e] # "deleted"
      BY <1>25, <2>1 DEF FinishWorker, FinishExecution, storeVars, Outcomes, ControlErrors, StoreTypeOK, Statuses, Incomplete, Occupying, Ended
    <2> SUFFICES ASSUME NEW x \in Executions, NEW m \in Nodes PROVE EffectShapeAt(x, m)'
      BY DEF EffectShape
    <2>3. CASE x = e
      BY <1>25, <2>1, <2>2, <2>3 DEF FinishWorker, EndWorker, historyVars, Occupying
    <2>4. CASE x # e
      BY <1>25, <2>4 DEF FinishWorker, EndWorker, FinishExecution, storeVars, historyVars, StoreTypeOK
    <2> QED BY <2>3, <2>4
  <1>26. ASSUME NEW e \in Executions, StoreFault(e) PROVE EffectShape'
    BY <1>26 DEF StoreFault, EndWorker, durableVars
  <1>27. ASSUME NEW expired \in SUBSET Executions, Retain(expired) PROVE EffectShape'
    <2> SUFFICES ASSUME NEW x \in Executions, NEW m \in Nodes PROVE EffectShapeAt(x, m)'
      BY DEF EffectShape
    <2>1. CASE x \in expired
      BY <1>27, <2>1 DEF Retain, ApplyRetention, workVars, historyVars, WorkShape
    <2>2. CASE x \notin expired
      BY <1>27, <2>2 DEF Retain, ApplyRetention, workVars, historyVars
    <2> QED BY <2>1, <2>2
  <1>28. CASE UNCHANGED vars
    BY <1>28 DEF vars, durableVars, workVars, historyVars
  <1> QED
    BY <1>1, <1>2, <1>3, <1>4, <1>5, <1>6, <1>7, <1>8, <1>9, <1>10, <1>11, <1>12, <1>13,
       <1>14, <1>15, <1>16, <1>17, <1>18, <1>19, <1>20, <1>21, <1>22, <1>23, <1>24,
       <1>25, <1>26, <1>27, <1>28 DEF Next, CoreStep, ClientStep, WorkerStep, NodeStep

LEMMA EffectShapeInit == Init => EffectShape
  BY NodeAssumption DEF Init, StoreInit, NoWork, EffectShape, EffectShapeAt, Uncertain

(* No crash, restart or resumed worker repeats an effect: over the whole   *)
(* life of an execution a node acts at most as often as its retry policy   *)
(* lets a single worker try.                                               *)
THEOREM EffectsNeverRepeated == Spec => []EffectsBounded
  <1>1. Init => EffectShape
    BY EffectShapeInit
  <1>2. Shape /\ EffectShape /\ [Next]_vars => EffectShape'
    BY EffectShapeStep
  <1>3. EffectShape => EffectsBounded
    BY DEF EffectShape, EffectShapeAt, EffectsBounded
  <1> QED
    BY <1>1, <1>2, <1>3, ShapeInvariant, PTL DEF Spec

-----------------------------------------------------------------------------
(* Concurrency.                                                            *)

(* The runs of x's workflow whose own limit is no larger than x's.         *)
Crowd(x) ==
    {e \in Rows(WorkflowOf[x], Occupying) \cap Limited : MaxRuns[e] <= MaxRuns[x]}

(* No execution starts to occupy a slot, or exactly `a' does and had room. *)
NoneStarts == \A e \in Executions : status'[e] \in Occupying => status[e] \in Occupying

OnlyStarts(a) ==
    /\ HasRoom(a)
    /\ \A e \in Executions \ {a} : status'[e] \in Occupying => status[e] \in Occupying

(* Only the admission transaction and a claim give out slots, one at a     *)
(* time, and both have counted the slots in use.                           *)
LEMMA SlotsStep ==
    Shape /\ [Next]_vars => NoneStarts \/ \E a \in Executions : OnlyStarts(a)
  <1> DEFINE Goal == NoneStarts \/ \E a \in Executions : OnlyStarts(a)
  <1> SUFFICES ASSUME Shape, [Next]_vars PROVE Goal
    OBVIOUS
  <1> USE DEF NoneStarts, OnlyStarts, Shape, TypeOK, StoreTypeOK, Occupying
  <1>1. CASE StartCore
    BY <1>1 DEF StartCore, durableVars, workVars, historyVars
  <1>2. CASE Recover
    BY <1>2, RecoveredStatusType DEF Recover, workVars, historyVars, RecoverIncompleteExecutions
  <1>3. CASE MarkReady
    BY <1>3 DEF MarkReady, durableVars, workVars, historyVars
  <1>4. CASE StartupFails
    BY <1>4 DEF StartupFails, durableVars, workVars, historyVars
  <1>5. ASSUME NEW e \in Executions, SpawnRecovered(e) PROVE Goal
    BY <1>5 DEF SpawnRecovered, durableVars, workVars, historyVars
  <1>6. CASE BeginStopping
    BY <1>6 DEF BeginStopping, durableVars, workVars, historyVars
  <1>7. CASE ReleaseAfterDrain
    BY <1>7 DEF ReleaseAfterDrain, durableVars, workVars, historyVars
  <1>8. CASE Crash
    BY <1>8 DEF Crash, durableVars
  <1>9. ASSUME NEW e \in Executions, NEW id \in Identities, Submit(e, id) PROVE Goal
    BY <1>9 DEF Submit, historyVars
  <1>10. ASSUME NEW e \in Executions, CancelLegacy(e) PROVE Goal
    BY <1>10 DEF CancelLegacy, RequestExecutionCancel, workVars, historyVars
  <1>11. ASSUME NEW e \in Executions, CancelManaged(e) PROVE Goal
    BY <1>11 DEF CancelManaged, RequestExecutionCancelOutcome, workVars, historyVars
  <1>12. ASSUME NEW e \in Executions, Admit(e) PROVE Goal
    BY <1>12, AdmissionStatusType DEF Admit, InsertExecution, historyVars, AdmissionStatus
  <1>13. ASSUME NEW e \in Executions, RefuseAdmission(e) PROVE Goal
    BY <1>13 DEF RefuseAdmission, historyVars
  <1>14. ASSUME NEW e \in Executions, Claim(e) PROVE Goal
    BY <1>14 DEF Claim, ClaimExecutionSlot, CanClaim, historyVars
  <1>15. ASSUME NEW e \in Executions, PollCancelled(e) PROVE Goal
    BY <1>15 DEF PollCancelled, FinishExecution, storeVars, historyVars
  <1>16. ASSUME NEW e \in Executions, PollShutdown(e) PROVE Goal
    BY <1>16 DEF PollShutdown, durableVars, historyVars
  <1>17. ASSUME NEW e \in Executions, NEW batch \in SUBSET Nodes, LaunchBatch(e, batch)
        PROVE  Goal
    BY <1>17 DEF LaunchBatch, durableVars, historyVars
  <1>18. ASSUME NEW e \in Executions, NEW n \in Nodes, ReuseCheckpoint(e, n) PROVE Goal
    BY <1>18 DEF ReuseCheckpoint, durableVars, historyVars
  <1>19. ASSUME NEW e \in Executions, NEW n \in Nodes, BeginNode(e, n) PROVE Goal
    BY <1>19 DEF BeginNode, historyVars
  <1>20. ASSUME NEW e \in Executions, NEW n \in Nodes, Act(e, n) PROVE Goal
    BY <1>20 DEF Act, durableVars
  <1>21. ASSUME NEW e \in Executions, NEW n \in Nodes, RetryNode(e, n) PROVE Goal
    BY <1>21 DEF RetryNode, durableVars, historyVars
  <1>22. ASSUME NEW e \in Executions, NEW n \in Nodes, CompleteNode(e, n) PROVE Goal
    BY <1>22 DEF CompleteNode, historyVars
  <1>23. ASSUME NEW e \in Executions, NEW n \in Nodes, FailNode(e, n) PROVE Goal
    BY <1>23 DEF FailNode, durableVars, historyVars
  <1>24. ASSUME NEW e \in Executions, LeaveGraph(e) PROVE Goal
    BY <1>24 DEF LeaveGraph, durableVars, historyVars
  <1>25. ASSUME NEW e \in Executions, FinishWorker(e) PROVE Goal
    <2>1. outcome[e] \notin Occupying
      BY DEF Outcomes, ControlErrors
    <2>2. UNCHANGED storeVars \/ FinishExecution(e, outcome[e])
      BY <1>25 DEF FinishWorker
    <2> QED BY <2>1, <2>2 DEF FinishExecution, storeVars
  <1>26. ASSUME NEW e \in Executions, StoreFault(e) PROVE Goal
    BY <1>26 DEF StoreFault, EndWorker, durableVars
  <1>27. ASSUME NEW expired \in SUBSET Executions, Retain(expired) PROVE Goal
    BY <1>27 DEF Retain, ApplyRetention, workVars, historyVars
  <1>28. CASE UNCHANGED vars
    BY <1>28 DEF vars, durableVars, workVars, historyVars
  <1> QED
    BY <1>1, <1>2, <1>3, <1>4, <1>5, <1>6, <1>7, <1>8, <1>9, <1>10, <1>11, <1>12, <1>13,
       <1>14, <1>15, <1>16, <1>17, <1>18, <1>19, <1>20, <1>21, <1>22, <1>23, <1>24,
       <1>25, <1>26, <1>27, <1>28 DEF Next, CoreStep, ClientStep, WorkerStep, NodeStep

LEMMA CrowdFinite ==
    ASSUME NEW x \in Limited
    PROVE  IsFiniteSet(Crowd(x)) /\ Cardinality(Crowd(x)) \in Nat
  BY RowsFinite, FS_Subset, FS_CardinalityType DEF Crowd

LEMMA ConcurrencyStep ==
    TypeOK /\ ConcurrencyBound /\ (NoneStarts \/ \E a \in Executions : OnlyStarts(a))
        => ConcurrencyBound'
  <1> SUFFICES ASSUME TypeOK, ConcurrencyBound,
                      NoneStarts \/ \E a \in Executions : OnlyStarts(a),
                      NEW x \in Limited
               PROVE  Cardinality(Crowd(x)') <= MaxRuns[x]
    BY DEF ConcurrencyBound, Crowd, Rows
  <1>1. MaxRuns[x] \in Nat /\ Cardinality(Crowd(x)) <= MaxRuns[x]
    BY PlanAssumption DEF ConcurrencyBound, Crowd
  <1>2. IsFiniteSet(Crowd(x)) /\ Cardinality(Crowd(x)) \in Nat
    BY CrowdFinite
  <1>3. CASE Crowd(x)' \subseteq Crowd(x)
    <2>1. Cardinality(Crowd(x)') <= Cardinality(Crowd(x)) /\ IsFiniteSet(Crowd(x)')
      BY <1>2, <1>3, FS_Subset
    <2>2. Cardinality(Crowd(x)') \in Nat
      BY <2>1, FS_CardinalityType
    <2> QED BY <2>1, <2>2, <1>1, <1>2
  <1>4. CASE NoneStarts
    <2>1. Crowd(x)' \subseteq Crowd(x)
      BY <1>4 DEF NoneStarts, Crowd, Rows
    <2> QED BY <2>1, <1>3
  <1>5. ASSUME NEW a \in Executions, OnlyStarts(a), ~(Crowd(x)' \subseteq Crowd(x))
        PROVE  Cardinality(Crowd(x)') <= MaxRuns[x]
    <2>1. /\ Crowd(x)' \subseteq Crowd(x) \cup {a}
          /\ a \in Limited /\ WorkflowOf[a] = WorkflowOf[x] /\ MaxRuns[a] <= MaxRuns[x]
      BY <1>5 DEF OnlyStarts, Crowd, Rows
    <2>2. Cardinality(Rows(WorkflowOf[a], Occupying)) < MaxRuns[a]
      BY <1>5, <2>1 DEF OnlyStarts, HasRoom
    <2>3. Cardinality(Crowd(x)) <= Cardinality(Rows(WorkflowOf[a], Occupying))
      BY <2>1, RowsFinite, FS_Subset DEF Crowd
    <2>4. /\ IsFiniteSet(Crowd(x) \cup {a})
          /\ Cardinality(Crowd(x) \cup {a}) <= Cardinality(Crowd(x)) + 1
      <3>1. /\ IsFiniteSet(Crowd(x) \cup {a})
            /\ \/ Cardinality(Crowd(x) \cup {a}) = Cardinality(Crowd(x))
               \/ Cardinality(Crowd(x) \cup {a}) = Cardinality(Crowd(x)) + 1
        BY <1>2, FS_AddElement, Zenon
      <3> QED BY <3>1, <1>2
    <2>5. /\ Cardinality(Crowd(x) \cup {a}) \in Nat
          /\ Cardinality(Crowd(x)') <= Cardinality(Crowd(x) \cup {a})
          /\ IsFiniteSet(Crowd(x)')
      BY <2>1, <2>4, FS_Subset, FS_CardinalityType
    <2>6. Cardinality(Crowd(x)') \in Nat
      BY <2>5, FS_CardinalityType
    <2>7. MaxRuns[a] \in Nat /\ Cardinality(Rows(WorkflowOf[a], Occupying)) \in Nat
      BY PlanAssumption, RowsFinite
    <2> QED BY <2>1, <2>2, <2>3, <2>4, <2>5, <2>6, <2>7, <1>1, <1>2
  <1> QED BY <1>3, <1>4, <1>5

(* Initially no execution occupies a slot.                                 *)
LEMMA ConcurrencyInit == Init => ConcurrencyBound
  <1> SUFFICES ASSUME Init, NEW x \in Limited PROVE Cardinality(Crowd(x)) <= MaxRuns[x]
    BY DEF ConcurrencyBound, Crowd
  <1>1. Crowd(x) = {}
    BY DEF Init, StoreInit, Crowd, Rows, Occupying
  <1> QED BY <1>1, FS_EmptySet, PlanAssumption

(* The maxRuns limit of a plan holds at all times, for any mixture of      *)
(* workflow revisions, any number of executions, crashes and restarts.     *)
THEOREM ConcurrencyLimited == Spec => []ConcurrencyBound
  <1>1. Shape /\ ConcurrencyBound /\ [Next]_vars => ConcurrencyBound'
    BY SlotsStep, ConcurrencyStep DEF Shape
  <1> QED BY <1>1, ConcurrencyInit, ShapeInvariant, PTL DEF Spec

-----------------------------------------------------------------------------
(* Drivers.                                                                *)

(* RowHasDriver already holds while Core is starting, when recovery has    *)
(* listed every queued row; and only a stopping Core has workers that will *)
(* leave their row behind.                                                 *)
DrivenAt(e) ==
    /\ core \in {"starting", "ready"} /\ status[e] \in Incomplete =>
           \/ worker[e] \in {"polling", "executing", "leaving"}
           \/ e \in toSpawn /\ worker[e] = "none"
           \/ e \in faulted
    /\ outcome[e] = "shutdown" => core = "stopping"

DriverShape == \A e \in Executions : DrivenAt(e)

LEMMA DriverStep == Shape /\ DriverShape /\ [Next]_vars => DriverShape'
  <1> SUFFICES ASSUME Shape, DriverShape, [Next]_vars, NEW x \in Executions
               PROVE  DrivenAt(x)'
    BY DEF DriverShape
  <1> DEFINE Goal == DrivenAt(x)'
  <1>0. DrivenAt(x) /\ TypeOK
    BY DEF DriverShape, Shape
  <1> USE <1>0 DEF DrivenAt, TypeOK, StoreTypeOK, Incomplete, Occupying
  <1>1. CASE StartCore
    BY <1>1 DEF StartCore, durableVars, workVars, historyVars, Shape, WorkShape
  <1>2. CASE Recover
    BY <1>2 DEF Recover, workVars, historyVars, RecoverIncompleteExecutions, RecoveredStatus, Shape, RowShape, WorkShape, OwnershipCoversWork, Drained
  <1>3. CASE MarkReady
    BY <1>3 DEF MarkReady, durableVars, workVars, historyVars
  <1>4. CASE StartupFails
    BY <1>4 DEF StartupFails, durableVars, workVars, historyVars
  <1>5. ASSUME NEW e \in Executions, SpawnRecovered(e) PROVE Goal
    BY <1>5 DEF SpawnRecovered, durableVars, workVars, historyVars
  <1>6. CASE BeginStopping
    BY <1>6 DEF BeginStopping, durableVars, workVars, historyVars
  <1>7. CASE ReleaseAfterDrain
    BY <1>7 DEF ReleaseAfterDrain, durableVars, workVars, historyVars, Drained, Shape, WorkShape
  <1>8. CASE Crash
    BY <1>8 DEF Crash, durableVars
  <1>9. ASSUME NEW e \in Executions, NEW id \in Identities, Submit(e, id) PROVE Goal
    BY <1>9 DEF Submit, historyVars, Shape, WorkShape
  <1>10. ASSUME NEW e \in Executions, CancelLegacy(e) PROVE Goal
    BY <1>10 DEF CancelLegacy, RequestExecutionCancel, workVars, historyVars
  <1>11. ASSUME NEW e \in Executions, CancelManaged(e) PROVE Goal
    BY <1>11 DEF CancelManaged, RequestExecutionCancelOutcome, workVars, historyVars
  <1>12. ASSUME NEW e \in Executions, Admit(e) PROVE Goal
    BY <1>12, AdmissionStatusType DEF Admit, InsertExecution, historyVars, AdmissionStatus
  <1>13. ASSUME NEW e \in Executions, RefuseAdmission(e) PROVE Goal
    BY <1>13 DEF RefuseAdmission, historyVars, Shape, RowShape, WorkerMatchesRow, Statuses, Ended
  <1>14. ASSUME NEW e \in Executions, Claim(e) PROVE Goal
    BY <1>14 DEF Claim, ClaimExecutionSlot, CanClaim, historyVars
  <1>15. ASSUME NEW e \in Executions, PollCancelled(e) PROVE Goal
    BY <1>15 DEF PollCancelled, FinishExecution, storeVars, historyVars
  <1>16. ASSUME NEW e \in Executions, PollShutdown(e) PROVE Goal
    BY <1>16 DEF PollShutdown, durableVars, historyVars, ShutdownRequested
  <1>17. ASSUME NEW e \in Executions, NEW batch \in SUBSET Nodes, LaunchBatch(e, batch)
        PROVE  Goal
    BY <1>17 DEF LaunchBatch, durableVars, historyVars
  <1>18. ASSUME NEW e \in Executions, NEW n \in Nodes, ReuseCheckpoint(e, n) PROVE Goal
    BY <1>18 DEF ReuseCheckpoint, durableVars, historyVars
  <1>19. ASSUME NEW e \in Executions, NEW n \in Nodes, BeginNode(e, n) PROVE Goal
    BY <1>19 DEF BeginNode, historyVars
  <1>20. ASSUME NEW e \in Executions, NEW n \in Nodes, Act(e, n) PROVE Goal
    BY <1>20 DEF Act, durableVars
  <1>21. ASSUME NEW e \in Executions, NEW n \in Nodes, RetryNode(e, n) PROVE Goal
    BY <1>21 DEF RetryNode, durableVars, historyVars
  <1>22. ASSUME NEW e \in Executions, NEW n \in Nodes, CompleteNode(e, n) PROVE Goal
    BY <1>22 DEF CompleteNode, historyVars
  <1>23. ASSUME NEW e \in Executions, NEW n \in Nodes, FailNode(e, n) PROVE Goal
    BY <1>23 DEF FailNode, durableVars, historyVars, ControlError, ShutdownRequested
  <1>24. ASSUME NEW e \in Executions, LeaveGraph(e) PROVE Goal
    BY <1>24 DEF LeaveGraph, durableVars, historyVars, ControlError, ShutdownRequested
  <1>25. ASSUME NEW e \in Executions, FinishWorker(e) PROVE Goal
    <2>1. CASE x # e
      BY <1>25, <2>1 DEF FinishWorker, EndWorker, FinishExecution, storeVars, historyVars
    <2>2. CASE x = e /\ outcome[e] = "shutdown"
      BY <1>25, <2>2 DEF FinishWorker, EndWorker
    <2>3. CASE x = e /\ outcome[e] # "shutdown"
      <3>1. outcome[e] \notin Incomplete
        BY DEF Outcomes, ControlErrors
      <3>2. FinishExecution(e, outcome[e])
        BY <1>25, <2>3 DEF FinishWorker
      <3>3. status'[e] \notin Incomplete
        BY <3>1, <3>2 DEF FinishExecution, storeVars
      <3> QED BY <1>25, <2>3, <3>3 DEF FinishWorker, EndWorker
    <2> QED BY <2>1, <2>2, <2>3
  <1>26. ASSUME NEW e \in Executions, StoreFault(e) PROVE Goal
    BY <1>26 DEF StoreFault, EndWorker, durableVars
  <1>27. ASSUME NEW expired \in SUBSET Executions, Retain(expired) PROVE Goal
    BY <1>27 DEF Retain, ApplyRetention, workVars, historyVars
  <1>28. CASE UNCHANGED vars
    BY <1>28 DEF vars, durableVars, workVars, historyVars
  <1> QED
    BY <1>1, <1>2, <1>3, <1>4, <1>5, <1>6, <1>7, <1>8, <1>9, <1>10, <1>11, <1>12, <1>13,
       <1>14, <1>15, <1>16, <1>17, <1>18, <1>19, <1>20, <1>21, <1>22, <1>23, <1>24,
       <1>25, <1>26, <1>27, <1>28 DEF Next, CoreStep, ClientStep, WorkerStep, NodeStep

LEMMA DriverInit == Init => DriverShape
  BY DEF Init, StoreInit, NoWork, DriverShape, DrivenAt

(* While Core is ready every incomplete execution has a worker, is about   *)
(* to be given one by the startup loop, or lost its worker to a store      *)
(* error: recovery and admission leave no orphan behind.                   *)
THEOREM RowsHaveDrivers == Spec => []RowHasDriver
  <1>1. DriverShape => RowHasDriver
    BY DEF DriverShape, DrivenAt, RowHasDriver
  <1> QED BY <1>1, DriverStep, DriverInit, ShapeInvariant, PTL DEF Spec

-----------------------------------------------------------------------------
(* Idempotency.                                                            *)

KeyNames(e) ==
    identity[e] # NoIdentity /\ status[e] \notin {"absent", "deleted"} =>
        idempotency[identity[e][1]] = <<identity[e][2], e>>

LEMMA KeyStep == Shape /\ OneExecutionPerKey /\ [Next]_vars => OneExecutionPerKey'
  <1> SUFFICES ASSUME Shape, OneExecutionPerKey, [Next]_vars, NEW x \in Executions
               PROVE  KeyNames(x)'
    BY DEF OneExecutionPerKey, KeyNames
  <1> DEFINE Goal == KeyNames(x)'
  <1>0. KeyNames(x) /\ TypeOK
    BY DEF OneExecutionPerKey, KeyNames, Shape
  <1> USE <1>0 DEF KeyNames, TypeOK, StoreTypeOK
  <1>1. CASE StartCore
    BY <1>1 DEF StartCore, durableVars, workVars, historyVars
  <1>2. CASE Recover
    BY <1>2 DEF Recover, workVars, historyVars, RecoverIncompleteExecutions, RecoveredStatus
  <1>3. CASE MarkReady
    BY <1>3 DEF MarkReady, durableVars, workVars, historyVars
  <1>4. CASE StartupFails
    BY <1>4 DEF StartupFails, durableVars, workVars, historyVars
  <1>5. ASSUME NEW e \in Executions, SpawnRecovered(e) PROVE Goal
    BY <1>5 DEF SpawnRecovered, durableVars, workVars, historyVars
  <1>6. CASE BeginStopping
    BY <1>6 DEF BeginStopping, durableVars, workVars, historyVars
  <1>7. CASE ReleaseAfterDrain
    BY <1>7 DEF ReleaseAfterDrain, durableVars, workVars, historyVars
  <1>8. CASE Crash
    BY <1>8 DEF Crash, durableVars
  <1>9. ASSUME NEW e \in Executions, NEW id \in Identities, Submit(e, id) PROVE Goal
    BY <1>9 DEF Submit, historyVars
  <1>10. ASSUME NEW e \in Executions, CancelLegacy(e) PROVE Goal
    BY <1>10 DEF CancelLegacy, RequestExecutionCancel, workVars, historyVars
  <1>11. ASSUME NEW e \in Executions, CancelManaged(e) PROVE Goal
    BY <1>11 DEF CancelManaged, RequestExecutionCancelOutcome, workVars, historyVars
  <1>12. ASSUME NEW e \in Executions, Admit(e) PROVE Goal
    <2>1. status[e] = "absent" /\ KeyUnused(e)
      BY <1>12 DEF Admit, InsertExecution
    <2>2. status' = [status EXCEPT ![e] = AdmissionStatus(e)] /\ identity' = identity
      BY <1>12 DEF Admit, InsertExecution
    <2>3. CASE identity[e] = NoIdentity
      BY <1>12, <2>2, <2>3 DEF Admit
    <2>4. CASE identity[e] # NoIdentity
      <3>1. idempotency' = [idempotency EXCEPT ![identity[e][1]] = <<identity[e][2], e>>]
        BY <1>12, <2>4 DEF Admit
      <3>2. identity[e][1] \in Keys /\ idempotency[identity[e][1]] = NoIdentity
        BY <2>1, <2>4 DEF KeyUnused, Identities
      <3>3. CASE x = e
        BY <2>2, <3>1, <3>2, <3>3
      <3>4. CASE x # e /\ identity[x] # NoIdentity /\ status[x] \notin {"absent", "deleted"}
        <4>1. <<identity[x][2], x>> \in Hashes \X Executions
          BY <3>4 DEF Identities
        <4>2. identity[x][1] # identity[e][1]
          BY <3>2, <3>4, <4>1, IdentityAssumption
        <4> QED BY <2>2, <3>1, <3>4, <4>2
      <3> QED BY <2>2, <3>3, <3>4
    <2> QED BY <2>3, <2>4
  <1>13. ASSUME NEW e \in Executions, RefuseAdmission(e) PROVE Goal
    BY <1>13 DEF RefuseAdmission, historyVars, Shape, RowShape, WorkerMatchesRow
  <1>14. ASSUME NEW e \in Executions, Claim(e) PROVE Goal
    BY <1>14 DEF Claim, ClaimExecutionSlot, CanClaim, historyVars
  <1>15. ASSUME NEW e \in Executions, PollCancelled(e) PROVE Goal
    BY <1>15 DEF PollCancelled, FinishExecution, storeVars, historyVars, Incomplete, Occupying
  <1>16. ASSUME NEW e \in Executions, PollShutdown(e) PROVE Goal
    BY <1>16 DEF PollShutdown, durableVars, historyVars
  <1>17. ASSUME NEW e \in Executions, NEW batch \in SUBSET Nodes, LaunchBatch(e, batch)
        PROVE  Goal
    BY <1>17 DEF LaunchBatch, durableVars, historyVars
  <1>18. ASSUME NEW e \in Executions, NEW n \in Nodes, ReuseCheckpoint(e, n) PROVE Goal
    BY <1>18 DEF ReuseCheckpoint, durableVars, historyVars
  <1>19. ASSUME NEW e \in Executions, NEW n \in Nodes, BeginNode(e, n) PROVE Goal
    BY <1>19 DEF BeginNode, historyVars
  <1>20. ASSUME NEW e \in Executions, NEW n \in Nodes, Act(e, n) PROVE Goal
    BY <1>20 DEF Act, durableVars
  <1>21. ASSUME NEW e \in Executions, NEW n \in Nodes, RetryNode(e, n) PROVE Goal
    BY <1>21 DEF RetryNode, durableVars, historyVars
  <1>22. ASSUME NEW e \in Executions, NEW n \in Nodes, CompleteNode(e, n) PROVE Goal
    BY <1>22 DEF CompleteNode, historyVars
  <1>23. ASSUME NEW e \in Executions, NEW n \in Nodes, FailNode(e, n) PROVE Goal
    BY <1>23 DEF FailNode, durableVars, historyVars
  <1>24. ASSUME NEW e \in Executions, LeaveGraph(e) PROVE Goal
    BY <1>24 DEF LeaveGraph, durableVars, historyVars
  <1>25. ASSUME NEW e \in Executions, FinishWorker(e) PROVE Goal
    BY <1>25 DEF FinishWorker, EndWorker, FinishExecution, storeVars, historyVars, Incomplete, Occupying
  <1>26. ASSUME NEW e \in Executions, StoreFault(e) PROVE Goal
    BY <1>26 DEF StoreFault, EndWorker, durableVars
  <1>27. ASSUME NEW expired \in SUBSET Executions, Retain(expired) PROVE Goal
    <2>1. CASE x \in expired
      BY <1>27, <2>1 DEF Retain, ApplyRetention
    <2>2. CASE x \notin expired /\ identity[x] # NoIdentity
               /\ status[x] \notin {"absent", "deleted"}
      <3>1. identity[x][1] \in Keys
        BY <2>2 DEF Identities
      <3>2. idempotency[identity[x][1]][2] = x
        BY <2>2
      <3>3. idempotency'[identity[x][1]] = idempotency[identity[x][1]]
        BY <1>27, <3>1, <3>2, <2>2 DEF Retain
      <3> QED BY <1>27, <3>3, <2>2 DEF Retain
    <2>3. x \notin expired => status'[x] = status[x]
      BY <1>27 DEF Retain, ApplyRetention
    <2> QED BY <1>27, <2>1, <2>2, <2>3 DEF Retain
  <1>28. CASE UNCHANGED vars
    BY <1>28 DEF vars, durableVars, workVars, historyVars
  <1> QED
    BY <1>1, <1>2, <1>3, <1>4, <1>5, <1>6, <1>7, <1>8, <1>9, <1>10, <1>11, <1>12, <1>13,
       <1>14, <1>15, <1>16, <1>17, <1>18, <1>19, <1>20, <1>21, <1>22, <1>23, <1>24,
       <1>25, <1>26, <1>27, <1>28 DEF Next, CoreStep, ClientStep, WorkerStep, NodeStep

(* However submissions with the same idempotency key race, at most one     *)
(* execution exists for the key and the stored record names it.            *)
THEOREM KeysNameOneExecution == Spec => []OneExecutionPerKey
  <1>1. Init => OneExecutionPerKey
    BY DEF Init, StoreInit, OneExecutionPerKey
  <1> QED BY <1>1, KeyStep, ShapeInvariant, PTL DEF Spec

-----------------------------------------------------------------------------
(* Ended executions.                                                       *)

Settled(e) ==
    status[e] \in Ended \cup {"deleted"} => status'[e] \in {status[e], "deleted"}

LEMMA EndedStep == Shape /\ [Next]_vars => \A e \in Executions : Settled(e)
  <1> SUFFICES ASSUME Shape, [Next]_vars, NEW x \in Executions PROVE Settled(x)
    OBVIOUS
  <1> DEFINE Goal == Settled(x)
  <1>0. TypeOK
    BY DEF Shape
  <1> USE <1>0 DEF Settled, TypeOK, StoreTypeOK, Ended
  <1>1. CASE StartCore
    BY <1>1 DEF StartCore, durableVars, workVars, historyVars
  <1>2. CASE Recover
    BY <1>2 DEF Recover, workVars, historyVars, RecoverIncompleteExecutions, RecoveredStatus
  <1>3. CASE MarkReady
    BY <1>3 DEF MarkReady, durableVars, workVars, historyVars
  <1>4. CASE StartupFails
    BY <1>4 DEF StartupFails, durableVars, workVars, historyVars
  <1>5. ASSUME NEW e \in Executions, SpawnRecovered(e) PROVE Goal
    BY <1>5 DEF SpawnRecovered, durableVars, workVars, historyVars
  <1>6. CASE BeginStopping
    BY <1>6 DEF BeginStopping, durableVars, workVars, historyVars
  <1>7. CASE ReleaseAfterDrain
    BY <1>7 DEF ReleaseAfterDrain, durableVars, workVars, historyVars
  <1>8. CASE Crash
    BY <1>8 DEF Crash, durableVars
  <1>9. ASSUME NEW e \in Executions, NEW id \in Identities, Submit(e, id) PROVE Goal
    BY <1>9 DEF Submit, historyVars
  <1>10. ASSUME NEW e \in Executions, CancelLegacy(e) PROVE Goal
    BY <1>10 DEF CancelLegacy, RequestExecutionCancel, workVars, historyVars
  <1>11. ASSUME NEW e \in Executions, CancelManaged(e) PROVE Goal
    BY <1>11 DEF CancelManaged, RequestExecutionCancelOutcome, workVars, historyVars
  <1>12. ASSUME NEW e \in Executions, Admit(e) PROVE Goal
    BY <1>12 DEF Admit, InsertExecution, historyVars
  <1>13. ASSUME NEW e \in Executions, RefuseAdmission(e) PROVE Goal
    BY <1>13 DEF RefuseAdmission, historyVars
  <1>14. ASSUME NEW e \in Executions, Claim(e) PROVE Goal
    BY <1>14 DEF Claim, ClaimExecutionSlot, CanClaim, historyVars
  <1>15. ASSUME NEW e \in Executions, PollCancelled(e) PROVE Goal
    BY <1>15 DEF PollCancelled, FinishExecution, storeVars, historyVars, Incomplete, Occupying
  <1>16. ASSUME NEW e \in Executions, PollShutdown(e) PROVE Goal
    BY <1>16 DEF PollShutdown, durableVars, historyVars
  <1>17. ASSUME NEW e \in Executions, NEW batch \in SUBSET Nodes, LaunchBatch(e, batch)
        PROVE  Goal
    BY <1>17 DEF LaunchBatch, durableVars, historyVars
  <1>18. ASSUME NEW e \in Executions, NEW n \in Nodes, ReuseCheckpoint(e, n) PROVE Goal
    BY <1>18 DEF ReuseCheckpoint, durableVars, historyVars
  <1>19. ASSUME NEW e \in Executions, NEW n \in Nodes, BeginNode(e, n) PROVE Goal
    BY <1>19 DEF BeginNode, historyVars
  <1>20. ASSUME NEW e \in Executions, NEW n \in Nodes, Act(e, n) PROVE Goal
    BY <1>20 DEF Act, durableVars
  <1>21. ASSUME NEW e \in Executions, NEW n \in Nodes, RetryNode(e, n) PROVE Goal
    BY <1>21 DEF RetryNode, durableVars, historyVars
  <1>22. ASSUME NEW e \in Executions, NEW n \in Nodes, CompleteNode(e, n) PROVE Goal
    BY <1>22 DEF CompleteNode, historyVars
  <1>23. ASSUME NEW e \in Executions, NEW n \in Nodes, FailNode(e, n) PROVE Goal
    BY <1>23 DEF FailNode, durableVars, historyVars
  <1>24. ASSUME NEW e \in Executions, LeaveGraph(e) PROVE Goal
    BY <1>24 DEF LeaveGraph, durableVars, historyVars
  <1>25. ASSUME NEW e \in Executions, FinishWorker(e) PROVE Goal
    BY <1>25 DEF FinishWorker, EndWorker, FinishExecution, storeVars, historyVars, Incomplete, Occupying
  <1>26. ASSUME NEW e \in Executions, StoreFault(e) PROVE Goal
    BY <1>26 DEF StoreFault, EndWorker, durableVars
  <1>27. ASSUME NEW expired \in SUBSET Executions, Retain(expired) PROVE Goal
    BY <1>27 DEF Retain, ApplyRetention, workVars, historyVars
  <1>28. CASE UNCHANGED vars
    BY <1>28 DEF vars, durableVars, workVars, historyVars
  <1> QED
    BY <1>1, <1>2, <1>3, <1>4, <1>5, <1>6, <1>7, <1>8, <1>9, <1>10, <1>11, <1>12, <1>13,
       <1>14, <1>15, <1>16, <1>17, <1>18, <1>19, <1>20, <1>21, <1>22, <1>23, <1>24,
       <1>25, <1>26, <1>27, <1>28 DEF Next, CoreStep, ClientStep, WorkerStep, NodeStep

(* An ended execution is never revived or relabelled, by any interleaving  *)
(* of workers, cancellations, recovery and retention.                      *)
THEOREM EndedStays == Spec => EndedForGood
  <1>1. Shape /\ [Next]_vars =>
           [\A e \in Executions : status[e] \in Ended \cup {"deleted"} =>
                                      status'[e] \in {status[e], "deleted"}]_vars
    BY EndedStep DEF Settled
  <1> QED BY <1>1, ShapeInvariant, PTL DEF Spec, EndedForGood

-----------------------------------------------------------------------------
(* CoreExecution implements ExecutionContract: the initial states map to   *)
(* its initial state and every step to one of its steps or to a stutter.   *)

Jobs == [e \in Executions |-> JobOf(status[e])]

ContractStep == [Contract!Next]_(Contract!contractVars)

(* What one transition of a row means for the jobs.                        *)
LEMMA JobChange ==
    ASSUME TypeOK, NEW a \in Executions, NEW v,
           status' = [status EXCEPT ![a] = v]
    PROVE  Jobs' = [Jobs EXCEPT ![a] = JobOf(v)]
  BY DEF Jobs, TypeOK, StoreTypeOK

LEMMA JobValues ==
    /\ JobOf("absent") = "new" /\ JobOf("queued") = "waiting"
    /\ JobOf("running") = "active" /\ JobOf("cancelling") = "active"
    /\ JobOf("deleted") = "gone"
    /\ \A s \in Ended : JobOf(s) = "done"
  BY DEF JobOf, Occupying, Ended

(* The jobs that are active are the rows that occupy a slot.               *)
LEMMA ActiveIsOccupying ==
    ASSUME TypeOK, NEW e \in Executions
    PROVE  /\ Jobs[e] = "active" <=> status[e] \in Occupying
           /\ Jobs[e] = "new" <=> status[e] = "absent"
           /\ Jobs[e] = "waiting" <=> status[e] = "queued"
           /\ Jobs[e] = "done" <=> status[e] \in Ended
           /\ Jobs[e] = "gone" <=> status[e] = "deleted"
  BY DEF Jobs, JobOf, TypeOK, StoreTypeOK, Statuses, Incomplete, Occupying, Ended

LEMMA RoomIsRoom ==
    ASSUME TypeOK, NEW e \in Executions
    PROVE  Contract!Room(e) <=> HasRoom(e)
  <1>1. \A w : Contract!ActiveJobs(w) = Rows(w, Occupying)
    BY ActiveIsOccupying DEF Contract!ActiveJobs, Jobs, Rows
  <1>2. \A S : Contract!Cardinality(S) = Cardinality(S)
    BY DEF Contract!Cardinality, Cardinality
  <1> QED BY <1>1, <1>2 DEF Contract!Room, HasRoom

(* A row carries a completion time only once it has ended, so retention    *)
(* purges only jobs that are done.                                         *)
Completed(e) == completedAt[e] => status[e] \in Ended \cup {"deleted"}
CompletionShape == \A e \in Executions : Completed(e)

LEMMA CompletionStep == Shape /\ CompletionShape /\ [Next]_vars => CompletionShape'
  <1> SUFFICES ASSUME Shape, CompletionShape, [Next]_vars, NEW x \in Executions
               PROVE  Completed(x)'
    BY DEF CompletionShape
  <1> DEFINE Goal == Completed(x)'
  <1>0. Completed(x) /\ TypeOK
    BY DEF CompletionShape, Shape
  <1> USE <1>0 DEF Completed, TypeOK, StoreTypeOK, Ended
  <1>1. CASE StartCore
    BY <1>1 DEF StartCore, durableVars, workVars, historyVars
  <1>2. CASE Recover
    BY <1>2 DEF Recover, workVars, historyVars, RecoverIncompleteExecutions, RecoveredStatus, Occupying
  <1>3. CASE MarkReady
    BY <1>3 DEF MarkReady, durableVars, workVars, historyVars
  <1>4. CASE StartupFails
    BY <1>4 DEF StartupFails, durableVars, workVars, historyVars
  <1>5. ASSUME NEW e \in Executions, SpawnRecovered(e) PROVE Goal
    BY <1>5 DEF SpawnRecovered, durableVars, workVars, historyVars
  <1>6. CASE BeginStopping
    BY <1>6 DEF BeginStopping, durableVars, workVars, historyVars
  <1>7. CASE ReleaseAfterDrain
    BY <1>7 DEF ReleaseAfterDrain, durableVars, workVars, historyVars
  <1>8. CASE Crash
    BY <1>8 DEF Crash, durableVars
  <1>9. ASSUME NEW e \in Executions, NEW id \in Identities, Submit(e, id) PROVE Goal
    BY <1>9 DEF Submit, historyVars
  <1>10. ASSUME NEW e \in Executions, CancelLegacy(e) PROVE Goal
    BY <1>10 DEF CancelLegacy, RequestExecutionCancel, workVars, historyVars
  <1>11. ASSUME NEW e \in Executions, CancelManaged(e) PROVE Goal
    BY <1>11 DEF CancelManaged, RequestExecutionCancelOutcome, workVars, historyVars
  <1>12. ASSUME NEW e \in Executions, Admit(e) PROVE Goal
    BY <1>12, AdmissionStatusType DEF Admit, InsertExecution, historyVars, Statuses
  <1>13. ASSUME NEW e \in Executions, RefuseAdmission(e) PROVE Goal
    BY <1>13 DEF RefuseAdmission, historyVars
  <1>14. ASSUME NEW e \in Executions, Claim(e) PROVE Goal
    BY <1>14 DEF Claim, ClaimExecutionSlot, CanClaim, historyVars
  <1>15. ASSUME NEW e \in Executions, PollCancelled(e) PROVE Goal
    BY <1>15 DEF PollCancelled, FinishExecution, storeVars, historyVars
  <1>16. ASSUME NEW e \in Executions, PollShutdown(e) PROVE Goal
    BY <1>16 DEF PollShutdown, durableVars, historyVars
  <1>17. ASSUME NEW e \in Executions, NEW batch \in SUBSET Nodes, LaunchBatch(e, batch)
        PROVE  Goal
    BY <1>17 DEF LaunchBatch, durableVars, historyVars
  <1>18. ASSUME NEW e \in Executions, NEW n \in Nodes, ReuseCheckpoint(e, n) PROVE Goal
    BY <1>18 DEF ReuseCheckpoint, durableVars, historyVars
  <1>19. ASSUME NEW e \in Executions, NEW n \in Nodes, BeginNode(e, n) PROVE Goal
    BY <1>19 DEF BeginNode, historyVars
  <1>20. ASSUME NEW e \in Executions, NEW n \in Nodes, Act(e, n) PROVE Goal
    BY <1>20 DEF Act, durableVars
  <1>21. ASSUME NEW e \in Executions, NEW n \in Nodes, RetryNode(e, n) PROVE Goal
    BY <1>21 DEF RetryNode, durableVars, historyVars
  <1>22. ASSUME NEW e \in Executions, NEW n \in Nodes, CompleteNode(e, n) PROVE Goal
    BY <1>22 DEF CompleteNode, historyVars
  <1>23. ASSUME NEW e \in Executions, NEW n \in Nodes, FailNode(e, n) PROVE Goal
    BY <1>23 DEF FailNode, durableVars, historyVars
  <1>24. ASSUME NEW e \in Executions, LeaveGraph(e) PROVE Goal
    BY <1>24 DEF LeaveGraph, durableVars, historyVars
  <1>25. ASSUME NEW e \in Executions, FinishWorker(e) PROVE Goal
    <2>1. outcome[e] # "shutdown" => outcome[e] \in Ended
      BY <1>25 DEF FinishWorker, Shape, TypeOK, WorkShape, Outcomes, ControlErrors, Ended
    <2>2. UNCHANGED storeVars \/ (FinishExecution(e, outcome[e]) /\ outcome[e] \in Ended)
      BY <1>25, <2>1 DEF FinishWorker
    <2> QED BY <2>2 DEF FinishExecution, storeVars
  <1>26. ASSUME NEW e \in Executions, StoreFault(e) PROVE Goal
    BY <1>26 DEF StoreFault, EndWorker, durableVars
  <1>27. ASSUME NEW expired \in SUBSET Executions, Retain(expired) PROVE Goal
    BY <1>27 DEF Retain, ApplyRetention, workVars, historyVars
  <1>28. CASE UNCHANGED vars
    BY <1>28 DEF vars, durableVars, workVars, historyVars
  <1> QED
    BY <1>1, <1>2, <1>3, <1>4, <1>5, <1>6, <1>7, <1>8, <1>9, <1>10, <1>11, <1>12, <1>13,
       <1>14, <1>15, <1>16, <1>17, <1>18, <1>19, <1>20, <1>21, <1>22, <1>23, <1>24,
       <1>25, <1>26, <1>27, <1>28 DEF Next, CoreStep, ClientStep, WorkerStep, NodeStep

LEMMA CompletionInit == Init => CompletionShape
  BY DEF Init, StoreInit, CompletionShape, Completed

LEMMA ContractStutter ==
    ASSUME status' = status, effects' = effects
    PROVE  ContractStep
  BY DEF ContractStep, Contract!contractVars

(* A row that ends is a job that finishes; a row that had ended stays.     *)
LEMMA FinishIsFinish ==
    ASSUME TypeOK, NEW e \in Executions, NEW v \in Ended,
           FinishExecution(e, v), effects' = effects
    PROVE  ContractStep
  <1>1. CASE status[e] \in Incomplete
    <2>1. Jobs' = [Jobs EXCEPT ![e] = "done"]
      BY <1>1, JobChange, JobValues DEF FinishExecution
    <2>2. Jobs[e] \in {"waiting", "active"}
      BY <1>1, ActiveIsOccupying DEF Incomplete
    <2> QED BY <2>1, <2>2 DEF Jobs, ContractStep, Contract!Next, Contract!Finish
  <1>2. CASE status[e] \notin Incomplete
    BY <1>2, ContractStutter DEF FinishExecution, storeVars
  <1> QED BY <1>1, <1>2

LEMMA CancelIsFinish ==
    ASSUME TypeOK, NEW e \in Executions, effects' = effects,
           \/ status[e] = "queued" /\ status' = [status EXCEPT ![e] = "cancelled"]
           \/ status[e] = "running" /\ status' = [status EXCEPT ![e] = "cancelling"]
    PROVE  ContractStep
  <1>1. CASE status[e] = "queued" /\ status' = [status EXCEPT ![e] = "cancelled"]
    <2>1. Jobs' = [Jobs EXCEPT ![e] = "done"]
      <3>1. Jobs' = [Jobs EXCEPT ![e] = JobOf("cancelled")]
        BY <1>1, JobChange
      <3> QED BY <3>1, JobValues DEF Ended
    <2>2. Jobs[e] = "waiting"
      BY <1>1, ActiveIsOccupying
    <2> QED BY <2>1, <2>2 DEF Jobs, ContractStep, Contract!Next, Contract!Finish
  <1>2. CASE status[e] = "running" /\ status' = [status EXCEPT ![e] = "cancelling"]
    <2>1. Jobs' = [Jobs EXCEPT ![e] = "active"]
      <3>1. Jobs' = [Jobs EXCEPT ![e] = JobOf("cancelling")]
        BY <1>2, JobChange
      <3> QED BY <3>1, JobValues
    <2>2. Jobs[e] = "active"
      BY <1>2, ActiveIsOccupying DEF Occupying
    <2>3. Jobs' = Jobs
      BY <2>1, <2>2 DEF Jobs
    <2> QED BY <2>3 DEF Jobs, ContractStep, Contract!contractVars
  <1> QED BY <1>1, <1>2

LEMMA StepImplements ==
    Shape /\ EffectShape /\ CompletionShape /\ [Next]_vars => ContractStep
  <1> SUFFICES ASSUME Shape, EffectShape, CompletionShape, [Next]_vars
               PROVE  ContractStep
    OBVIOUS
  <1>0. TypeOK
    BY DEF Shape
  <1>1. CASE StartCore
    BY <1>1, ContractStutter DEF StartCore, durableVars, historyVars
  <1>2. CASE Recover
    <2>1. Jobs' = [e \in Executions |-> IF Jobs[e] # "active" THEN Jobs[e]
                       ELSE IF e \in Resumable /\ status[e] = "running" THEN "waiting" ELSE "done"]
      <3> SUFFICES ASSUME NEW e \in Executions
                   PROVE  Jobs'[e] = IF Jobs[e] # "active" THEN Jobs[e]
                              ELSE IF e \in Resumable /\ status[e] = "running"
                                   THEN "waiting" ELSE "done"
        BY DEF Jobs
      <3>1. status'[e] = RecoveredStatus(e, Resumable)
        BY <1>2 DEF Recover, RecoverIncompleteExecutions
      <3>2. Jobs'[e] = JobOf(status'[e]) /\ Jobs[e] = JobOf(status[e])
        BY DEF Jobs
      <3>3. CASE status[e] \in Occupying
        BY <1>0, <3>1, <3>2, <3>3, JobValues, ActiveIsOccupying
           DEF RecoveredStatus, Occupying, Ended
      <3>4. CASE status[e] \notin Occupying
        BY <1>0, <3>1, <3>2, <3>4, ActiveIsOccupying DEF RecoveredStatus, Occupying
      <3> QED BY <3>3, <3>4
    <2>2. effects' = effects
      BY <1>2 DEF Recover, historyVars
    <2> DEFINE again == {e \in Resumable : status[e] = "running"}
    <2>3. again \in SUBSET Executions
      BY DEF Resumable
    <2>4. Contract!Restart(again)
      BY <2>1, <2>2 DEF Contract!Restart, Jobs
    <2> QED BY <2>3, <2>4 DEF ContractStep, Contract!Next
  <1>3. CASE MarkReady
    BY <1>3, ContractStutter DEF MarkReady, durableVars, historyVars
  <1>4. CASE StartupFails
    BY <1>4, ContractStutter DEF StartupFails, durableVars, historyVars
  <1>5. ASSUME NEW e \in Executions, SpawnRecovered(e) PROVE ContractStep
    BY <1>5, ContractStutter DEF SpawnRecovered, durableVars, historyVars
  <1>6. CASE BeginStopping
    BY <1>6, ContractStutter DEF BeginStopping, durableVars, historyVars
  <1>7. CASE ReleaseAfterDrain
    BY <1>7, ContractStutter DEF ReleaseAfterDrain, durableVars, historyVars
  <1>8. CASE Crash
    BY <1>8, ContractStutter DEF Crash, durableVars
  <1>9. ASSUME NEW e \in Executions, NEW id \in Identities, Submit(e, id) PROVE ContractStep
    BY <1>9, ContractStutter DEF Submit, historyVars
  <1>10. ASSUME NEW e \in Executions, CancelLegacy(e) PROVE ContractStep
    BY <1>10, <1>0, CancelIsFinish DEF CancelLegacy, RequestExecutionCancel, historyVars
  <1>11. ASSUME NEW e \in Executions, CancelManaged(e) PROVE ContractStep
    BY <1>11, <1>0, CancelIsFinish
       DEF CancelManaged, RequestExecutionCancelOutcome, historyVars
  <1>12. ASSUME NEW e \in Executions, Admit(e) PROVE ContractStep
    <2>1. Jobs[e] = "new" /\ effects' = effects
      BY <1>12, <1>0, ActiveIsOccupying DEF Admit, InsertExecution, historyVars
    <2>2. Jobs' = [Jobs EXCEPT ![e] = JobOf(AdmissionStatus(e))]
      BY <1>12, <1>0, JobChange DEF Admit, InsertExecution
    <2>3. JobOf(AdmissionStatus(e)) = IF Contract!Room(e) THEN "active" ELSE "waiting"
      <3>1. AdmissionStatus(e) = IF HasRoom(e) THEN "running" ELSE "queued"
        BY <1>12 DEF Admit, InsertExecution, AdmissionStatus
      <3> QED BY <3>1, <1>0, RoomIsRoom, JobValues
    <2>4. Contract!Accept(e)
      BY <2>1, <2>2, <2>3 DEF Contract!Accept, Jobs
    <2> QED BY <2>4 DEF ContractStep, Contract!Next
  <1>13. ASSUME NEW e \in Executions, RefuseAdmission(e) PROVE ContractStep
    BY <1>13, ContractStutter DEF RefuseAdmission, historyVars
  <1>14. ASSUME NEW e \in Executions, Claim(e) PROVE ContractStep
    <2>1. Jobs[e] = "waiting" /\ Contract!Room(e) /\ effects' = effects
      BY <1>14, <1>0, ActiveIsOccupying, RoomIsRoom
         DEF Claim, ClaimExecutionSlot, CanClaim, historyVars
    <2>2. Jobs' = [Jobs EXCEPT ![e] = "active"]
      <3>1. Jobs' = [Jobs EXCEPT ![e] = JobOf("running")]
        BY <1>14, <1>0, JobChange DEF Claim, ClaimExecutionSlot
      <3> QED BY <3>1, JobValues
    <2>3. Contract!Start(e)
      BY <2>1, <2>2 DEF Contract!Start, Jobs
    <2> QED BY <2>3 DEF ContractStep, Contract!Next
  <1>15. ASSUME NEW e \in Executions, PollCancelled(e) PROVE ContractStep
    BY <1>15, <1>0, FinishIsFinish DEF PollCancelled, Ended, historyVars
  <1>16. ASSUME NEW e \in Executions, PollShutdown(e) PROVE ContractStep
    BY <1>16, ContractStutter DEF PollShutdown, durableVars, historyVars
  <1>17. ASSUME NEW e \in Executions, NEW batch \in SUBSET Nodes, LaunchBatch(e, batch)
        PROVE  ContractStep
    BY <1>17, ContractStutter DEF LaunchBatch, durableVars, historyVars
  <1>18. ASSUME NEW e \in Executions, NEW n \in Nodes, ReuseCheckpoint(e, n) PROVE ContractStep
    BY <1>18, ContractStutter DEF ReuseCheckpoint, durableVars, historyVars
  <1>19. ASSUME NEW e \in Executions, NEW n \in Nodes, BeginNode(e, n) PROVE ContractStep
    BY <1>19, ContractStutter DEF BeginNode, historyVars
  <1>20. ASSUME NEW e \in Executions, NEW n \in Nodes, Act(e, n) PROVE ContractStep
    <2>1. CASE n \in Replayable
      BY <1>20, <2>1, ContractStutter DEF Act, durableVars
    <2>2. CASE n \notin Replayable
      <3>1. Jobs[e] = "active" /\ Jobs' = Jobs
        BY <1>20, <1>0, InProgress, ActiveIsOccupying DEF Act, durableVars, Jobs
      <3>2. effects[e][n] < MaxAttempts[n]
        <4>1. /\ effects[e][n] <= tries[e][n] /\ tries[e][n] < MaxAttempts[n]
              /\ effects[e][n] \in Nat /\ tries[e][n] \in Nat /\ MaxAttempts[n] \in Nat
          BY <1>20, <1>0, NodeAssumption
             DEF Act, EffectShape, EffectShapeAt, Shape, WorkShape, TypeOK
        <4> QED BY <4>1
      <3>3. effects' = [effects EXCEPT ![e][n] = @ + 1]
        BY <1>20, <2>2 DEF Act
      <3>4. Contract!Perform(e, n)
        BY <3>1, <3>2, <3>3 DEF Contract!Perform, Jobs
      <3> QED BY <3>4 DEF ContractStep, Contract!Next
    <2> QED BY <2>1, <2>2
  <1>21. ASSUME NEW e \in Executions, NEW n \in Nodes, RetryNode(e, n) PROVE ContractStep
    BY <1>21, ContractStutter DEF RetryNode, durableVars, historyVars
  <1>22. ASSUME NEW e \in Executions, NEW n \in Nodes, CompleteNode(e, n) PROVE ContractStep
    BY <1>22, ContractStutter DEF CompleteNode, historyVars
  <1>23. ASSUME NEW e \in Executions, NEW n \in Nodes, FailNode(e, n) PROVE ContractStep
    BY <1>23, ContractStutter DEF FailNode, durableVars, historyVars
  <1>24. ASSUME NEW e \in Executions, LeaveGraph(e) PROVE ContractStep
    BY <1>24, ContractStutter DEF LeaveGraph, durableVars, historyVars
  <1>25. ASSUME NEW e \in Executions, FinishWorker(e) PROVE ContractStep
    <2>1. outcome[e] # "shutdown" => outcome[e] \in Ended
      BY <1>25 DEF FinishWorker, Shape, TypeOK, WorkShape, Outcomes, ControlErrors, Ended
    <2>2. UNCHANGED storeVars \/ (FinishExecution(e, outcome[e]) /\ outcome[e] \in Ended)
      BY <1>25, <2>1 DEF FinishWorker
    <2>3. effects' = effects
      BY <1>25 DEF FinishWorker, historyVars
    <2>4. CASE UNCHANGED storeVars
      BY <2>3, <2>4, ContractStutter DEF storeVars
    <2> QED BY <1>0, <2>2, <2>3, <2>4, FinishIsFinish
  <1>26. ASSUME NEW e \in Executions, StoreFault(e) PROVE ContractStep
    BY <1>26, ContractStutter DEF StoreFault, EndWorker, durableVars
  <1>27. ASSUME NEW expired \in SUBSET Executions, Retain(expired) PROVE ContractStep
    <2>1. \A e \in expired : Jobs[e] = "done"
      <3> SUFFICES ASSUME NEW e \in expired PROVE Jobs[e] = "done"
        OBVIOUS
      <3>1. status[e] \in Ended
        BY <1>27 DEF Retain, ApplyRetention, CompletionShape, Completed
      <3> QED BY <3>1, <1>0, ActiveIsOccupying
    <2>2. Jobs' = [e \in Executions |-> IF e \in expired THEN "gone" ELSE Jobs[e]]
      BY <1>27, JobValues DEF Retain, ApplyRetention, Jobs
    <2>3. Contract!Purge(expired)
      BY <1>27, <2>1, <2>2 DEF Contract!Purge, Jobs, Retain, historyVars
    <2> QED BY <2>3 DEF ContractStep, Contract!Next
  <1>28. CASE UNCHANGED vars
    BY <1>28, ContractStutter DEF vars, durableVars, historyVars
  <1> QED
    BY <1>1, <1>2, <1>3, <1>4, <1>5, <1>6, <1>7, <1>8, <1>9, <1>10, <1>11, <1>12, <1>13,
       <1>14, <1>15, <1>16, <1>17, <1>18, <1>19, <1>20, <1>21, <1>22, <1>23, <1>24,
       <1>25, <1>26, <1>27, <1>28 DEF Next, CoreStep, ClientStep, WorkerStep, NodeStep

(* Every behaviour of Core, with its crashes, restarts, racing requests,   *)
(* cancellations and retention, is a behaviour of the execution contract:  *)
(* accepted once, started only with room, acting only while active and     *)
(* never more often than the retry policy allows, done once.               *)
THEOREM CoreImplementsContract == Spec => ImplementsContract
  <1>1. Init => Contract!Init
    BY JobValues DEF Init, StoreInit, Contract!Init
  <1>2. Shape /\ EffectShape /\ CompletionShape /\ [Next]_vars
           => [Contract!Next]_(Contract!contractVars)
    BY StepImplements DEF ContractStep
  <1> QED
    BY <1>1, <1>2, ShapeInvariant, EffectShapeInit, EffectShapeStep, CompletionInit,
       CompletionStep, PTL DEF Spec, ImplementsContract, Contract!Spec
=============================================================================
