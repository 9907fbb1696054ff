------------------------- MODULE PluginRemovalProofs -------------------------
(***************************************************************************)
(* Proofs about PluginRemoval and PackageStaging, for any number of        *)
(* executions, builds, workflows, packages and concurrent requests.        *)
(***************************************************************************)
EXTENDS PluginContent, PackageStaging, ExecutionStoreProofs

(* A process that is committing or deleting works on a build.              *)
CommitShape ==
    \A p \in Procs :
        pc[p] \in {"delete", "place", "upsertPlaced", "upsertReused"} => target[p] \in Builds

LEMMA TypeStep == TypeOK /\ CommitShape /\ [Next]_vars => TypeOK' /\ CommitShape'
  <1> DEFINE Goal == TypeOK' /\ CommitShape'
  <1> SUFFICES ASSUME TypeOK, CommitShape, [Next]_vars PROVE Goal
    OBVIOUS
  <1>0. /\ StoreTypeOK /\ (UNCHANGED storeVars => StoreTypeOK')
        /\ Admins \subseteq Procs /\ Executions \subseteq Procs /\ Startup \in Procs
    BY DEF TypeOK, StoreTypeOK, storeVars, Procs
  <1> USE <1>0, PluginAssumption
        DEF TypeOK, CommitShape, Build, Steps, recordVars, workflowVars, procVars,
            coreVars, Carry, Goto
  <1>1. ASSUME NEW p \in Procs, Publish(p) PROVE Goal
    BY <1>1 DEF Publish
  <1>2. ASSUME NEW p \in Procs, PublishTooLate(p) PROVE Goal
    BY <1>2 DEF PublishTooLate
  <1>3. ASSUME NEW p \in Procs, ObservePending(p) PROVE Goal
    BY <1>3 DEF ObservePending, Read, Reconciled, Pending
  <1>4. ASSUME NEW p \in Procs, CountPins(p) PROVE Goal
    BY <1>4 DEF CountPins, Read, Reconciled
  <1>5. ASSUME NEW p \in Procs, RecheckPins(p) PROVE Goal
    BY <1>5 DEF RecheckPins, Read, Reconciled
  <1>6. ASSUME NEW p \in Procs, Lookup(p) PROVE Goal
    BY <1>6 DEF Lookup, Reconciled
  <1>7. ASSUME NEW p \in Procs, DeleteFiles(p) PROVE Goal
    BY <1>7 DEF DeleteFiles
  <1>8. ASSUME NEW p \in Procs, DeleteFails(p) PROVE Goal
    <2>1. target[p] \in Builds
      BY <1>8 DEF DeleteFails
    <2>2. PICK left \in {files[target[p]], "damaged"} :
             files' = [files EXCEPT ![target[p]] = left]
      BY <1>8 DEF DeleteFails
    <2>3. files' \in [Builds -> {"absent", "intact", "damaged"}]
      BY <2>1, <2>2
    <2> QED BY <1>8, <2>3 DEF DeleteFails
  <1>9. ASSUME NEW p \in Procs, Finalize(p) PROVE Goal
    BY ZenonT(40), <1>9 DEF Finalize, DropRecord, Reconciled, Finalizable, Pending
  <1>10. ASSUME NEW p \in Procs, MarkFailed(p) PROVE Goal
    BY <1>10 DEF MarkFailed, Reconciled, Pending
  <1>11. ASSUME NEW p \in Procs, Place(p) PROVE Goal
    BY ZenonT(40), <1>11 DEF Place
  <1>12. ASSUME NEW p \in Procs, Upsert(p) PROVE Goal
    BY <1>12 DEF Upsert, Replaceable
  <1>13. ASSUME NEW p \in Procs, UpsertRefused(p) PROVE Goal
    BY <1>13 DEF UpsertRefused, Replaceable
  <1>14. ASSUME NEW p \in Procs, LoadRegistry(p) PROVE Goal
    <2>1. EnabledBuild \in Build
      BY DEF EnabledBuild
    <2>2. Carry(p, "store", EnabledBuild) \/ Goto(p, "idle")
      BY <1>14 DEF LoadRegistry
    <2>3. pc' \in [Procs -> Steps] /\ target' \in [Procs -> Build] /\ CommitShape'
      <3>1. CASE Carry(p, "store", EnabledBuild)
        BY <2>1, <3>1
      <3>2. CASE Goto(p, "idle")
        BY <3>2
      <3> QED BY <2>2, <3>1, <3>2
    <2>4. UNCHANGED <<storeVars, recordVars, files, pins, workflowVars, using, affected, coreVars>>
      BY <1>14 DEF LoadRegistry
    <2> QED BY <2>3, <2>4
  <1>15. ASSUME NEW p \in Procs, StoreRegistry(p) PROVE Goal
    BY <1>15 DEF StoreRegistry
  <1>16. ASSUME NEW e \in Executions, Prepare(e) PROVE Goal
    BY <1>16 DEF Prepare
  <1>17. ASSUME NEW e \in Executions, AdmitCanonical(e) PROVE Goal
    <2>1. StoreTypeOK'
      BY <1>17, InsertType DEF AdmitCanonical
    <2> QED BY <1>17, <2>1 DEF AdmitCanonical
  <1>18. ASSUME NEW e \in Executions, AdmitLegacy(e) PROVE Goal
    <2>1. StoreTypeOK'
      BY <1>18, InsertType DEF AdmitLegacy
    <2> QED BY <1>18, <2>1 DEF AdmitLegacy
  <1>19. ASSUME NEW e \in Executions, RefuseAdmission(e) PROVE Goal
    BY <1>19 DEF RefuseAdmission, Pinnable
  <1>20. ASSUME NEW e \in Executions, Claim(e) PROVE Goal
    <2>1. StoreTypeOK'
      BY <1>20 DEF Claim, ClaimExecutionSlot, StoreTypeOK, Statuses, Incomplete, Occupying
    <2> QED BY <1>20, <2>1 DEF Claim
  <1>21. ASSUME NEW e \in Executions, NEW o \in Releasing, Finish(e, o) PROVE Goal
    <2>1. StoreTypeOK'
      BY <1>21, FinishType DEF Finish, Releasing, Ended
    <2> QED BY <1>21, <2>1 DEF Finish, ReleasePins
  <1>22. ASSUME NEW e \in Executions, Cancel(e) PROVE Goal
    <2>1. StoreTypeOK'
      BY <1>22, CancelType DEF Cancel
    <2> QED BY <1>22, <2>1 DEF Cancel, ReleasePins
  <1>23. ASSUME NEW a \in Admins, Review(a) PROVE Goal
    BY <1>23 DEF Review
  <1>24. ASSUME NEW a \in Admins, Resume(a) PROVE Goal
    BY <1>24 DEF Resume
  <1>25. ASSUME NEW a \in Admins, NEW b \in Installable, StartCommit(a, b) PROVE Goal
    BY <1>25 DEF StartCommit
  <1>26. ASSUME NEW a \in Admins, NEW on \in BOOLEAN, SetPluginEnabled(a, on) PROVE Goal
    BY <1>26 DEF SetPluginEnabled
  <1>27. ASSUME NEW a \in Admins, RemovePluginInstall(a) PROVE Goal
    BY <1>27 DEF RemovePluginInstall, DropRecord
  <1>28. ASSUME NEW w \in Workflows, CreateWorkflow(w) PROVE Goal
    BY <1>28 DEF CreateWorkflow
  <1>29. ASSUME NEW w \in Workflows, NEW to \in {"enabled", "disabled"}, SetWorkflowStatus(w, to) PROVE Goal
    BY <1>29 DEF SetWorkflowStatus
  <1>30. CASE Crash
    <2>1. /\ pc' = [p \in Procs |-> "idle"] /\ target' = [p \in Procs |-> NoBuild]
          /\ affected' = [p \in Procs |-> {}]
      BY <1>30 DEF Crash
    <2>2. pc' \in [Procs -> Steps] /\ target' \in [Procs -> Build] /\ CommitShape'
      BY <2>1
    <2>3. affected' \in [Procs -> SUBSET Workflows]
      BY <2>1
    <2>4. using' \in [Executions -> Build] /\ catalog' \in Build
      BY <1>30 DEF Crash
    <2>5. crashes' \in Nat
      <3>1. crashes \in Nat /\ crashes' = crashes + 1
        BY <1>30 DEF Crash
      <3> QED BY ONLY <3>1
    <2>6. core' = "down" /\ UNCHANGED <<storeVars, recordVars, files, pins, workflowVars>>
      BY <1>30 DEF Crash
    <2> QED BY <2>2, <2>3, <2>4, <2>5, <2>6
  <1>31. ASSUME NEW S \in SUBSET Executions, Restart(S) PROVE Goal
    <2>1. StoreTypeOK'
      BY <1>31, RecoverType DEF Restart
    <2> QED BY <1>31, <2>1 DEF Restart, ReleasePins
  <1>32. CASE FinishStartup
    BY <1>32 DEF FinishStartup, EnabledBuild
  <1>33. CASE StartupFails
    BY <1>33 DEF StartupFails
  <1>34. CASE UNCHANGED vars
    BY <1>34 DEF vars
  <1> HIDE DEF TypeOK, CommitShape, Build, Steps, recordVars, workflowVars, procVars,
              coreVars, Carry, Goto, Goal
  <1> QED
    BY <1>1, <1>2, <1>3, <1>4, <1>5, <1>6, <1>7, <1>8, <1>9, <1>10, <1>11, <1>12, <1>13,
       <1>14, <1>15, <1>16, <1>17, <1>18, <1>19, <1>20, <1>21, <1>22, <1>23, <1>24,
       <1>25, <1>26, <1>27, <1>28, <1>29, <1>30, <1>31, <1>32, <1>33, <1>34 DEF Next,
       ProcStep, ExecutionStep, AdminRequest

LEMMA TypeInit == Init => TypeOK /\ CommitShape
  BY PluginAssumption
     DEF Init, StoreInit, TypeOK, StoreTypeOK, Statuses, CommitShape, Build, Steps

LEMMA TypeInvariant == Spec => [](TypeOK /\ CommitShape)
  BY TypeInit, TypeStep, PTL DEF Spec

(* Every variable stays in its type, and a lifecycle row exists exactly as *)
(* long as the record does.                                                *)
THEOREM TypeCorrect == Spec => []TypeOK
  BY TypeInvariant, PTL

-----------------------------------------------------------------------------
(* Pins.                                                                   *)

Protected(e) ==
    /\ e \notin Legacy /\ status[e] \in Incomplete => pins[e] # NoBuild
    /\ pins[e] # NoBuild => installed = pins[e]

LEMMA PinStep == TypeOK /\ CommitShape /\ PinProtectsRecord /\ [Next]_vars => PinProtectsRecord'
  <1> SUFFICES ASSUME TypeOK, CommitShape, PinProtectsRecord, [Next]_vars,
                      NEW x \in Executions
               PROVE  Protected(x)'
    BY DEF PinProtectsRecord, Protected
  <1> DEFINE Goal == Protected(x)'
  <1>0. /\ Protected(x)
        /\ status \in [Executions -> Statuses] /\ pins \in [Executions -> Build]
        /\ lifecycle = "none" <=> installed = NoBuild
    BY DEF PinProtectsRecord, Protected, TypeOK, StoreTypeOK
  <1> USE <1>0 DEF Protected, Incomplete, Occupying, recordVars, storeVars
  <1>1. ASSUME NEW p \in Procs, Publish(p) PROVE Goal
    BY <1>1 DEF Publish
  <1>2. ASSUME NEW p \in Procs, PublishTooLate(p) PROVE Goal
    BY <1>2 DEF PublishTooLate
  <1>3. ASSUME NEW p \in Procs, ObservePending(p) PROVE Goal
    BY <1>3 DEF ObservePending, Read, Pending
  <1>4. ASSUME NEW p \in Procs, CountPins(p) PROVE Goal
    BY <1>4 DEF CountPins, Read
  <1>5. ASSUME NEW p \in Procs, RecheckPins(p) PROVE Goal
    BY <1>5 DEF RecheckPins, Read
  <1>6. ASSUME NEW p \in Procs, Lookup(p) PROVE Goal
    BY <1>6 DEF Lookup
  <1>7. ASSUME NEW p \in Procs, DeleteFiles(p) PROVE Goal
    BY <1>7 DEF DeleteFiles
  <1>8. ASSUME NEW p \in Procs, DeleteFails(p) PROVE Goal
    BY <1>8 DEF DeleteFails
  <1>9. ASSUME NEW p \in Procs, Finalize(p) PROVE Goal
    BY <1>9 DEF Finalize, DropRecord, Finalizable, Pending, Unpinned
  <1>10. ASSUME NEW p \in Procs, MarkFailed(p) PROVE Goal
    BY <1>10 DEF MarkFailed, Pending
  <1>11. ASSUME NEW p \in Procs, Place(p) PROVE Goal
    BY <1>11 DEF Place
  <1>12. ASSUME NEW p \in Procs, Upsert(p) PROVE Goal
    BY <1>12 DEF Upsert, Replaceable, Unpinned
  <1>13. ASSUME NEW p \in Procs, UpsertRefused(p) PROVE Goal
    BY <1>13 DEF UpsertRefused, Replaceable
  <1>14. ASSUME NEW p \in Procs, LoadRegistry(p) PROVE Goal
    BY <1>14 DEF LoadRegistry, EnabledBuild
  <1>15. ASSUME NEW p \in Procs, StoreRegistry(p) PROVE Goal
    BY <1>15 DEF StoreRegistry
  <1>16. ASSUME NEW e \in Executions, Prepare(e) PROVE Goal
    BY <1>16 DEF Prepare
  <1>17. ASSUME NEW e \in Executions, AdmitCanonical(e) PROVE Goal
    BY <1>17 DEF AdmitCanonical, InsertExecution, Pinnable
  <1>18. ASSUME NEW e \in Executions, AdmitLegacy(e) PROVE Goal
    BY <1>18 DEF AdmitLegacy, InsertExecution
  <1>19. ASSUME NEW e \in Executions, RefuseAdmission(e) PROVE Goal
    BY <1>19 DEF RefuseAdmission, Pinnable
  <1>20. ASSUME NEW e \in Executions, Claim(e) PROVE Goal
    BY <1>20 DEF Claim, ClaimExecutionSlot, CanClaim
  <1>21. ASSUME NEW e \in Executions, NEW o \in Releasing, Finish(e, o) PROVE Goal
    BY <1>21 DEF Finish, ReleasePins, FinishExecution, Releasing
  <1>22. ASSUME NEW e \in Executions, Cancel(e) PROVE Goal
    BY <1>22 DEF Cancel, ReleasePins, RequestExecutionCancel,
       RequestExecutionCancelOutcome, Releasing
  <1>23. ASSUME NEW a \in Admins, Review(a) PROVE Goal
    BY <1>23 DEF Review
  <1>24. ASSUME NEW a \in Admins, Resume(a) PROVE Goal
    BY <1>24 DEF Resume
  <1>25. ASSUME NEW a \in Admins, NEW b \in Installable, StartCommit(a, b) PROVE Goal
    BY <1>25 DEF StartCommit
  <1>26. ASSUME NEW a \in Admins, NEW on \in BOOLEAN, SetPluginEnabled(a, on) PROVE Goal
    BY <1>26 DEF SetPluginEnabled
  <1>27. ASSUME NEW a \in Admins, RemovePluginInstall(a) PROVE Goal
    BY <1>27 DEF RemovePluginInstall, DropRecord, Unpinned
  <1>28. ASSUME NEW w \in Workflows, CreateWorkflow(w) PROVE Goal
    BY <1>28 DEF CreateWorkflow
  <1>29. ASSUME NEW w \in Workflows, NEW to \in {"enabled", "disabled"}, SetWorkflowStatus(w, to) PROVE Goal
    BY <1>29 DEF SetWorkflowStatus
  <1>30. CASE Crash
    BY <1>30 DEF Crash
  <1>31. ASSUME NEW S \in SUBSET Executions, Restart(S) PROVE Goal
    BY <1>31 DEF Restart, ReleasePins, RecoverIncompleteExecutions, Releasing,
       RecoveredStatus
  <1>32. CASE FinishStartup
    BY <1>32 DEF FinishStartup, EnabledBuild
  <1>33. CASE StartupFails
    BY <1>33 DEF StartupFails
  <1>34. CASE UNCHANGED vars
    BY <1>34 DEF vars
  <1> QED
    BY <1>1, <1>2, <1>3, <1>4, <1>5, <1>6, <1>7, <1>8, <1>9, <1>10, <1>11, <1>12, <1>13,
       <1>14, <1>15, <1>16, <1>17, <1>18, <1>19, <1>20, <1>21, <1>22, <1>23, <1>24,
       <1>25, <1>26, <1>27, <1>28, <1>29, <1>30, <1>31, <1>32, <1>33, <1>34 DEF Next,
       ProcStep, ExecutionStep, AdminRequest

LEMMA PinInit == Init => PinProtectsRecord
  BY DEF Init, StoreInit, PinProtectsRecord, Incomplete, Occupying

(* A pinned record is neither replaced nor dropped and an admitted         *)
(* execution keeps its pin, for any interleaving of removals, commits,     *)
(* deletions, cancellations and restarts.                                  *)
THEOREM PinsProtectRecords == Spec => []PinProtectsRecord
  BY PinInit, PinStep, TypeInvariant, PTL DEF Spec

-----------------------------------------------------------------------------
(* Blocked workflows.                                                      *)

(* Workflows are recorded as blocked only while a removal is under way.    *)
BarrierShape ==
    /\ blocked # {} => lifecycle \in {"pending removal", "removal failed"}
    /\ BlockedStaysDisabled

LEMMA BarrierStep == TypeOK /\ BarrierShape /\ [Next]_vars => BarrierShape'
  <1> DEFINE Goal == BarrierShape'
  <1> SUFFICES ASSUME TypeOK, BarrierShape, [Next]_vars PROVE Goal
    OBVIOUS
  <1>0. /\ workflow \in [Workflows -> {"absent", "enabled", "disabled"}]
        /\ blocked \subseteq Workflows /\ affected \in [Procs -> SUBSET Workflows]
    BY DEF TypeOK
  <1> USE <1>0 DEF BarrierShape, BlockedStaysDisabled, recordVars, workflowVars
  <1>1. ASSUME NEW p \in Procs, Publish(p) PROVE Goal
    BY <1>1 DEF Publish
  <1>2. ASSUME NEW p \in Procs, PublishTooLate(p) PROVE Goal
    BY <1>2 DEF PublishTooLate
  <1>3. ASSUME NEW p \in Procs, ObservePending(p) PROVE Goal
    BY <1>3 DEF ObservePending, Read, Pending
  <1>4. ASSUME NEW p \in Procs, CountPins(p) PROVE Goal
    BY <1>4 DEF CountPins, Read
  <1>5. ASSUME NEW p \in Procs, RecheckPins(p) PROVE Goal
    BY <1>5 DEF RecheckPins, Read
  <1>6. ASSUME NEW p \in Procs, Lookup(p) PROVE Goal
    BY <1>6 DEF Lookup
  <1>7. ASSUME NEW p \in Procs, DeleteFiles(p) PROVE Goal
    BY <1>7 DEF DeleteFiles
  <1>8. ASSUME NEW p \in Procs, DeleteFails(p) PROVE Goal
    BY <1>8 DEF DeleteFails
  <1>9. ASSUME NEW p \in Procs, Finalize(p) PROVE Goal
    BY <1>9 DEF Finalize, DropRecord, Finalizable, Pending
  <1>10. ASSUME NEW p \in Procs, MarkFailed(p) PROVE Goal
    BY <1>10 DEF MarkFailed, Pending
  <1>11. ASSUME NEW p \in Procs, Place(p) PROVE Goal
    BY <1>11 DEF Place
  <1>12. ASSUME NEW p \in Procs, Upsert(p) PROVE Goal
    BY <1>12 DEF Upsert, Replaceable
  <1>13. ASSUME NEW p \in Procs, UpsertRefused(p) PROVE Goal
    BY <1>13 DEF UpsertRefused, Replaceable
  <1>14. ASSUME NEW p \in Procs, LoadRegistry(p) PROVE Goal
    BY <1>14 DEF LoadRegistry, EnabledBuild
  <1>15. ASSUME NEW p \in Procs, StoreRegistry(p) PROVE Goal
    BY <1>15 DEF StoreRegistry
  <1>16. ASSUME NEW e \in Executions, Prepare(e) PROVE Goal
    BY <1>16 DEF Prepare
  <1>17. ASSUME NEW e \in Executions, AdmitCanonical(e) PROVE Goal
    BY <1>17 DEF AdmitCanonical, InsertExecution, Pinnable
  <1>18. ASSUME NEW e \in Executions, AdmitLegacy(e) PROVE Goal
    BY <1>18 DEF AdmitLegacy, InsertExecution
  <1>19. ASSUME NEW e \in Executions, RefuseAdmission(e) PROVE Goal
    BY <1>19 DEF RefuseAdmission, Pinnable
  <1>20. ASSUME NEW e \in Executions, Claim(e) PROVE Goal
    BY <1>20 DEF Claim, ClaimExecutionSlot, CanClaim
  <1>21. ASSUME NEW e \in Executions, NEW o \in Releasing, Finish(e, o) PROVE Goal
    BY <1>21 DEF Finish, ReleasePins, FinishExecution
  <1>22. ASSUME NEW e \in Executions, Cancel(e) PROVE Goal
    BY <1>22 DEF Cancel, ReleasePins, RequestExecutionCancel,
       RequestExecutionCancelOutcome
  <1>23. ASSUME NEW a \in Admins, Review(a) PROVE Goal
    BY <1>23 DEF Review
  <1>24. ASSUME NEW a \in Admins, Resume(a) PROVE Goal
    BY <1>24 DEF Resume
  <1>25. ASSUME NEW a \in Admins, NEW b \in Installable, StartCommit(a, b) PROVE Goal
    BY <1>25 DEF StartCommit
  <1>26. ASSUME NEW a \in Admins, NEW on \in BOOLEAN, SetPluginEnabled(a, on) PROVE Goal
    BY <1>26 DEF SetPluginEnabled
  <1>27. ASSUME NEW a \in Admins, RemovePluginInstall(a) PROVE Goal
    BY <1>27 DEF RemovePluginInstall, DropRecord
  <1>28. ASSUME NEW w \in Workflows, CreateWorkflow(w) PROVE Goal
    BY <1>28 DEF CreateWorkflow
  <1>29. ASSUME NEW w \in Workflows, NEW to \in {"enabled", "disabled"}, SetWorkflowStatus(w, to) PROVE Goal
    BY <1>29 DEF SetWorkflowStatus, Blocked
  <1>30. CASE Crash
    BY <1>30 DEF Crash
  <1>31. ASSUME NEW S \in SUBSET Executions, Restart(S) PROVE Goal
    BY <1>31 DEF Restart, ReleasePins, RecoverIncompleteExecutions
  <1>32. CASE FinishStartup
    BY <1>32 DEF FinishStartup, EnabledBuild
  <1>33. CASE StartupFails
    BY <1>33 DEF StartupFails
  <1>34. CASE UNCHANGED vars
    BY <1>34 DEF vars
  <1> QED
    BY <1>1, <1>2, <1>3, <1>4, <1>5, <1>6, <1>7, <1>8, <1>9, <1>10, <1>11, <1>12, <1>13,
       <1>14, <1>15, <1>16, <1>17, <1>18, <1>19, <1>20, <1>21, <1>22, <1>23, <1>24,
       <1>25, <1>26, <1>27, <1>28, <1>29, <1>30, <1>31, <1>32, <1>33, <1>34 DEF Next,
       ProcStep, ExecutionStep, AdminRequest

LEMMA BarrierInit == Init => BarrierShape
  BY DEF Init, BarrierShape, BlockedStaysDisabled

(* A workflow disabled by a removal stays disabled until the removal is    *)
(* over, whoever tries to enable it.                                       *)
THEOREM BlockedStayDisabled == Spec => []BlockedStaysDisabled
  <1>1. BarrierShape => BlockedStaysDisabled
    BY DEF BarrierShape
  <1> QED BY <1>1, BarrierInit, BarrierStep, TypeInvariant, PTL DEF Spec

-----------------------------------------------------------------------------
(* Packages in use (PluginContent).                                        *)

(* What a process may rely on between its look at the store and its work   *)
(* on the directory, when no installation crosses: a reconciliation past   *)
(* its look finds no active record and past the second count no pin; an    *)
(* installation finds its package in place, and one that placed it itself  *)
(* may move it back.                                                       *)
Relies(p) ==
    /\ Reconciles(p) => lifecycle # "active"
    /\ pc[p] \in {"lookup", "delete"} => Unpinned
    /\ pc[p] \in {"upsertPlaced", "upsertReused"} => files[target[p]] = "intact"
    /\ pc[p] = "upsertPlaced" =>
          /\ installed = target[p] => lifecycle # "active"
          /\ \A e \in Executions : pins[e] # target[p]

Stays ==
    /\ lifecycle = "active" => files[installed] = "intact"
    /\ PinnedContentKept
    /\ \A p \in Procs : Relies(p)

(* Only an active record is enabled, whatever crosses.                     *)
EnabledShape == enabled => lifecycle = "active"

ContentShape == EnabledShape /\ (~crossed => ~Crossing /\ Stays)

LEMMA EnabledStep == TypeOK /\ EnabledShape /\ [Next]_vars => EnabledShape'
  <1> DEFINE Goal == EnabledShape'
  <1> SUFFICES ASSUME TypeOK, EnabledShape, [Next]_vars PROVE Goal
    OBVIOUS
  <1>0. enabled \in BOOLEAN BY DEF TypeOK
  <1> USE <1>0 DEF EnabledShape, recordVars
  <1>1. ASSUME NEW p \in Procs, Publish(p) PROVE Goal
    BY <1>1 DEF Publish
  <1>2. ASSUME NEW p \in Procs, PublishTooLate(p) PROVE Goal
    BY <1>2 DEF PublishTooLate
  <1>3. ASSUME NEW p \in Procs, ObservePending(p) PROVE Goal
    BY <1>3 DEF ObservePending, Read, Reconciled, Pending
  <1>4. ASSUME NEW p \in Procs, CountPins(p) PROVE Goal
    BY <1>4 DEF CountPins, Read, Reconciled
  <1>5. ASSUME NEW p \in Procs, RecheckPins(p) PROVE Goal
    BY <1>5 DEF RecheckPins, Read, Reconciled
  <1>6. ASSUME NEW p \in Procs, Lookup(p) PROVE Goal
    BY <1>6 DEF Lookup, Reconciled
  <1>7. ASSUME NEW p \in Procs, DeleteFiles(p) PROVE Goal
    BY <1>7 DEF DeleteFiles
  <1>8. ASSUME NEW p \in Procs, DeleteFails(p) PROVE Goal
    BY <1>8 DEF DeleteFails
  <1>9. ASSUME NEW p \in Procs, Finalize(p) PROVE Goal
    BY <1>9 DEF Finalize, DropRecord, Reconciled, Finalizable, Pending
  <1>10. ASSUME NEW p \in Procs, MarkFailed(p) PROVE Goal
    BY <1>10 DEF MarkFailed, Reconciled, Pending
  <1>11. ASSUME NEW p \in Procs, Place(p) PROVE Goal
    BY <1>11 DEF Place
  <1>12. ASSUME NEW p \in Procs, Upsert(p) PROVE Goal
    BY <1>12 DEF Upsert, Replaceable
  <1>13. ASSUME NEW p \in Procs, UpsertRefused(p) PROVE Goal
    BY <1>13 DEF UpsertRefused, Replaceable
  <1>14. ASSUME NEW p \in Procs, LoadRegistry(p) PROVE Goal
    BY <1>14 DEF LoadRegistry
  <1>15. ASSUME NEW p \in Procs, StoreRegistry(p) PROVE Goal
    BY <1>15 DEF StoreRegistry
  <1>16. ASSUME NEW e \in Executions, Prepare(e) PROVE Goal
    BY <1>16 DEF Prepare
  <1>17. ASSUME NEW e \in Executions, AdmitCanonical(e) PROVE Goal
    BY <1>17 DEF AdmitCanonical, Pinnable
  <1>18. ASSUME NEW e \in Executions, AdmitLegacy(e) PROVE Goal
    BY <1>18 DEF AdmitLegacy
  <1>19. ASSUME NEW e \in Executions, RefuseAdmission(e) PROVE Goal
    BY <1>19 DEF RefuseAdmission
  <1>20. ASSUME NEW e \in Executions, Claim(e) PROVE Goal
    BY <1>20 DEF Claim
  <1>21. ASSUME NEW e \in Executions, NEW o \in Releasing, Finish(e, o) PROVE Goal
    BY <1>21 DEF Finish, ReleasePins
  <1>22. ASSUME NEW e \in Executions, Cancel(e) PROVE Goal
    BY <1>22 DEF Cancel, ReleasePins
  <1>23. ASSUME NEW a \in Admins, Review(a) PROVE Goal
    BY <1>23 DEF Review
  <1>24. ASSUME NEW a \in Admins, Resume(a) PROVE Goal
    BY <1>24 DEF Resume
  <1>25. ASSUME NEW a \in Admins, NEW b \in Installable, StartCommit(a, b) PROVE Goal
    BY <1>25 DEF StartCommit
  <1>26. ASSUME NEW a \in Admins, NEW on \in BOOLEAN, SetPluginEnabled(a, on) PROVE Goal
    BY <1>26 DEF SetPluginEnabled
  <1>27. ASSUME NEW a \in Admins, RemovePluginInstall(a) PROVE Goal
    BY <1>27 DEF RemovePluginInstall, DropRecord
  <1>28. ASSUME NEW w \in Workflows, CreateWorkflow(w) PROVE Goal
    BY <1>28 DEF CreateWorkflow
  <1>29. ASSUME NEW w \in Workflows, NEW to \in {"enabled", "disabled"}, SetWorkflowStatus(w, to) PROVE Goal
    BY <1>29 DEF SetWorkflowStatus
  <1>30. CASE Crash
    BY <1>30 DEF Crash
  <1>31. ASSUME NEW S \in SUBSET Executions, Restart(S) PROVE Goal
    BY <1>31 DEF Restart, ReleasePins
  <1>32. CASE FinishStartup
    BY <1>32 DEF FinishStartup
  <1>33. CASE StartupFails
    BY <1>33 DEF StartupFails
  <1>34. CASE UNCHANGED vars
    BY <1>34 DEF vars
  <1> QED
    BY <1>1, <1>2, <1>3, <1>4, <1>5, <1>6, <1>7, <1>8, <1>9, <1>10, <1>11, <1>12, <1>13,
       <1>14, <1>15, <1>16, <1>17, <1>18, <1>19, <1>20, <1>21, <1>22, <1>23, <1>24,
       <1>25, <1>26, <1>27, <1>28, <1>29, <1>30, <1>31, <1>32, <1>33, <1>34 DEF Next,
       ProcStep, ExecutionStep, AdminRequest

(* A step leaves files, records, pins and the other processes what they    *)
(* rely on, unless it makes an installation cross.                         *)
LEMMA StaysStep ==
    ASSUME TypeOK, CommitShape, PinProtectsRecord, EnabledShape, ~Crossing, Stays,
           [Next]_vars, ~Crossing'
    PROVE  Stays'
  <1> DEFINE Goal == Stays'
  <1>0. /\ Admins \subseteq Procs /\ Executions \subseteq Procs /\ Startup \in Procs
        /\ pc \in [Procs -> Steps] /\ target \in [Procs -> Build]
        /\ files \in [Builds -> {"absent", "intact", "damaged"}]
        /\ pins \in [Executions -> Build] /\ installed \in Build
        /\ lifecycle = "none" <=> installed = NoBuild
        /\ NoBuild \notin Builds
    BY PluginAssumption DEF TypeOK, Procs
  <1> USE <1>0 DEF Stays, Relies, PinnedContentKept, Reconciles, Installs, Crossing, Unpinned,
            recordVars, procVars, Carry, Goto, Build
  <1>1. ASSUME NEW p \in Procs, Publish(p) PROVE Goal
    BY <1>1 DEF Publish
  <1>2. ASSUME NEW p \in Procs, PublishTooLate(p) PROVE Goal
    BY <1>2 DEF PublishTooLate
  <1>3. ASSUME NEW p \in Procs, ObservePending(p) PROVE Goal
    BY <1>3 DEF ObservePending, Read, Reconciled, Pending
  <1>4. ASSUME NEW p \in Procs, CountPins(p) PROVE Goal
    BY <1>4 DEF CountPins, Read, Reconciled
  <1>5. ASSUME NEW p \in Procs, RecheckPins(p) PROVE Goal
    BY <1>5 DEF RecheckPins, Read, Reconciled
  <1>6. ASSUME NEW p \in Procs, Lookup(p) PROVE Goal
    BY <1>6 DEF Lookup, Reconciled
  <1>7. ASSUME NEW p \in Procs, DeleteFiles(p) PROVE Goal
    BY <1>7 DEF DeleteFiles
  <1>8. ASSUME NEW p \in Procs, DeleteFails(p) PROVE Goal
    BY <1>8 DEF DeleteFails
  <1>9. ASSUME NEW p \in Procs, Finalize(p) PROVE Goal
    <2>1. CASE Finalizable /\ DropRecord /\ Goto(p, Reconciled(p)) /\ UNCHANGED <<files, pins>>
      BY <1>9, <2>1 DEF DropRecord, Reconciled
    <2>2. CASE /\ UNCHANGED <<recordVars, files, pins>>
               /\ Goto(p, IF lifecycle = "none" THEN Reconciled(p) ELSE "fail")
      BY <2>2 DEF Reconciled
    <2> QED BY <1>9, <2>1, <2>2 DEF Finalize
  <1>10. ASSUME NEW p \in Procs, MarkFailed(p) PROVE Goal
    BY <1>10 DEF MarkFailed, Reconciled, Pending
  <1>11. ASSUME NEW p \in Procs, Place(p) PROVE Goal
    <2>0. UNCHANGED <<recordVars, pins>> BY <1>11 DEF Place
    <2>1. CASE /\ files[target[p]] = "absent"
               /\ files' = [files EXCEPT ![target[p]] = "intact"]
               /\ Carry(p, "upsertPlaced", target[p])
      <3>1. pc[p] = "place" /\ target[p] \in Builds BY <1>11 DEF Place, CommitShape
      <3>2. \A q \in Procs \ {p} : ~Installs(q) BY <3>1
      <3>3. \A b \in Builds : files'[b] # files[b] => b = target[p] BY <2>1
      <3>4. \A q \in Procs \ {p} : pc'[q] = pc[q] /\ target'[q] = target[q] BY <2>1
      <3>5. pc'[p] = "upsertPlaced" /\ target'[p] = target[p] /\ files'[target[p]] = "intact"
        BY <2>1, <3>1
      <3>6. Relies(p)' BY <2>0, <2>1, <3>1, <3>5
      <3>7. ASSUME NEW q \in Procs \ {p} PROVE Relies(q)'
        BY <2>0, <3>2, <3>4, <3>7
      <3>8. PinnedContentKept' BY <2>0, <2>1, <3>1
      <3>9. (lifecycle = "active" => files[installed] = "intact")' BY <2>0, <2>1, <3>1
      <3> QED BY <3>6, <3>7, <3>8, <3>9
    <2>2. CASE files' = files /\ Goto(p, "idle")
      BY <2>0, <2>2
    <2> QED BY <1>11, <2>1, <2>2 DEF Place
  <1>12. ASSUME NEW p \in Procs, Upsert(p) PROVE Goal
    BY <1>12 DEF Upsert, Replaceable
  <1>13. ASSUME NEW p \in Procs, UpsertRefused(p) PROVE Goal
    BY <1>13 DEF UpsertRefused, Replaceable
  <1>14. ASSUME NEW p \in Procs, LoadRegistry(p) PROVE Goal
    BY <1>14 DEF LoadRegistry
  <1>15. ASSUME NEW p \in Procs, StoreRegistry(p) PROVE Goal
    BY <1>15 DEF StoreRegistry
  <1>16. ASSUME NEW e \in Executions, Prepare(e) PROVE Goal
    BY <1>16 DEF Prepare
  <1>17. ASSUME NEW e \in Executions, AdmitCanonical(e) PROVE Goal
    BY <1>17 DEF AdmitCanonical, Pinnable
  <1>18. ASSUME NEW e \in Executions, AdmitLegacy(e) PROVE Goal
    BY <1>18 DEF AdmitLegacy
  <1>19. ASSUME NEW e \in Executions, RefuseAdmission(e) PROVE Goal
    BY <1>19 DEF RefuseAdmission
  <1>20. ASSUME NEW e \in Executions, Claim(e) PROVE Goal
    BY <1>20 DEF Claim
  <1>21. ASSUME NEW e \in Executions, NEW o \in Releasing, Finish(e, o) PROVE Goal
    <2>1. \A x \in Executions : pins'[x] \in {pins[x], NoBuild}
      BY <1>21 DEF Finish, ReleasePins
    <2> QED BY <1>21, <2>1 DEF Finish, CommitShape
  <1>22. ASSUME NEW e \in Executions, Cancel(e) PROVE Goal
    <2>1. \A x \in Executions : pins'[x] \in {pins[x], NoBuild}
      BY <1>22 DEF Cancel, ReleasePins
    <2> QED BY <1>22, <2>1 DEF Cancel, CommitShape
  <1>23. ASSUME NEW a \in Admins, Review(a) PROVE Goal
    BY <1>23 DEF Review
  <1>24. ASSUME NEW a \in Admins, Resume(a) PROVE Goal
    BY <1>24 DEF Resume
  <1>25. ASSUME NEW a \in Admins, NEW b \in Installable, StartCommit(a, b) PROVE Goal
    BY <1>25 DEF StartCommit
  <1>26. ASSUME NEW a \in Admins, NEW on \in BOOLEAN, SetPluginEnabled(a, on) PROVE Goal
    BY <1>26 DEF SetPluginEnabled
  <1>27. ASSUME NEW a \in Admins, RemovePluginInstall(a) PROVE Goal
    BY <1>27 DEF RemovePluginInstall, DropRecord
  <1>28. ASSUME NEW w \in Workflows, CreateWorkflow(w) PROVE Goal
    BY <1>28 DEF CreateWorkflow
  <1>29. ASSUME NEW w \in Workflows, NEW to \in {"enabled", "disabled"}, SetWorkflowStatus(w, to) PROVE Goal
    BY <1>29 DEF SetWorkflowStatus
  <1>30. CASE Crash
    BY <1>30 DEF Crash
  <1>31. ASSUME NEW S \in SUBSET Executions, Restart(S) PROVE Goal
    <2>1. \A x \in Executions : pins'[x] \in {pins[x], NoBuild}
      BY <1>31 DEF Restart, ReleasePins
    <2> QED BY <1>31, <2>1 DEF Restart, CommitShape
  <1>32. CASE FinishStartup
    BY <1>32 DEF FinishStartup
  <1>33. CASE StartupFails
    BY <1>33 DEF StartupFails
  <1>34. CASE UNCHANGED vars
    BY <1>34 DEF vars
  <1> QED
    BY <1>1, <1>2, <1>3, <1>4, <1>5, <1>6, <1>7, <1>8, <1>9, <1>10, <1>11, <1>12, <1>13,
       <1>14, <1>15, <1>16, <1>17, <1>18, <1>19, <1>20, <1>21, <1>22, <1>23, <1>24,
       <1>25, <1>26, <1>27, <1>28, <1>29, <1>30, <1>31, <1>32, <1>33, <1>34 DEF Next,
       ProcStep, ExecutionStep, AdminRequest

LEMMA ContentStep ==
    TypeOK /\ CommitShape /\ PinProtectsRecord /\ ContentShape /\ [ContentNext]_contentVars
      => ContentShape'
  <1> SUFFICES ASSUME TypeOK, CommitShape, PinProtectsRecord, ContentShape,
                      [ContentNext]_contentVars
               PROVE  ContentShape'
    OBVIOUS
  <1>1. [Next]_vars BY DEF ContentNext, contentVars
  <1>2. EnabledShape' BY <1>1, EnabledStep DEF ContentShape
  <1>3. CASE ContentNext
    <2>1. ~crossed' => ~crossed /\ ~Crossing' BY <1>3 DEF ContentNext
    <2> QED BY <1>1, <1>2, <2>1, StaysStep DEF ContentShape
  <1>4. CASE UNCHANGED contentVars
    <2>1. UNCHANGED vars /\ UNCHANGED crossed BY <1>4 DEF contentVars
    <2>2. Crossing' <=> Crossing BY <2>1 DEF vars, procVars, Crossing, Installs, Reconciles
    <2> QED BY <1>1, <1>2, <2>1, <2>2, StaysStep DEF ContentShape
  <1> QED BY <1>3, <1>4

LEMMA ContentStart == ContentInit => ContentShape
  <1> SUFFICES ASSUME ContentInit PROVE ContentShape
    OBVIOUS
  <1>1. EnabledShape BY DEF ContentInit, Init, EnabledShape
  <1>2. ~Crossing BY DEF ContentInit, Init, Crossing, Installs
  <1>3. Stays
    BY DEF ContentInit, Init, Stays, Relies, Reconciles, PinnedContentKept
  <1> QED BY <1>1, <1>2, <1>3 DEF ContentShape

(* ContentKeptInUse (PluginContent), of reconcile_one and commit: for any  *)
(* number of requests, builds, executions and crashes the packages of      *)
(* pinned builds and of enabled records stay, unless an installation       *)
(* crosses another one or a reconciliation.                                *)
THEOREM ContentIsKeptInUse == ContentSpec => []ContentKeptInUse
  <1>1. ContentShape => ContentKeptInUse
    BY DEF ContentShape, EnabledShape, Stays, ContentKeptInUse, ContentKept,
           EnabledRecordLoads, Loadable, EnabledBuild
  <1>2. ContentSpec => Spec
    <2>1. ContentInit => Init BY DEF ContentInit
    <2>2. [ContentNext]_contentVars => [Next]_vars BY DEF ContentNext, contentVars
    <2> QED BY <2>1, <2>2, PTL DEF ContentSpec, Spec
  <1> QED BY <1>1, <1>2, ContentStart, ContentStep, TypeInvariant, PinsProtectRecords, PTL
          DEF ContentSpec

----------------------------------------------------------------------------
(***************************************************************************)
(* Packages on their way in (PackageStaging).                              *)
(***************************************************************************)
Fetching == {"resolve", "fetch", "inspect"}
Committing == {"verify", "destination", "place", "upsert", "forget", "sweep"}
Discarding == {"discard", "emptying", "drop"}
Settlers == Committing \cup Discarding
TaskType ==
  [pc : {"idle", "slot"} \cup Fetching \cup Settlers, origin : Origins \cup {Missing},
   plugin : Plugins \cup {Missing}, id : 0 .. MaxReviews,
   resolved : Packages \cup {Missing}, package : Packages \cup {Missing},
   reused : BOOLEAN]
Contents == Packages \cup {Partial, Missing}

StagingShape ==
  /\ serves \in [Origins -> Packages \cup {Missing}]
  /\ handler \in [Handlers -> TaskType]
  /\ staging \in [ReviewIds -> Contents] /\ placed \in [Packages -> Contents]
  /\ reviews \in [ReviewIds -> ReviewRows \cup {Missing}]
  /\ records \in [Plugins -> RecordRows \cup {Missing}]
  /\ issued \in 0 .. MaxReviews /\ approvals \subseteq Packages
  /\ \A i \in ReviewIds : i > issued => reviews[i] = Missing /\ staging[i] = Missing

\* What a request has, by the step it is at.
Bears(h) ==
  LET k == handler[h] IN
  /\ k.id <= issued
  /\ k.pc \in {"idle", "slot"} => k.id = 0
  /\ k.pc \in {"idle", "slot", "resolve", "fetch"} => k.package = Missing
  /\ k.pc \in {"slot"} \cup Fetching \cup Committing => k.origin \in Origins
  /\ k.pc \in Fetching => k.id # 0 /\ reviews[k.id] = Missing
  /\ k.pc = "inspect" =>
       /\ k.package \in Packages /\ staging[k.id] = k.package
       /\ k.resolved \in {Missing, k.package}
  /\ k.pc \in Settlers => k.id # 0 /\ k.package \in Packages
  /\ k.pc \in Settlers /\ reviews[k.id] # Missing => reviews[k.id].package = k.package
  /\ k.pc \in Committing => k.package \in approvals

\* Requests that have the same id settle the same review.
SameReview ==
  \A h, k \in Handlers :
    h # k /\ handler[h].id = handler[k].id /\ handler[h].id # 0 =>
      /\ handler[h].pc \in Settlers /\ handler[k].pc \in Settlers
      /\ handler[h].package = handler[k].package

\* A request that has met another one at its package is on record.
Met(h) == <<handler[h].id, handler[h].package>> \in contended
MetRecorded ==
  \A h, k \in Handlers :
    /\ h # k /\ handler[h].pc \in Settlers /\ handler[k].pc \in Settlers
    /\ handler[h].package = handler[k].package
    => Met(h)

\* What a request that met no other knows of its directories.
Knows(h) ==
  LET k == handler[h]
      i == k.id
      p == k.package
  IN
  /\ k.pc = "verify" => staging[i] = p \/ Spoilt(i)
  /\ k.pc \in {"destination", "place"} => staging[i] = p \/ Met(h)
  /\ k.pc = "place" /\ k.reused => placed[p] = p \/ Met(h)
  /\ k.pc = "upsert" => placed[p] = p \/ Met(h)
  /\ k.pc \in {"upsert", "forget"} /\ k.reused => staging[i] = p \/ Met(h)
  /\ k.pc \in {"upsert", "forget"} /\ ~k.reused => staging[i] = Missing \/ Met(h)
  /\ k.pc = "sweep" => reviews[i] = Missing
  /\ k.pc \in Settlers \ {"sweep"} => reviews[i] # Missing \/ Met(h)
  /\ k.pc = "drop" => staging[i] = Missing \/ Met(h)

\* A directory that may be moved back belongs to no record.
Shared(p) == \E c \in contended : c[2] = p
Unrecorded(h) ==
  handler[h].pc = "upsert" /\ ~handler[h].reused =>
    \/ Shared(handler[h].package)
    \/ \A x \in Plugins : records[x] # Missing => records[x].package # handler[h].package

ReviewHolds(i) ==
  /\ reviews[i] # Missing =>
       /\ Inspected(reviews[i].package)
       /\ reviews[i].resolved # Missing => reviews[i].package = reviews[i].resolved
       /\ staging[i] = reviews[i].package \/ AtWork(i) \/ Spoilt(i)
  /\ reviews[i] = Missing /\ staging[i] # Missing => AtWork(i) \/ Spoilt(i)

StagingInv ==
  /\ StagingShape /\ SameReview /\ MetRecorded /\ InstalledAsApproved
  /\ \A h \in Handlers : Bears(h) /\ Knows(h) /\ Unrecorded(h)
  /\ \A i \in ReviewIds : ReviewHolds(i)

LEMMA StagingFacts ==
  ASSUME StagingInv, NEW h \in Handlers
  PROVE  /\ Bears(h) /\ Knows(h) /\ Unrecorded(h)
         /\ handler \in [Handlers -> TaskType] /\ handler[h] \in TaskType
         /\ handler[h].pc \in {"idle", "slot"} \cup Fetching \cup Settlers
         /\ handler[h].id \in 0 .. MaxReviews /\ handler[h].reused \in BOOLEAN
         /\ handler[h].package \in Packages \cup {Missing}
         /\ handler[h].resolved \in Packages \cup {Missing}
         /\ handler[h].origin \in Origins \cup {Missing}
         /\ issued \in 0 .. MaxReviews /\ MaxReviews \in Nat
         /\ staging \in [ReviewIds -> Contents] /\ placed \in [Packages -> Contents]
         /\ reviews \in [ReviewIds -> ReviewRows \cup {Missing}]
         /\ records \in [Plugins -> RecordRows \cup {Missing}]
         /\ approvals \subseteq Packages
  BY StagingAssumption DEF StagingInv, StagingShape, TaskType

LEMMA NoTaskTyped == NoTask \in TaskType /\ NoTask.pc = "idle" /\ NoTask.id = 0
                     /\ NoTask.package = Missing /\ NoTask.origin = Missing
                     /\ NoTask.plugin = Missing /\ NoTask.resolved = Missing
                     /\ NoTask.reused = FALSE
  BY StagingAssumption DEF NoTask, TaskType

\* Requests at one package are on record after every step.
LEMMA MetAfter ==
  ASSUME handler' \in [Handlers -> TaskType],
         \A h \in Handlers : Bears(h)', contended' = contended \cup Contending'
  PROVE  MetRecorded'
  <1> SUFFICES ASSUME NEW h \in Handlers, NEW k \in Handlers, h # k,
                      handler'[h].pc \in Settlers, handler'[k].pc \in Settlers,
                      handler'[h].package = handler'[k].package
               PROVE  <<handler'[h].id, handler'[h].package>> \in contended'
    BY DEF MetRecorded, Met
  <1>1. handler'[h].package \in Packages /\ handler'[h].package # Missing
    BY RowsDistinct DEF Bears
  <1>2. "inspect" \notin Settlers
    BY DEF Settlers, Committing, Discarding
  <1>3. Settling(h)' /\ Settling(k)'
    BY <1>1, <1>2 DEF Settling, Is
  <1>4. <<handler'[h].id, handler'[h].package>> \in Contending'
    BY <1>3 DEF Contending
  <1> QED BY <1>4

\* A step of one request leaves the others what they have and know.
LEMMA OneRequest ==
  ASSUME StagingInv, NEW h \in Handlers, NEW t \in TaskType,
         handler' = [handler EXCEPT ![h] = t], contended' = contended \cup Contending',
         StagingShape', Bears(h)', Knows(h)', Unrecorded(h)', InstalledAsApproved',
         issued <= issued', approvals \subseteq approvals', abandoned \subseteq abandoned',
         \A i \in ReviewIds : i <= issued /\ i # handler[h].id =>
           staging'[i] = staging[i] /\ reviews'[i] = reviews[i],
         \A i \in ReviewIds : i > issued /\ i # t.id =>
           staging'[i] = staging[i] /\ reviews'[i] = reviews[i],
         \A q \in Packages : \/ handler[h].pc \in Settlers /\ q = handler[h].package
                            \/ placed'[q] = placed[q],
         handler[h].pc \in Settlers =>
           \A i \in ReviewIds : reviews'[i] \in {reviews[i], Missing},
         \A x \in Plugins : records'[x] # Missing =>
           \/ records[x] # Missing /\ records'[x].package = records[x].package
           \/ handler[h].pc \in Settlers /\ records'[x].package = handler[h].package,
         \A k \in Handlers \ {h} : t.id # 0 /\ t.id = handler[k].id =>
           /\ t.pc \in Settlers /\ handler[k].pc \in Settlers
           /\ t.package = handler[k].package,
         \A i \in ReviewIds : i \in {handler[h].id, t.id} => ReviewHolds(i)'
  PROVE  StagingInv'
  <1>0. /\ handler'[h] = t /\ handler' \in [Handlers -> TaskType]
        /\ \A k \in Handlers \ {h} : handler'[k] = handler[k]
        /\ contended \subseteq contended'
    BY StagingFacts
  <1>1. ASSUME NEW k \in Handlers \ {h} PROVE Bears(k)' /\ Knows(k)' /\ Unrecorded(k)'
    <2>0. /\ Bears(k) /\ Knows(k) /\ Unrecorded(k) /\ handler'[k] = handler[k]
          /\ handler[k].id \in 0 .. MaxReviews /\ issued \in 0 .. MaxReviews
          /\ handler[k].id # 0 => handler[k].id \in ReviewIds
          /\ issued' \in 0 .. MaxReviews
      BY <1>0, StagingFacts DEF ReviewIds, StagingShape
    <2>1. Met(k) => Met(k)'
      BY <1>0 DEF Met
    <2>2. \A i : Spoilt(i) => Spoilt(i)'
      BY <1>0 DEF Spoilt
    <2>3. CASE handler[k].id # 0 /\ handler[k].id = handler[h].id
      <3>1. /\ handler[k].pc \in Settlers /\ handler[h].pc \in Settlers
            /\ handler[k].package = handler[h].package /\ Met(k)
        BY <2>3 DEF StagingInv, SameReview, MetRecorded
      <3>2. reviews'[handler[k].id] \in {reviews[handler[k].id], Missing}
        BY <2>0, <2>3, <3>1
      <3>3. Bears(k)'
        <4>1. /\ handler[k].pc \notin {"idle", "slot"} \cup Fetching
          BY <3>1 DEF Settlers, Committing, Discarding, Fetching
        <4> QED BY <2>0, <3>1, <3>2, <4>1 DEF Bears, Fetching
      <3>4. Spoilt(handler[k].id)' /\ Shared(handler[k].package)'
        BY <1>0, <3>1 DEF Met, Spoilt, Shared
      <3> QED BY <2>0, <2>1, <3>1, <3>2, <3>3, <3>4 DEF Knows, Unrecorded
    <2>4. CASE handler[k].id # 0 /\ handler[k].id # handler[h].id
      <3>1. /\ staging'[handler[k].id] = staging[handler[k].id]
            /\ reviews'[handler[k].id] = reviews[handler[k].id]
        BY <2>0, <2>4 DEF Bears
      <3>2. Bears(k)'
        BY <2>0, <3>1 DEF Bears
      <3>3. CASE /\ handler[k].pc \in Settlers /\ handler[h].pc \in Settlers
                 /\ handler[k].package = handler[h].package
        <4>1. Met(k) /\ Shared(handler[k].package)'
          BY <1>0, <3>3 DEF StagingInv, MetRecorded, Met, Shared
        <4> QED BY <2>0, <2>1, <2>2, <3>1, <3>2, <4>1 DEF Knows, Unrecorded
      <3>4. CASE ~(/\ handler[k].pc \in Settlers /\ handler[h].pc \in Settlers
                   /\ handler[k].package = handler[h].package)
        <4>1. handler[k].pc \in {"place", "upsert"} =>
                placed'[handler[k].package] = placed[handler[k].package]
          BY <2>0, <3>4 DEF Bears, Settlers, Committing
        <4>2. Knows(k)'
          BY <2>0, <2>1, <2>2, <3>1, <4>1 DEF Knows
        <4>3. Unrecorded(k)'
          <5>1. Shared(handler[k].package) => Shared(handler[k].package)'
            BY <1>0 DEF Shared
          <5>2. "upsert" \in Settlers
            BY DEF Settlers, Committing
          <5> QED BY <2>0, <3>4, <5>1, <5>2 DEF Unrecorded
        <4> QED BY <3>2, <4>2, <4>3
      <3> QED BY <3>3, <3>4
    <2>5. CASE handler[k].id = 0
      <3>1. handler[k].pc \in {"idle", "slot"}
        BY <2>0, <2>5, StagingFacts DEF Bears
      <3>2. handler[k].pc \notin Fetching \cup Settlers
        BY <3>1 DEF Fetching, Settlers, Committing, Discarding
      <3>3. Bears(k)'
        BY <2>0, <2>5, <3>1, <3>2 DEF Bears, Committing, Settlers, Fetching
      <3> QED BY <2>0, <3>1, <3>2, <3>3 DEF Knows, Unrecorded
    <2> QED BY <2>3, <2>4, <2>5
  <1>2. SameReview'
    <2> SUFFICES ASSUME NEW g \in Handlers, NEW k \in Handlers, g # k,
                        handler'[g].id = handler'[k].id, handler'[g].id # 0
                 PROVE  /\ handler'[g].pc \in Settlers /\ handler'[k].pc \in Settlers
                        /\ handler'[g].package = handler'[k].package
      BY DEF SameReview
    <2>1. CASE g # h /\ k # h
      BY <1>0, <2>1 DEF StagingInv, SameReview
    <2> QED BY <1>0, <2>1
  <1>3. MetRecorded'
    BY <1>0, <1>1, MetAfter
  <1>4. ASSUME NEW i \in ReviewIds PROVE ReviewHolds(i)'
    <2>1. CASE i \in {handler[h].id, t.id}
      BY <2>1
    <2>2. CASE i \notin {handler[h].id, t.id}
      <3>1. staging'[i] = staging[i] /\ reviews'[i] = reviews[i]
        <4>1. i \in Nat /\ issued \in Nat
          BY StagingFacts DEF ReviewIds
        <4> QED BY <2>2, <4>1
      <3>2. AtWork(i) => AtWork(i)'
        BY <1>0, <2>2 DEF AtWork
      <3>3. Spoilt(i) => Spoilt(i)'
        BY <1>0 DEF Spoilt
      <3>4. ReviewHolds(i)
        BY DEF StagingInv
      <3> QED BY <3>1, <3>2, <3>3, <3>4 DEF ReviewHolds
    <2> QED BY <2>1, <2>2
  <1> QED BY <1>0, <1>1, <1>2, <1>3, <1>4 DEF StagingInv

\* A request that leaves the tables and the disk alone, and the review it
\* leaves, if it leaves one, as it may be found.
Rests(i) ==
  /\ reviews[i] # Missing => staging[i] = reviews[i].package \/ Spoilt(i)
  /\ reviews[i] = Missing /\ staging[i] # Missing => Spoilt(i)

LEMMA QuietRequest ==
  ASSUME StagingInv, NEW h \in Handlers, NEW t \in TaskType,
         handler' = [handler EXCEPT ![h] = t], contended' = contended \cup Contending',
         UNCHANGED <<serves, issued, staging, placed, reviews, records>>,
         approvals \subseteq approvals', approvals' \subseteq Packages,
         abandoned \subseteq abandoned',
         Bears(h)', Knows(h)', Unrecorded(h)',
         \A k \in Handlers \ {h} : t.id # 0 /\ t.id = handler[k].id =>
           /\ t.pc \in Settlers /\ handler[k].pc \in Settlers
           /\ t.package = handler[k].package,
         t.id = handler[h].id \/ \A i \in ReviewIds : i = handler[h].id => Rests(i)'
  PROVE  StagingInv'
  <1>0. handler' \in [Handlers -> TaskType] /\ handler'[h] = t /\ contended \subseteq contended'
    BY StagingFacts
  <1>1. StagingShape'
    BY <1>0 DEF StagingInv, StagingShape
  <1>2. InstalledAsApproved'
    BY <1>0 DEF StagingInv, InstalledAsApproved
  <1>3. ASSUME NEW i \in ReviewIds, i \in {handler[h].id, t.id} PROVE ReviewHolds(i)'
    <2>1. ReviewHolds(i)
      BY DEF StagingInv
    <2>2. CASE i = t.id
      <3>1. AtWork(i)'
        BY <1>0, <2>2 DEF AtWork
      <3> QED BY <2>1, <3>1 DEF ReviewHolds
    <2>3. CASE i # t.id
      <3>1. Rests(i)'
        BY <1>3, <2>3
      <3> QED BY <2>1, <3>1 DEF ReviewHolds, Rests
    <2> QED BY <2>2, <2>3
  <1>4. /\ issued <= issued'
        /\ \A x \in Plugins : records'[x] # Missing =>
             records[x] # Missing /\ records'[x].package = records[x].package
        /\ \A i \in ReviewIds : staging'[i] = staging[i] /\ reviews'[i] = reviews[i]
        /\ \A q \in Packages : placed'[q] = placed[q]
    BY StagingFacts
  <1> QED BY <1>1, <1>2, <1>3, <1>4, OneRequest

\* A request that gives its answer has nothing any more.
LEMMA Answered ==
  ASSUME NEW h \in Handlers, handler \in [Handlers -> TaskType], Reply(h), issued' \in Nat
  PROVE  /\ NoTask \in TaskType /\ handler' = [handler EXCEPT ![h] = NoTask]
         /\ handler'[h] = NoTask
         /\ Bears(h)' /\ Knows(h)' /\ Unrecorded(h)' /\ NoTask.id = 0
  <1>1. handler'[h] = NoTask /\ handler' = [handler EXCEPT ![h] = NoTask]
    BY DEF Reply
  <1>2. NoTask.pc \notin Fetching \cup Settlers
    BY NoTaskTyped DEF Fetching, Settlers, Committing, Discarding
  <1>3. Bears(h)'
    BY <1>1, <1>2, NoTaskTyped DEF Bears, Fetching, Settlers
  <1>4. Knows(h)'
    BY <1>1, <1>2, NoTaskTyped DEF Knows
  <1> QED BY <1>1, <1>3, <1>4, NoTaskTyped DEF Unrecorded

\* What a request that settles a review leaves when it stops.
LEMMA QuietReply ==
  ASSUME StagingInv, NEW h \in Handlers, Reply(h), contended' = contended \cup Contending',
         UNCHANGED <<serves, issued, staging, placed, reviews, records, approvals>>,
         abandoned \subseteq abandoned',
         handler[h].id = 0 \/ Rests(handler[h].id) \/ handler[h].id \in abandoned'
  PROVE  StagingInv'
  <1>0. handler \in [Handlers -> TaskType] /\ issued' \in Nat /\ approvals \subseteq Packages
        /\ contended \subseteq contended'
    BY StagingFacts
  <1>1. ASSUME NEW i \in ReviewIds, i = handler[h].id PROVE Rests(i)'
    <2>1. Spoilt(i) => Spoilt(i)'
      BY <1>0 DEF Spoilt
    <2>2. i # 0
      BY DEF ReviewIds
    <2> QED BY <1>1, <2>1, <2>2 DEF Rests, Spoilt
  <1> QED BY <1>0, <1>1, Answered, QuietRequest

\* Requests that begin.
LEMMA AskStep ==
  ASSUME StagingInv, NEW h \in Handlers, Ask(h), contended' = contended \cup Contending'
  PROVE  StagingInv'
  <1>0. /\ handler[h].pc = "idle" /\ handler[h].id = 0
        /\ handler \in [Handlers -> TaskType] /\ issued \in Nat /\ approvals \subseteq Packages
        /\ records \in [Plugins -> RecordRows \cup {Missing}]
        /\ reviews \in [ReviewIds -> ReviewRows \cup {Missing}]
    <2>1. handler[h].pc = "idle"
      BY DEF Ask, StartPrepare, StartUpdate, CommitReview, StartDiscard, Is
    <2>2. handler[h].id = 0
      BY <2>1, StagingFacts DEF Bears
    <2> QED BY <2>1, <2>2, StagingFacts
  <1> DEFINE n == NoTask
  <1>n. n \in TaskType /\ n.id = 0 /\ n.package = Missing
    BY NoTaskTyped
  <1>1. \A i \in ReviewIds : i # handler[h].id
    BY <1>0 DEF ReviewIds
  <1>2. ASSUME NEW t \in TaskType, t.pc = "slot", t.id = 0, t.package = Missing,
               t.origin \in Origins, handler' = [handler EXCEPT ![h] = t],
               UNCHANGED <<serves, issued, diskVars, storeRows, historyVars>>
        PROVE  StagingInv'
    <2>1. handler'[h] = t
      BY <1>0, <1>2
    <2>2. t.pc \notin Fetching \cup Settlers /\ t.pc \notin Committing /\ "inspect" # t.pc
      BY <1>2 DEF Fetching, Settlers, Committing, Discarding
    <2>3. Bears(h)'
      BY <1>0, <1>2, <2>1, <2>2 DEF Bears
    <2>4. Knows(h)' /\ Unrecorded(h)'
      BY <1>2, <2>1, <2>2 DEF Knows, Unrecorded
    <2>5. UNCHANGED <<serves, issued, staging, placed, reviews, records, approvals, abandoned>>
      BY <1>2 DEF diskVars, storeRows, historyVars
    <2> QED BY <1>0, <1>1, <1>2, <2>3, <2>4, <2>5, QuietRequest
  <1>3. ASSUME NEW o \in Reachable, StartPrepare(h, o) PROVE StagingInv'
    <2> DEFINE t == [n EXCEPT !.pc = "slot", !.origin = o]
    <2>1. o \in Origins
      BY DEF Reachable
    <2>3. /\ handler' = [handler EXCEPT ![h] = t]
          /\ UNCHANGED <<serves, issued, diskVars, storeRows, historyVars>>
      BY <1>3 DEF StartPrepare
    <2> HIDE DEF n
    <2>4. t \in TaskType /\ t.pc = "slot" /\ t.id = 0 /\ t.package = Missing /\ t.origin = o
      BY <1>n, <2>1 DEF TaskType
    <2> HIDE DEF t
    <2> QED BY <1>2, <2>1, <2>3, <2>4
  <1>4. ASSUME NEW x \in Plugins, NEW given \in Reachable \cup {Missing},
               StartUpdate(h, x, given)
        PROVE  StagingInv'
    <2> DEFINE o == IF given = Missing THEN records[x].origin ELSE given
               t == [n EXCEPT !.pc = "slot", !.plugin = x, !.origin = o]
    <2>1. o \in Origins
      BY <1>0, <1>4 DEF StartUpdate, RecordRows, Reachable
    <2>2. /\ handler' = [handler EXCEPT ![h] = t]
          /\ UNCHANGED <<serves, issued, diskVars, storeRows, historyVars>>
      BY <1>4 DEF StartUpdate
    <2> HIDE DEF o, n
    <2>3. t \in TaskType /\ t.pc = "slot" /\ t.id = 0 /\ t.package = Missing /\ t.origin = o
      BY <1>n, <2>1 DEF TaskType
    <2> HIDE DEF t
    <2> QED BY <1>2, <2>1, <2>2, <2>3
  <1>5. ASSUME NEW i \in ReviewIds, Reviewed(i), NEW t \in TaskType,
               t.pc \in {"verify", "discard"}, t.id = i, t.package = reviews[i].package,
               t.pc = "verify" => t.origin \in Origins /\ reviews[i].package \in approvals',
               handler' = [handler EXCEPT ![h] = t],
               UNCHANGED <<serves, issued, diskVars, storeRows, abandoned>>,
               approvals' \in {approvals, approvals \cup {reviews[i].package}}
        PROVE  StagingInv'
    <2>1. /\ reviews[i] # Missing /\ reviews[i] \in ReviewRows /\ t.package \in Packages
          /\ i # 0 /\ i \in Nat
      BY <1>0, <1>5 DEF Reviewed, ReviewRows, ReviewIds
    <2>2. i <= issued
      BY <1>0, <2>1 DEF StagingInv, StagingShape
    <2>3. handler'[h] = t
      BY <1>0, <1>5
    <2>4. t.pc \in Settlers \ {"sweep"} /\ t.pc \notin {"idle", "slot"} \cup Fetching
      BY <1>5 DEF Fetching, Settlers, Committing, Discarding
    <2>5. Bears(h)'
      BY <1>5, <2>1, <2>2, <2>3, <2>4 DEF Bears, Fetching, storeRows, Committing
    <2>6. ASSUME t.pc = "verify" PROVE (staging[i] = t.package \/ Spoilt(i))'
      <3>1. staging[i] = reviews[i].package \/ AtWork(i) \/ Spoilt(i)
        BY <2>1 DEF StagingInv, ReviewHolds
      <3>2. ASSUME NEW k \in Handlers, handler[k].id = i PROVE Spoilt(i)'
        <4>1. k # h
          BY <1>1, <3>2
        <4>2. handler[k].pc \in Settlers /\ handler[k].package = t.package
          <5>1. Bears(k) /\ handler[k].pc \in {"idle", "slot"} \cup Fetching \cup Settlers
            BY StagingFacts
          <5>2. handler[k].pc \in Settlers
            BY <2>1, <3>2, <5>1 DEF Bears
          <5> QED BY <1>5, <2>1, <3>2, <5>1, <5>2 DEF Bears
        <4>3. /\ handler'[k] = handler[k] /\ "inspect" \notin Settlers
              /\ handler'[k].package # Missing /\ handler'[h].package # Missing
          BY <1>5, <2>1, <2>3, <4>1, <4>2, RowsDistinct DEF Settlers, Committing, Discarding
        <4>4. Settling(h)' /\ Settling(k)'
          BY <2>3, <2>4, <4>2, <4>3 DEF Settling, Is
        <4>5. <<i, t.package>> \in Contending'
          BY <1>5, <2>3, <4>1, <4>2, <4>3, <4>4 DEF Contending
        <4> QED BY <4>5 DEF Spoilt
      <3>3. AtWork(i) => Spoilt(i)'
        BY <3>2 DEF AtWork
      <3>4. Spoilt(i) => Spoilt(i)'
        BY <1>5 DEF Spoilt
      <3> QED BY <1>5, <3>1, <3>3, <3>4 DEF diskVars
    <2>7. Knows(h)'
      BY <1>5, <2>1, <2>3, <2>6 DEF Knows, storeRows
    <2>8. Unrecorded(h)'
      BY <1>5, <2>3 DEF Unrecorded
    <2>9. ASSUME NEW k \in Handlers \ {h}, handler[k].id = i
          PROVE  handler[k].pc \in Settlers /\ handler[k].package = t.package
      <3>1. Bears(k) /\ handler[k].pc \in {"idle", "slot"} \cup Fetching \cup Settlers
        BY StagingFacts
      <3>2. handler[k].pc \in Settlers
        BY <2>1, <2>9, <3>1 DEF Bears
      <3> QED BY <1>5, <2>1, <2>9, <3>1, <3>2 DEF Bears
    <2>10. /\ UNCHANGED <<serves, issued, staging, placed, reviews, records, abandoned>>
           /\ approvals \subseteq approvals' /\ approvals' \subseteq Packages
      BY <1>0, <1>5, <2>1 DEF diskVars, storeRows
    <2> QED BY <1>1, <1>5, <2>4, <2>5, <2>7, <2>8, <2>9, <2>10, QuietRequest
  <1>6. ASSUME NEW i \in ReviewIds, CommitReview(h, i) PROVE StagingInv'
    <2> DEFINE t == [n EXCEPT !.pc = "verify", !.id = i,
                       !.package = reviews[i].package, !.origin = reviews[i].origin]
    <2>0. reviews[i] \in ReviewRows
      BY <1>0, <1>6 DEF CommitReview, Reviewed
    <2>1. /\ t \in TaskType /\ t.pc = "verify" /\ t.id = i
          /\ t.package = reviews[i].package /\ t.origin \in Origins
      <3>1. /\ i \in 0 .. MaxReviews /\ "verify" \in Settlers
            /\ reviews[i].package \in Packages /\ reviews[i].origin \in Origins
        BY <2>0, StagingAssumption DEF ReviewIds, ReviewRows, Settlers, Committing
      <3> HIDE DEF n
      <3> QED BY <1>n, <3>1 DEF TaskType
    <2>2. handler' = [handler EXCEPT ![h] = t]
      BY <1>6 DEF CommitReview
    <2> HIDE DEF t
    <2>3. /\ UNCHANGED <<serves, issued, diskVars, storeRows, abandoned>> /\ Reviewed(i)
          /\ approvals' = approvals \cup {reviews[i].package}
      BY <1>6 DEF CommitReview
    <2> QED BY <1>5, <2>1, <2>2, <2>3
  <1>7. ASSUME NEW i \in ReviewIds, StartDiscard(h, i) PROVE StagingInv'
    <2> DEFINE t == [n EXCEPT !.pc = "discard", !.id = i, !.package = reviews[i].package]
    <2>0. reviews[i] \in ReviewRows
      BY <1>0, <1>7 DEF StartDiscard, Reviewed
    <2>1. /\ t \in TaskType /\ t.pc = "discard" /\ t.id = i
          /\ t.package = reviews[i].package
      <3>1. /\ i \in 0 .. MaxReviews /\ "discard" \in Settlers
            /\ reviews[i].package \in Packages
        BY <2>0, StagingAssumption DEF ReviewIds, ReviewRows, Settlers, Discarding
      <3> HIDE DEF n
      <3> QED BY <1>n, <3>1 DEF TaskType
    <2>2. handler' = [handler EXCEPT ![h] = t]
      BY <1>7 DEF StartDiscard
    <2> HIDE DEF t
    <2>3. /\ UNCHANGED <<serves, issued, diskVars, storeRows, abandoned, approvals>>
          /\ Reviewed(i)
      BY <1>7 DEF StartDiscard, historyVars
    <2> QED BY <1>5, <2>1, <2>2, <2>3
  <1> QED BY <1>3, <1>4, <1>6, <1>7 DEF Ask

\* A request that keeps its id, and the tables and the disk as they are.
LEMMA QuietGoOn ==
  ASSUME StagingInv, NEW h \in Handlers, NEW t \in TaskType,
         handler' = [handler EXCEPT ![h] = t], contended' = contended \cup Contending',
         UNCHANGED <<serves, issued, staging, placed, reviews, records, approvals, abandoned>>,
         Bears(h)', Knows(h)', Unrecorded(h)', t.id = handler[h].id,
         handler[h].pc \in Settlers => t.pc \in Settlers /\ t.package = handler[h].package
  PROVE  StagingInv'
  <1>1. \A k \in Handlers \ {h} : t.id # 0 /\ t.id = handler[k].id =>
          /\ t.pc \in Settlers /\ handler[k].pc \in Settlers
          /\ t.package = handler[k].package
    BY DEF StagingInv, SameReview
  <1>2. approvals' \subseteq Packages
    BY StagingFacts
  <1> QED BY <1>1, <1>2, QuietRequest

\* A request that changes the directory or the row of its own review.
LEMMA OwnReview ==
  ASSUME StagingInv, NEW h \in Handlers, NEW t \in TaskType,
         handler' = [handler EXCEPT ![h] = t], contended' = contended \cup Contending',
         UNCHANGED <<serves, issued, placed, records, approvals>>, abandoned \subseteq abandoned',
         NEW i \in ReviewIds, i = handler[h].id, t.id \in {0, i},
         NEW c \in Contents, staging' = [staging EXCEPT ![i] = c],
         NEW r \in ReviewRows \cup {Missing}, reviews' = [reviews EXCEPT ![i] = r],
         handler[h].pc \in Settlers => r \in {reviews[i], Missing},
         t.id = i /\ handler[h].pc \in Settlers =>
           t.pc \in Settlers /\ t.package = handler[h].package,
         Bears(h)', Knows(h)', Unrecorded(h)', ReviewHolds(i)'
  PROVE  StagingInv'
  <1>0. /\ handler' \in [Handlers -> TaskType] /\ contended \subseteq contended'
        /\ staging \in [ReviewIds -> Contents] /\ issued \in Nat /\ i \in Nat /\ i # 0
        /\ reviews \in [ReviewIds -> ReviewRows \cup {Missing}] /\ i <= issued
    BY StagingFacts DEF ReviewIds, Bears
  <1>1. \A k \in Handlers \ {h} : t.id # 0 /\ t.id = handler[k].id =>
          /\ t.pc \in Settlers /\ handler[k].pc \in Settlers
          /\ t.package = handler[k].package
    BY <1>0 DEF StagingInv, SameReview
  <1>2. StagingShape'
    BY <1>0 DEF StagingInv, StagingShape
  <1>3. InstalledAsApproved'
    BY <1>0 DEF StagingInv, InstalledAsApproved
  <1>4. /\ \A j \in ReviewIds : j # i => staging'[j] = staging[j] /\ reviews'[j] = reviews[j]
        /\ reviews'[i] = r
    BY <1>0
  <1>5. \A j \in ReviewIds : j \in {handler[h].id, t.id} => ReviewHolds(j)'
    BY <1>0 DEF ReviewIds
  <1>6. /\ \A j \in ReviewIds : j <= issued /\ j # handler[h].id =>
             staging'[j] = staging[j] /\ reviews'[j] = reviews[j]
        /\ \A j \in ReviewIds : j > issued /\ j # t.id =>
             staging'[j] = staging[j] /\ reviews'[j] = reviews[j]
        /\ handler[h].pc \in Settlers =>
             \A j \in ReviewIds : reviews'[j] \in {reviews[j], Missing}
    BY <1>0, <1>4
  <1>7. /\ issued <= issued'
        /\ \A q \in Packages : placed'[q] = placed[q]
        /\ \A x \in Plugins : records'[x] # Missing =>
             records[x] # Missing /\ records'[x].package = records[x].package
    BY <1>0
  <1> QED BY <1>1, <1>2, <1>3, <1>5, <1>6, <1>7, OneRequest

LEMMA PrepareStep ==
  ASSUME StagingInv, NEW h \in Handlers, contended' = contended \cup Contending',
         \/ AcquireSlot(h) \/ SlotTimeout(h) \/ Resolve(h) \/ StagePackage(h)
         \/ StageFails(h) \/ Reject(h) \/ Save(h) \/ SaveFails(h) \/ LoseClient(h)
  PROVE  StagingInv'
  <1>k. PICK k \in TaskType : k = handler[h]
    BY StagingFacts
  <1>i. PICK i \in 0 .. MaxReviews : i = k.id
    BY DEF TaskType
  <1>0. /\ handler \in [Handlers -> TaskType] /\ Bears(h)
        /\ issued \in 0 .. MaxReviews /\ issued \in Nat /\ MaxReviews \in Nat
        /\ staging \in [ReviewIds -> Contents]
        /\ reviews \in [ReviewIds -> ReviewRows \cup {Missing}]
        /\ serves \in [Origins -> Packages \cup {Missing}] /\ contended \subseteq contended'
    BY StagingFacts DEF StagingInv, StagingShape
  <1>1. k.pc \in {"idle", "slot"} => i = 0
    BY <1>0, <1>i, <1>k DEF Bears
  <1>2. k.pc \in Fetching =>
          /\ i \in ReviewIds /\ i <= issued /\ reviews[i] = Missing /\ k.origin \in Origins
          /\ k.pc \notin Settlers
    BY <1>0, <1>i, <1>k DEF Bears, ReviewIds, Fetching, Settlers, Committing, Discarding
  <1>3. k.pc = "inspect" =>
          /\ k.package \in Packages /\ staging[i] = k.package
          /\ k.resolved \in {Missing, k.package}
    BY <1>0, <1>i, <1>k DEF Bears
  \* Nothing is left of a preparation that fails.
  <1>4. ASSUME k.pc \in Fetching, Dir(h, Missing), Reply(h),
               UNCHANGED <<serves, issued, placed, storeRows, historyVars>>
        PROVE  StagingInv'
    <2>1. /\ NoTask \in TaskType /\ handler' = [handler EXCEPT ![h] = NoTask]
          /\ Bears(h)' /\ Knows(h)' /\ Unrecorded(h)' /\ NoTask.id = 0
      BY <1>0, <1>4, Answered
    <2>2. /\ UNCHANGED <<serves, issued, placed, records, reviews, approvals, abandoned>>
          /\ staging' = [staging EXCEPT ![i] = Missing]
      BY <1>4, <1>i, <1>k DEF storeRows, historyVars, Dir
    <2>3. /\ reviews' = [reviews EXCEPT ![i] = Missing] /\ Missing \in Contents
          /\ reviews'[i] = Missing /\ staging'[i] = Missing
      BY <1>0, <1>2, <1>4, <2>2 DEF Contents
    <2>4. ReviewHolds(i)'
      BY <2>3 DEF ReviewHolds
    <2> QED BY <1>2, <1>4, <1>i, <1>k, <2>1, <2>2, <2>3, <2>4, OwnReview
  <1>5. CASE AcquireSlot(h)
    <2>0. /\ k.pc = "slot" /\ i = 0 /\ k.origin \in Origins /\ k.package = Missing
      BY <1>0, <1>1, <1>5, <1>k DEF AcquireSlot, Is, Bears
    <2>1. PICK j \in ReviewIds : j = issued + 1
      BY <1>0, <1>5 DEF AcquireSlot, ReviewIds
    <2>2. PICK step \in {"fetch", "resolve"} :
            handler' = [handler EXCEPT ![h].id = j, ![h].pc = step]
      BY <1>5, <2>1 DEF AcquireSlot
    <2> DEFINE t == [k EXCEPT !.id = j, !.pc = step]
    <2>3. /\ t \in TaskType /\ t.id = j /\ t.pc = step /\ t.origin = k.origin
          /\ t.package = Missing
      <3>1. j \in 0 .. MaxReviews /\ step \in Fetching
        BY <1>0 DEF ReviewIds, Fetching
      <3> QED BY <2>0, <3>1 DEF TaskType
    <2>4. handler' = [handler EXCEPT ![h] = t]
      BY <1>0, <1>k, <2>2
    <2> HIDE DEF t
    <2>5. /\ handler'[h] = t /\ handler' \in [Handlers -> TaskType]
          /\ t.pc \in Fetching /\ t.pc \notin Settlers /\ t.pc \notin Committing
      BY <1>0, <2>3, <2>4 DEF Fetching, Settlers, Committing, Discarding
    <2>6. /\ issued' = j /\ staging' = [staging EXCEPT ![j] = Partial]
          /\ UNCHANGED <<serves, placed, records, reviews, approvals, abandoned>>
      BY <1>5, <2>1 DEF AcquireSlot, storeRows, historyVars
    <2>7. /\ reviews[j] = Missing /\ j # 0 /\ j \in Nat /\ Partial \in Contents
          /\ \A g \in Handlers : handler[g].id # j
      <3>1. ASSUME NEW g \in Handlers PROVE handler[g].id # j
        BY <1>0, <2>1, StagingFacts DEF Bears
      <3> QED BY <1>0, <2>1, <3>1 DEF StagingInv, StagingShape, ReviewIds, Contents
    <2>8. StagingShape'
      <3>1. staging' \in [ReviewIds -> Contents] /\ issued' \in 0 .. MaxReviews
        BY <1>0, <2>6, <2>7 DEF ReviewIds
      <3>2. \A n \in ReviewIds : n > issued' => reviews'[n] = Missing /\ staging'[n] = Missing
        BY <1>0, <2>1, <2>6 DEF StagingInv, StagingShape, ReviewIds
      <3> QED BY <2>5, <2>6, <3>1, <3>2 DEF StagingInv, StagingShape
    <2>9. Bears(h)'
      BY <2>0, <2>3, <2>5, <2>6, <2>7 DEF Bears
    <2>10. Knows(h)' /\ Unrecorded(h)'
      BY <2>3, <2>5 DEF Knows, Unrecorded
    <2>11. InstalledAsApproved'
      BY <1>0, <2>6 DEF StagingInv, InstalledAsApproved
    <2>12. ReviewHolds(j)'
      <3>1. AtWork(j)'
        BY <2>3, <2>5 DEF AtWork
      <3> QED BY <2>6, <2>7, <3>1 DEF ReviewHolds
    <2>13. \A n \in ReviewIds : n \in {handler[h].id, t.id} => ReviewHolds(n)'
      BY <1>i, <1>k, <2>0, <2>3, <2>12 DEF ReviewIds
    <2>14. /\ \A n \in ReviewIds : n # j => staging'[n] = staging[n] /\ reviews'[n] = reviews[n]
           /\ issued <= issued' /\ j > issued
      BY <1>0, <2>1, <2>6
    <2>15. /\ \A n \in ReviewIds : n <= issued /\ n # handler[h].id =>
                staging'[n] = staging[n] /\ reviews'[n] = reviews[n]
           /\ \A n \in ReviewIds : n > issued /\ n # t.id =>
                staging'[n] = staging[n] /\ reviews'[n] = reviews[n]
      BY <1>0, <2>3, <2>7, <2>14
    <2>16. handler[h].pc \notin Settlers
      BY <1>k, <2>0 DEF Settlers, Committing, Discarding
    <2>17. /\ \A q \in Packages : placed'[q] = placed[q]
           /\ \A x \in Plugins : records'[x] # Missing =>
                records[x] # Missing /\ records'[x].package = records[x].package
           /\ approvals \subseteq approvals' /\ abandoned \subseteq abandoned'
      BY <2>6
    <2> QED BY <2>3, <2>4, <2>7, <2>8, <2>9, <2>10, <2>11, <2>13, <2>14, <2>15, <2>16, <2>17,
               OneRequest
  <1>6. CASE SlotTimeout(h)
    <2>1. /\ Reply(h) /\ i = 0
          /\ UNCHANGED <<serves, issued, staging, placed, reviews, records, approvals, abandoned>>
      BY <1>1, <1>6, <1>k DEF SlotTimeout, Is, diskVars, storeRows, historyVars
    <2> QED BY <1>i, <1>k, <2>1, QuietReply
  <1>7. CASE Resolve(h)
    <2>0. /\ k.pc = "resolve" /\ k.pc \in Fetching /\ k.package = Missing
      BY <1>0, <1>7, <1>k DEF Resolve, Is, Fetching, Bears
    <2>1. PICK p \in Packages \cup {Missing} : p = serves[k.origin]
      BY <1>0, <1>2, <2>0
    <2> DEFINE t == [k EXCEPT !.resolved = p, !.pc = "fetch"]
    <2>2. /\ t \in TaskType /\ t.id = i /\ t.pc = "fetch" /\ t.origin = k.origin
          /\ t.package = Missing
      BY <1>i, <2>0, <2>1 DEF TaskType, Fetching
    <2>3. handler' = [handler EXCEPT ![h] = t]
      BY <1>0, <1>7, <1>k, <2>1 DEF Resolve
    <2> HIDE DEF t
    <2>4. /\ handler'[h] = t /\ t.pc \in Fetching /\ t.pc \notin Settlers
          /\ t.pc \notin Committing
      BY <1>0, <2>2, <2>3 DEF Fetching, Settlers, Committing, Discarding
    <2>5. UNCHANGED <<serves, issued, staging, placed, reviews, records, approvals, abandoned>>
      BY <1>7 DEF Resolve, diskVars, storeRows, historyVars
    <2>6. i # 0
      BY <1>2, <2>0 DEF ReviewIds
    <2>7. Bears(h)'
      BY <1>2, <2>0, <2>2, <2>4, <2>5, <2>6 DEF Bears
    <2>8. Knows(h)' /\ Unrecorded(h)'
      BY <2>2, <2>4 DEF Knows, Unrecorded
    <2> QED BY <1>2, <1>i, <1>k, <2>0, <2>2, <2>3, <2>5, <2>7, <2>8, QuietGoOn
  <1>8. CASE StagePackage(h)
    <2>0. /\ k.pc = "fetch" /\ k.pc \in Fetching
      BY <1>8, <1>k DEF StagePackage, Is, Fetching
    <2>1. PICK p \in Received(h) :
            /\ Verified(h, p) /\ Dir(h, p)
            /\ handler' = [handler EXCEPT ![h].pc = "inspect", ![h].package = p]
      BY <1>8 DEF StagePackage
    <2>2. p \in Packages /\ k.resolved \in {Missing, p}
      <3>1. p \in {k.resolved, serves[k.origin]} /\ p # Missing /\ k.resolved \in {Missing, p}
        BY <1>k, <2>1 DEF Received, Verified
      <3> QED BY <1>0, <1>2, <2>0, <3>1 DEF TaskType
    <2> DEFINE t == [k EXCEPT !.pc = "inspect", !.package = p]
    <2>3. /\ t \in TaskType /\ t.id = i /\ t.pc = "inspect" /\ t.origin = k.origin
          /\ t.package = p /\ t.resolved = k.resolved
      BY <1>i, <2>2 DEF TaskType, Fetching
    <2>4. handler' = [handler EXCEPT ![h] = t]
      BY <1>0, <1>k, <2>1
    <2> HIDE DEF t
    <2>5. /\ handler'[h] = t /\ t.pc \in Fetching /\ t.pc \notin Settlers
          /\ t.pc \notin Committing /\ t.pc \notin {"idle", "slot", "resolve", "fetch"}
      BY <1>0, <2>3, <2>4 DEF Fetching, Settlers, Committing, Discarding
    <2>6. /\ UNCHANGED <<serves, issued, placed, reviews, records, approvals, abandoned>>
          /\ staging' = [staging EXCEPT ![i] = p]
      BY <1>8, <1>i, <1>k, <2>1 DEF StagePackage, storeRows, historyVars, Dir
    <2>7. /\ reviews' = [reviews EXCEPT ![i] = Missing] /\ p \in Contents
          /\ reviews'[i] = Missing /\ staging'[i] = p /\ i # 0
      BY <1>0, <1>2, <2>0, <2>2, <2>6 DEF Contents, ReviewIds
    <2>8. Bears(h)'
      BY <1>2, <2>0, <2>2, <2>3, <2>5, <2>6, <2>7 DEF Bears
    <2>9. Knows(h)' /\ Unrecorded(h)'
      BY <2>3, <2>5 DEF Knows, Unrecorded
    <2>10. ReviewHolds(i)'
      <3>1. AtWork(i)'
        BY <2>3, <2>5 DEF AtWork
      <3> QED BY <2>7, <3>1 DEF ReviewHolds
    <2> QED BY <1>2, <1>i, <1>k, <2>0, <2>3, <2>4, <2>6, <2>7, <2>8, <2>9, <2>10, OwnReview
  <1>9. CASE StageFails(h)
    BY <1>4, <1>9, <1>k DEF StageFails, Fetching
  <1>10. CASE Reject(h)
    BY <1>4, <1>10, <1>k DEF Reject, Fetching, Is
  <1>11. CASE Save(h)
    <2>0. /\ k.pc = "inspect" /\ k.pc \in Fetching /\ Inspected(k.package)
      BY <1>11, <1>k DEF Save, Is, Fetching
    <2>1. PICK r \in ReviewRows :
            /\ r.package = k.package /\ r.resolved = k.resolved
            /\ reviews' = [reviews EXCEPT ![i] = r]
      <3>1. k.resolved \in Packages \cup {Missing} /\ SameIdentity(h) \in BOOLEAN
        BY DEF TaskType, SameIdentity
      <3> DEFINE r == [package |-> k.package, origin |-> k.origin,
                       resolved |-> k.resolved, shown |-> SameIdentity(h)]
      <3>2. r \in ReviewRows /\ r.package = k.package /\ r.resolved = k.resolved
        BY <1>2, <1>3, <2>0, <3>1 DEF ReviewRows
      <3>3. reviews' = [reviews EXCEPT ![i] = r]
        BY <1>11, <1>i, <1>k DEF Save
      <3> QED BY <3>2, <3>3
    <2>2. /\ UNCHANGED <<serves, issued, staging, placed, records, approvals, abandoned>>
          /\ Reply(h) \/ GoOn(h, "discard")
      BY <1>11 DEF Save, diskVars, historyVars
    <2>3. /\ staging' = [staging EXCEPT ![i] = staging[i]] /\ staging[i] \in Contents
          /\ reviews'[i] = r /\ staging'[i] = k.package /\ r # Missing /\ i # 0
      BY <1>0, <1>2, <1>3, <2>0, <2>1, <2>2, RowsDistinct DEF ReviewIds
    <2>4. ReviewHolds(i)'
      <3>1. r.resolved # Missing => r.package = r.resolved
        BY <1>3, <2>0, <2>1
      <3> QED BY <2>0, <2>1, <2>3, <3>1 DEF ReviewHolds
    <2>5. CASE Reply(h)
      <3>1. /\ NoTask \in TaskType /\ handler' = [handler EXCEPT ![h] = NoTask]
            /\ Bears(h)' /\ Knows(h)' /\ Unrecorded(h)' /\ NoTask.id = 0
        BY <1>0, <2>2, <2>5, Answered
      <3> QED BY <1>2, <1>i, <1>k, <2>0, <2>1, <2>2, <2>3, <2>4, <3>1, OwnReview
    <2>6. CASE GoOn(h, "discard")
      <3> DEFINE t == [k EXCEPT !.pc = "discard"]
      <3>1. /\ t \in TaskType /\ t.id = i /\ t.pc = "discard" /\ t.package = k.package
        BY <1>i DEF TaskType, Settlers, Discarding
      <3>2. handler' = [handler EXCEPT ![h] = t]
        BY <1>0, <1>k, <2>6 DEF GoOn
      <3> HIDE DEF t
      <3>3. /\ handler'[h] = t /\ t.pc \in Settlers /\ t.pc \notin Fetching
            /\ t.pc \notin Committing /\ t.pc \notin {"idle", "slot", "resolve", "fetch"}
        BY <1>0, <3>1, <3>2 DEF Fetching, Settlers, Committing, Discarding
      <3>4. Bears(h)'
        BY <1>2, <1>3, <2>0, <2>1, <2>2, <2>3, <3>1, <3>3 DEF Bears
      <3>5. Knows(h)' /\ Unrecorded(h)'
        BY <2>3, <3>1, <3>3 DEF Knows, Unrecorded
      <3> QED BY <1>2, <1>i, <1>k, <2>0, <2>1, <2>2, <2>3, <2>4, <3>1, <3>2, <3>4, <3>5, OwnReview
    <2> QED BY <2>2, <2>5, <2>6
  <1>12. CASE SaveFails(h)
    BY <1>12, QuietReply DEF SaveFails, diskVars, storeRows
  <1>13. CASE LoseClient(h)
    <2>1. /\ Reply(h) /\ abandoned' = abandoned \cup ({i} \ {0})
          /\ UNCHANGED <<serves, issued, staging, placed, reviews, records, approvals>>
      BY <1>13, <1>i, <1>k DEF LoseClient, diskVars, storeRows
    <2> QED BY <1>i, <1>k, <2>1, QuietReply
  <1> QED BY <1>5, <1>6, <1>7, <1>8, <1>9, <1>10, <1>11, <1>12, <1>13

\* A request that settles a review knows of it, and moves to its next step.
LEMMA SettleFacts ==
  ASSUME StagingInv, NEW h \in Handlers, NEW k \in TaskType, k = handler[h], k.pc \in Settlers
  PROVE  /\ k.id \in ReviewIds /\ k.id <= issued /\ k.id # 0 /\ k.package \in Packages
         /\ reviews[k.id] # Missing => reviews[k.id].package = k.package
         /\ k.pc \in Committing => k.package \in approvals /\ k.origin \in Origins
         /\ handler \in [Handlers -> TaskType] /\ issued \in Nat
         /\ staging \in [ReviewIds -> Contents] /\ placed \in [Packages -> Contents]
         /\ reviews \in [ReviewIds -> ReviewRows \cup {Missing}]
         /\ records \in [Plugins -> RecordRows \cup {Missing}]
         /\ Met(h) => Spoilt(k.id) /\ Shared(k.package)
         /\ Knows(h) /\ Unrecorded(h)
  <1>1. Bears(h) /\ handler[h].id \in 0 .. MaxReviews /\ issued \in 0 .. MaxReviews
    BY StagingFacts
  <1>2. k.id \in ReviewIds
    BY <1>1, StagingAssumption DEF Bears, ReviewIds
  <1>3. Met(h) => Spoilt(k.id) /\ Shared(k.package)
    BY DEF Met, Spoilt, Shared
  <1>4. issued \in Nat
    BY <1>1, StagingAssumption
  <1> QED BY <1>1, <1>2, <1>3, <1>4, StagingFacts DEF Bears

LEMMA NextStep ==
  ASSUME StagingInv, NEW h \in Handlers, NEW k \in TaskType, k = handler[h],
         NEW step \in Settlers, GoOn(h, step)
  PROVE  \E t \in TaskType :
           /\ handler' = [handler EXCEPT ![h] = t] /\ handler'[h] = t
           /\ t.pc = step /\ t.reused = k.reused
           /\ t.id = k.id /\ t.package = k.package /\ t.origin = k.origin
  <1>0. handler \in [Handlers -> TaskType]
    BY StagingFacts
  <1> DEFINE a == [k EXCEPT !.pc = step]
  <1>1. /\ a \in TaskType /\ a.pc = step /\ a.reused = k.reused
        /\ a.id = k.id /\ a.package = k.package /\ a.origin = k.origin
    BY DEF TaskType
  <1>2. handler' = [handler EXCEPT ![h] = a]
    BY <1>0 DEF GoOn
  <1> HIDE DEF a
  <1> QED BY <1>0, <1>1, <1>2

\* What a request has while it goes on settling its review.
LEMMA SettleBears ==
  ASSUME StagingInv, NEW h \in Handlers, NEW k \in TaskType, k = handler[h], k.pc \in Settlers,
         NEW t \in TaskType, handler'[h] = t, t.pc \in Settlers, t.id = k.id,
         t.package = k.package, t.origin = k.origin,
         t.pc \in Committing => k.pc \in Committing,
         issued' = issued, approvals' = approvals,
         reviews'[k.id] \in {reviews[k.id], Missing}
  PROVE  Bears(h)'
  <1>1. t.pc \notin {"idle", "slot"} \cup Fetching
    BY DEF Fetching, Settlers, Committing, Discarding
  <1>2. t.pc \notin {"idle", "slot", "resolve", "fetch"} /\ t.pc # "inspect"
    BY <1>1 DEF Fetching
  <1>3. t.pc \in {"slot"} \cup Fetching \cup Committing => t.pc \in Committing
    BY <1>1
  <1> QED BY <1>1, <1>2, <1>3, SettleFacts DEF Bears

LEMMA CommitStep ==
  ASSUME StagingInv, NEW h \in Handlers, contended' = contended \cup Contending',
         \/ VerifyStaged(h) \/ Destination(h) \/ MoveIntoPlace(h) \/ Gone(h)
         \/ WriteRecord(h) \/ RecordRefused(h) \/ Forget(h) \/ Sweep(h)
  PROVE  StagingInv'
  <1>k. PICK k \in TaskType : k = handler[h]
    BY StagingFacts
  <1>p. k.pc \in Committing /\ k.pc \in Settlers
    BY <1>k DEF VerifyStaged, Destination, MoveIntoPlace, Gone, WriteRecord, RecordRefused,
                Forget, Sweep, Is, Committing, Settlers
  <1>i. PICK i \in ReviewIds : i = k.id
    BY <1>k, <1>p, SettleFacts
  <1>q. PICK p \in Packages : p = k.package
    BY <1>k, <1>p, SettleFacts
  <1>0. /\ i <= issued /\ i # 0 /\ (reviews[i] # Missing => reviews[i].package = p)
        /\ p \in approvals /\ k.origin \in Origins /\ p # Missing
        /\ handler \in [Handlers -> TaskType] /\ issued \in Nat
        /\ staging \in [ReviewIds -> Contents] /\ placed \in [Packages -> Contents]
        /\ reviews \in [ReviewIds -> ReviewRows \cup {Missing}]
        /\ records \in [Plugins -> RecordRows \cup {Missing}]
        /\ (Met(h) => Spoilt(i) /\ Shared(p)) /\ contended \subseteq contended'
        /\ k.reused \in BOOLEAN /\ Missing \in Contents
    BY <1>i, <1>k, <1>p, <1>q, SettleFacts, RowsDistinct DEF TaskType, Contents
  <1>s. /\ "destination" \in Settlers /\ "place" \in Settlers /\ "upsert" \in Settlers
        /\ "forget" \in Settlers /\ "sweep" \in Settlers
    BY DEF Settlers, Committing
  <1>m. \A t \in TaskType : t.id = i /\ t.package = p /\ handler'[h] = t => (Met(h) => Met(h)')
    BY <1>0, <1>i, <1>k, <1>q DEF Met
  <1>w. (Shared(p) => Shared(p)') /\ (UNCHANGED abandoned /\ Spoilt(i) => Spoilt(i)')
    BY <1>0 DEF Spoilt, Shared
  <1>1. CASE VerifyStaged(h)
    <2>0. /\ k.pc = "verify"
          /\ UNCHANGED <<serves, issued, staging, placed, reviews, records, approvals, abandoned>>
      BY <1>1, <1>k DEF VerifyStaged, Is, diskVars, storeRows, historyVars
    <2>1. CASE staging[i] = p
      <3>0. GoOn(h, "destination")
        BY <1>1, <1>i, <1>k, <1>q, <2>1 DEF VerifyStaged
      <3>1. PICK t \in TaskType :
              /\ handler' = [handler EXCEPT ![h] = t] /\ handler'[h] = t
              /\ t.pc = "destination" /\ t.reused = k.reused
              /\ t.id = k.id /\ t.package = k.package /\ t.origin = k.origin
        BY <1>k, <1>s, <3>0, NextStep
      <3>2. Bears(h)'
        BY <1>i, <1>k, <1>p, <1>s, <2>0, <3>1, SettleBears
      <3>3. Knows(h)'
        <4>1. reviews[i] # Missing \/ Met(h)
          BY <1>i, <1>k, <1>p, <2>0, SettleFacts DEF Knows
        <4> QED BY <1>i, <1>m, <1>q, <2>0, <2>1, <3>1, <4>1 DEF Knows
      <3>4. Unrecorded(h)'
        BY <3>1 DEF Unrecorded
      <3> QED BY <1>i, <1>k, <1>p, <1>s, <2>0, <3>1, <3>2, <3>3, <3>4, QuietGoOn
    <2>2. CASE staging[i] # p
      <3>1. Reply(h)
        BY <1>1, <1>i, <1>k, <1>q, <2>2 DEF VerifyStaged
      <3>2. Spoilt(i)
        BY <1>0, <1>i, <1>k, <1>p, <1>q, <2>0, <2>2, SettleFacts DEF Knows
      <3> QED BY <1>i, <1>k, <2>0, <3>1, <3>2, QuietReply DEF Rests
    <2> QED BY <2>1, <2>2
  <1>2. CASE Destination(h)
    <2>0. /\ k.pc = "destination"
          /\ UNCHANGED <<serves, issued, staging, placed, reviews, records, approvals, abandoned>>
      BY <1>2, <1>k DEF Destination, Is, diskVars, storeRows, historyVars
    <2>1. /\ staging[i] = p \/ Met(h)
          /\ reviews[i] # Missing \/ Met(h)
      BY <1>i, <1>k, <1>p, <1>q, <2>0, SettleFacts DEF Knows
    <2>2. CASE placed[p] \in {Missing, p}
      <3>0. PICK reused \in BOOLEAN :
              /\ reused = (placed[p] # Missing)
              /\ handler' = [handler EXCEPT ![h].pc = "place", ![h].reused = reused]
        BY <1>2, <1>k, <1>q, <2>2 DEF Destination
      <3>1. PICK t \in TaskType :
              /\ handler' = [handler EXCEPT ![h] = t] /\ handler'[h] = t
              /\ t.pc = "place" /\ t.reused = reused
              /\ t.id = k.id /\ t.package = k.package /\ t.origin = k.origin
        <4> DEFINE a == [k EXCEPT !.pc = "place", !.reused = reused]
        <4>1. /\ a \in TaskType /\ a.pc = "place" /\ a.reused = reused
              /\ a.id = k.id /\ a.package = k.package /\ a.origin = k.origin
          BY <1>s DEF TaskType
        <4>2. handler' = [handler EXCEPT ![h] = a]
          BY <1>0, <1>k, <3>0
        <4> HIDE DEF a
        <4> QED BY <1>0, <4>1, <4>2
      <3>2. Bears(h)'
        BY <1>i, <1>k, <1>p, <1>s, <2>0, <3>1, SettleBears
      <3>3. Knows(h)'
        BY <1>i, <1>m, <1>q, <2>0, <2>1, <2>2, <3>0, <3>1 DEF Knows
      <3>4. Unrecorded(h)'
        BY <3>1 DEF Unrecorded
      <3> QED BY <1>i, <1>k, <1>p, <1>s, <2>0, <3>1, <3>2, <3>3, <3>4, QuietGoOn
    <2>3. CASE placed[p] \notin {Missing, p}
      <3>1. Reply(h)
        BY <1>2, <1>k, <1>q, <2>3 DEF Destination
      <3>2. Rests(i)
        BY <1>0, <2>1 DEF Rests
      <3> QED BY <1>i, <1>k, <2>0, <3>1, <3>2, QuietReply
    <2> QED BY <2>2, <2>3
  <1>3. CASE MoveIntoPlace(h)
    <2>0. k.pc = "place" /\ UNCHANGED <<serves, issued, reviews, records, approvals, abandoned>>
      BY <1>3, <1>k DEF MoveIntoPlace, Is, storeRows, historyVars
    <2>1. /\ staging[i] = p \/ Met(h)
          /\ reviews[i] # Missing \/ Met(h)
          /\ k.reused => placed[p] = p \/ Met(h)
      BY <1>i, <1>k, <1>p, <1>q, <2>0, SettleFacts DEF Knows
    <2>2. CASE k.reused /\ GoOn(h, "upsert") /\ UNCHANGED diskVars
      <3>1. PICK t \in TaskType :
              /\ handler' = [handler EXCEPT ![h] = t] /\ handler'[h] = t
              /\ t.pc = "upsert" /\ t.reused = k.reused
              /\ t.id = k.id /\ t.package = k.package /\ t.origin = k.origin
        <4>1. GoOn(h, "upsert")
          BY <2>2
        <4> QED BY <1>k, <1>s, <4>1, NextStep
      <3>2. Bears(h)'
        BY <1>i, <1>k, <1>p, <1>s, <2>0, <3>1, SettleBears
      <3>3. UNCHANGED <<staging, placed>>
        BY <2>2 DEF diskVars
      <3>4. Knows(h)'
        BY <1>i, <1>m, <1>q, <2>0, <2>1, <2>2, <3>1, <3>3 DEF Knows
      <3>5. Unrecorded(h)'
        BY <2>2, <3>1 DEF Unrecorded
      <3> QED BY <1>i, <1>k, <1>p, <1>s, <2>0, <3>1, <3>2, <3>3, <3>4, <3>5, QuietGoOn
    <2>3. CASE /\ ~k.reused /\ staging[i] # Missing /\ placed[p] = Missing
               /\ placed' = [placed EXCEPT ![p] = staging[i]]
               /\ Dir(h, Missing) /\ GoOn(h, "upsert")
      <3>1. PICK t \in TaskType :
              /\ handler' = [handler EXCEPT ![h] = t] /\ handler'[h] = t
              /\ t.pc = "upsert" /\ t.reused = k.reused
              /\ t.id = k.id /\ t.package = k.package /\ t.origin = k.origin
        BY <1>k, <1>s, <2>3, NextStep
      <3>2. Bears(h)'
        BY <1>i, <1>k, <1>p, <1>s, <2>0, <3>1, SettleBears
      <3>3. /\ staging' = [staging EXCEPT ![i] = Missing] /\ staging'[i] = Missing
            /\ placed'[p] = staging[i] /\ staging' \in [ReviewIds -> Contents]
            /\ placed' \in [Packages -> Contents]
            /\ \A n \in ReviewIds : n # i => staging'[n] = staging[n]
            /\ \A q \in Packages : q # p => placed'[q] = placed[q]
        BY <1>0, <1>i, <1>k, <2>3 DEF Dir
      <3>4. Knows(h)'
        BY <1>i, <1>m, <1>q, <2>0, <2>1, <2>3, <3>1, <3>3 DEF Knows
      <3>5. Shared(p) \/ \A x \in Plugins : records[x] # Missing => records[x].package # p
        BY <1>0, <2>3 DEF StagingInv, InstalledAsApproved, Shared
      <3>6. Unrecorded(h)'
        BY <1>q, <1>w, <2>0, <3>1, <3>5 DEF Unrecorded
      <3>7. InstalledAsApproved'
        <4>1. ASSUME NEW x \in Plugins, records[x] # Missing
              PROVE  LET n == records[x].package IN
                     /\ n \in approvals /\ PluginOf(n) = x /\ n \in Packages
                     /\ placed'[n] = n \/ \E c \in contended' : c[2] = n
          <5>1. records[x].package \in Packages
            BY <1>0, <4>1 DEF RecordRows
          <5>2. /\ records[x].package \in approvals /\ PluginOf(records[x].package) = x
                /\ \/ placed[records[x].package] = records[x].package
                   \/ Shared(records[x].package)
            BY <4>1 DEF StagingInv, InstalledAsApproved, Shared
          <5>3. CASE records[x].package = p
            BY <1>0, <3>5, <4>1, <5>1, <5>2, <5>3 DEF Shared
          <5>4. CASE records[x].package # p
            BY <1>0, <3>3, <5>1, <5>2, <5>4 DEF Shared
          <5> QED BY <5>3, <5>4
        <4> QED BY <2>0, <4>1 DEF InstalledAsApproved
      <3>8. StagingShape'
        <4>1. handler' \in [Handlers -> TaskType]
          BY <1>0, <3>1
        <4>2. \A n \in ReviewIds : n > issued' => reviews'[n] = Missing /\ staging'[n] = Missing
          BY <1>0, <2>0, <3>3 DEF StagingInv, StagingShape
        <4> QED BY <2>0, <3>3, <4>1, <4>2 DEF StagingInv, StagingShape
      <3>9. ReviewHolds(i)'
        <4>1. AtWork(i)'
          BY <1>i, <3>1 DEF AtWork
        <4> QED BY <2>0, <4>1 DEF StagingInv, ReviewHolds
      <3>10. \A g \in Handlers \ {h} : t.id # 0 /\ t.id = handler[g].id =>
               /\ t.pc \in Settlers /\ handler[g].pc \in Settlers
               /\ t.package = handler[g].package
        BY <1>k, <1>s, <3>1 DEF StagingInv, SameReview
      <3>11. /\ \A n \in ReviewIds : n \in {handler[h].id, t.id} => ReviewHolds(n)'
             /\ issued <= issued' /\ approvals \subseteq approvals' /\ abandoned \subseteq abandoned'
             /\ \A n \in ReviewIds : n # handler[h].id =>
                  staging'[n] = staging[n] /\ reviews'[n] = reviews[n]
             /\ \A n \in ReviewIds : n > issued /\ n # t.id =>
                  staging'[n] = staging[n] /\ reviews'[n] = reviews[n]
             /\ \A n \in ReviewIds : reviews'[n] \in {reviews[n], Missing}
             /\ \A q \in Packages : q = handler[h].package \/ placed'[q] = placed[q]
             /\ \A x \in Plugins : records'[x] # Missing =>
                  records[x] # Missing /\ records'[x].package = records[x].package
        BY <1>0, <1>i, <1>k, <1>q, <2>0, <3>1, <3>3, <3>9
      <3> QED BY <1>k, <1>p, <3>1, <3>2, <3>4, <3>6, <3>7, <3>8, <3>10, <3>11, OneRequest
    <2>4. CASE Reply(h) /\ UNCHANGED diskVars
      <3>1. Rests(i)
        BY <1>0, <2>1 DEF Rests
      <3> QED BY <1>i, <1>k, <2>0, <2>4, <3>1, QuietReply DEF diskVars
    <2> QED BY <1>3, <1>i, <1>k, <1>q, <2>2, <2>3, <2>4 DEF MoveIntoPlace
  <1>4. CASE Gone(h)
    <2>0. /\ k.pc = "upsert" /\ Reply(h) /\ placed[p] \in {Missing, Partial}
          /\ UNCHANGED <<serves, issued, staging, placed, reviews, records, approvals, abandoned>>
      BY <1>4, <1>k, <1>q DEF Gone, Is, diskVars, storeRows, historyVars
    <2>1. Met(h)
      BY <1>0, <1>i, <1>k, <1>p, <1>q, <2>0, SettleFacts, RowsDistinct DEF Knows
    <2>2. Rests(i)
      BY <1>0, <2>1 DEF Rests
    <2> QED BY <1>i, <1>k, <2>0, <2>2, QuietReply
  <1>5. CASE WriteRecord(h)
    <2>0. /\ k.pc = "upsert" /\ GoOn(h, "forget") /\ p \in Packages
          /\ UNCHANGED <<serves, issued, staging, placed, reviews, approvals, abandoned>>
      BY <1>5, <1>k DEF WriteRecord, Is, diskVars, historyVars
    <2>1. PICK r \in RecordRows :
            r.package = p /\ records' = [records EXCEPT ![PluginOf(p)] = r]
      <3> DEFINE r == [package |-> p, origin |-> k.origin, enabled |-> TRUE]
      <3>1. r \in RecordRows /\ r.package = p
        BY <1>0 DEF RecordRows
      <3>2. records' = [records EXCEPT ![PluginOf(p)] = r]
        BY <1>5, <1>k, <1>q DEF WriteRecord
      <3> QED BY <3>1, <3>2
    <2>2. /\ placed[p] = p \/ Met(h)
          /\ reviews[i] # Missing \/ Met(h)
          /\ k.reused => staging[i] = p \/ Met(h)
          /\ ~k.reused => staging[i] = Missing \/ Met(h)
      BY <1>i, <1>k, <1>p, <1>q, <2>0, SettleFacts DEF Knows
    <2>3. PICK t \in TaskType :
            /\ handler' = [handler EXCEPT ![h] = t] /\ handler'[h] = t
            /\ t.pc = "forget" /\ t.reused = k.reused
            /\ t.id = k.id /\ t.package = k.package /\ t.origin = k.origin
      BY <1>k, <1>s, <2>0, NextStep
    <2>4. Bears(h)'
      BY <1>i, <1>k, <1>p, <1>s, <2>0, <2>3, SettleBears
    <2>5. Knows(h)' /\ Unrecorded(h)'
      BY <1>i, <1>m, <1>q, <2>0, <2>2, <2>3 DEF Knows, Unrecorded
    <2>6. /\ records' \in [Plugins -> RecordRows \cup {Missing}]
          /\ \A x \in Plugins :
               \/ x = PluginOf(p) /\ records'[x] = r
               \/ records'[x] = records[x]
      BY <1>0, <2>1 DEF Plugins
    <2>7. InstalledAsApproved'
      <3>1. ASSUME NEW x \in Plugins, records'[x] # Missing
            PROVE  LET n == records'[x].package IN
                   /\ n \in approvals /\ PluginOf(n) = x
                   /\ placed[n] = n \/ \E c \in contended' : c[2] = n
        <4>1. CASE x = PluginOf(p) /\ records'[x] = r
          BY <1>0, <2>1, <2>2, <4>1 DEF Shared
        <4>2. CASE records'[x] = records[x]
          BY <1>0, <3>1, <4>2 DEF StagingInv, InstalledAsApproved
        <4> QED BY <2>6, <4>1, <4>2
      <3> QED BY <2>0, <3>1 DEF InstalledAsApproved
    <2>8. StagingShape'
      <3>1. handler' \in [Handlers -> TaskType]
        BY <1>0, <2>3
      <3> QED BY <2>0, <2>6, <3>1 DEF StagingInv, StagingShape
    <2>9. ReviewHolds(i)'
      <3>1. AtWork(i)'
        BY <1>i, <2>3 DEF AtWork
      <3> QED BY <2>0, <3>1 DEF StagingInv, ReviewHolds
    <2>10. \A g \in Handlers \ {h} : t.id # 0 /\ t.id = handler[g].id =>
             /\ t.pc \in Settlers /\ handler[g].pc \in Settlers
             /\ t.package = handler[g].package
      BY <1>k, <1>s, <2>3 DEF StagingInv, SameReview
    <2>11. \A x \in Plugins : records'[x] # Missing =>
             \/ records[x] # Missing /\ records'[x].package = records[x].package
             \/ records'[x].package = handler[h].package
      BY <1>k, <1>q, <2>1, <2>6
    <2>12. /\ \A n \in ReviewIds : n \in {handler[h].id, t.id} => ReviewHolds(n)'
           /\ issued <= issued' /\ approvals \subseteq approvals' /\ abandoned \subseteq abandoned'
           /\ \A n \in ReviewIds : staging'[n] = staging[n] /\ reviews'[n] = reviews[n]
           /\ \A q \in Packages : placed'[q] = placed[q]
      BY <1>0, <1>i, <1>k, <2>0, <2>3, <2>9
    <2> QED BY <1>k, <1>p, <2>3, <2>4, <2>5, <2>7, <2>8, <2>10, <2>11, <2>12, OneRequest
  <1>6. CASE RecordRefused(h)
    <2>0. /\ k.pc = "upsert" /\ Reply(h)
          /\ UNCHANGED <<serves, issued, reviews, records, approvals, abandoned>>
      BY <1>6, <1>k DEF RecordRefused, Is, storeRows
    <2>1. /\ placed[p] = p \/ Met(h)
          /\ reviews[i] # Missing \/ Met(h)
          /\ k.reused => staging[i] = p \/ Met(h)
          /\ ~k.reused => staging[i] = Missing \/ Met(h)
      BY <1>i, <1>k, <1>p, <1>q, <2>0, SettleFacts DEF Knows
    <2>2. CASE ~k.reused /\ staging[i] = Missing
      <3>0. /\ staging' = [staging EXCEPT ![i] = placed[p]]
            /\ placed' = [placed EXCEPT ![p] = Missing]
        BY <1>6, <1>i, <1>k, <1>q, <2>2 DEF RecordRefused, Dir
      <3>1. /\ NoTask \in TaskType /\ handler' = [handler EXCEPT ![h] = NoTask]
            /\ Bears(h)' /\ Knows(h)' /\ Unrecorded(h)' /\ NoTask.id = 0
        BY <1>0, <2>0, Answered
      <3>2. /\ staging'[i] = placed[p] /\ staging' \in [ReviewIds -> Contents]
            /\ placed' \in [Packages -> Contents]
            /\ \A n \in ReviewIds : n # i => staging'[n] = staging[n]
            /\ \A q \in Packages : q # p => placed'[q] = placed[q]
        BY <1>0, <3>0
      <3>3. Shared(p) \/ \A x \in Plugins : records[x] # Missing => records[x].package # p
        BY <1>k, <1>p, <1>q, <2>0, <2>2, SettleFacts DEF Unrecorded
      <3>4. InstalledAsApproved'
        <4>1. ASSUME NEW x \in Plugins, records[x] # Missing
              PROVE  LET n == records[x].package IN
                     /\ n \in approvals /\ PluginOf(n) = x
                     /\ placed'[n] = n \/ \E c \in contended' : c[2] = n
          <5>1. records[x].package \in Packages
            BY <1>0, <4>1 DEF RecordRows
          <5>2. /\ records[x].package \in approvals /\ PluginOf(records[x].package) = x
                /\ \/ placed[records[x].package] = records[x].package
                   \/ Shared(records[x].package)
            BY <4>1 DEF StagingInv, InstalledAsApproved, Shared
          <5>3. CASE records[x].package = p
            BY <1>0, <3>3, <4>1, <5>1, <5>2, <5>3 DEF Shared
          <5>4. CASE records[x].package # p
            BY <1>0, <3>2, <5>1, <5>2, <5>4 DEF Shared
          <5> QED BY <5>3, <5>4
        <4> QED BY <2>0, <4>1 DEF InstalledAsApproved
      <3>5. StagingShape'
        <4>1. handler' \in [Handlers -> TaskType]
          BY <1>0, <3>1
        <4>2. \A n \in ReviewIds : n > issued' => reviews'[n] = Missing /\ staging'[n] = Missing
          <5>1. \A n \in ReviewIds : n > issued => n # i
            BY <1>0 DEF ReviewIds
          <5> QED BY <2>0, <3>2, <5>1 DEF StagingInv, StagingShape
        <4> QED BY <2>0, <3>2, <4>1, <4>2 DEF StagingInv, StagingShape
      <3>6. ReviewHolds(i)'
        <4>1. ReviewHolds(i)
          BY DEF StagingInv
        <4> QED BY <1>0, <1>w, <2>0, <2>1, <3>2, <4>1 DEF ReviewHolds
      <3>7. /\ \A n \in ReviewIds : n \in {handler[h].id, NoTask.id} => ReviewHolds(n)'
            /\ issued <= issued' /\ approvals \subseteq approvals' /\ abandoned \subseteq abandoned'
            /\ \A n \in ReviewIds : n # handler[h].id =>
                 staging'[n] = staging[n] /\ reviews'[n] = reviews[n]
            /\ \A n \in ReviewIds : n > issued /\ n # NoTask.id =>
                 staging'[n] = staging[n] /\ reviews'[n] = reviews[n]
            /\ \A n \in ReviewIds : reviews'[n] \in {reviews[n], Missing}
            /\ \A q \in Packages : q = handler[h].package \/ placed'[q] = placed[q]
            /\ \A x \in Plugins : records'[x] # Missing =>
                 records[x] # Missing /\ records'[x].package = records[x].package
        BY <1>0, <1>i, <1>k, <1>q, <2>0, <3>1, <3>2, <3>6 DEF ReviewIds
      <3> QED BY <1>k, <1>p, <3>1, <3>4, <3>5, <3>7, OneRequest
    <2>3. CASE ~(~k.reused /\ staging[i] = Missing)
      <3>1. UNCHANGED <<staging, placed>>
        BY <1>6, <1>i, <1>k, <2>3 DEF RecordRefused, diskVars
      <3>2. Rests(i)
        BY <1>0, <2>1, <2>3 DEF Rests
      <3> QED BY <1>i, <1>k, <2>0, <3>1, <3>2, QuietReply
    <2> QED BY <2>2, <2>3
  <1>7. CASE Forget(h)
    <2>0. /\ k.pc = "forget" /\ reviews' = [reviews EXCEPT ![i] = Missing]
          /\ UNCHANGED <<serves, issued, staging, placed, records, approvals, abandoned>>
      BY <1>7, <1>i, <1>k DEF Forget, Is, diskVars, historyVars
    <2>1. /\ k.reused => staging[i] = p \/ Met(h)
          /\ ~k.reused => staging[i] = Missing \/ Met(h)
      BY <1>i, <1>k, <1>p, <1>q, <2>0, SettleFacts DEF Knows
    <2>2. /\ reviews'[i] = Missing /\ staging' = [staging EXCEPT ![i] = staging[i]]
          /\ staging[i] \in Contents
      BY <1>0, <2>0
    <2>3. CASE k.reused
      <3>0. GoOn(h, "sweep")
        BY <1>7, <1>k, <2>3 DEF Forget
      <3>1. PICK t \in TaskType :
              /\ handler' = [handler EXCEPT ![h] = t] /\ handler'[h] = t
              /\ t.pc = "sweep" /\ t.reused = k.reused
              /\ t.id = k.id /\ t.package = k.package /\ t.origin = k.origin
        BY <1>k, <1>s, <3>0, NextStep
      <3>2. Bears(h)'
        BY <1>i, <1>k, <1>p, <1>s, <2>0, <2>2, <3>1, SettleBears
      <3>3. Knows(h)' /\ Unrecorded(h)'
        BY <1>i, <2>2, <3>1 DEF Knows, Unrecorded
      <3>4. ReviewHolds(i)'
        <4>1. AtWork(i)'
          BY <1>i, <3>1 DEF AtWork
        <4> QED BY <2>2, <4>1 DEF ReviewHolds
      <3> QED BY ZenonT(40), <1>i, <1>k, <1>p, <1>s, <2>0, <2>2, <3>1, <3>2, <3>3, <3>4, OwnReview
    <2>4. CASE ~k.reused
      <3>0. Reply(h)
        BY <1>7, <1>k, <2>4 DEF Forget
      <3>1. /\ NoTask \in TaskType /\ handler' = [handler EXCEPT ![h] = NoTask]
            /\ Bears(h)' /\ Knows(h)' /\ Unrecorded(h)' /\ NoTask.id = 0
        BY <1>0, <2>0, <3>0, Answered
      <3>2. ReviewHolds(i)'
        BY <1>0, <1>w, <2>0, <2>1, <2>2, <2>4 DEF ReviewHolds
      <3>3. i # 0
        BY <1>0
      <3> QED BY <1>i, <1>k, <2>0, <2>2, <3>1, <3>2, <3>3, OwnReview
    <2> QED BY <2>3, <2>4
  <1>8. CASE Sweep(h)
    <2>0. /\ k.pc = "sweep" /\ staging' = [staging EXCEPT ![i] = Missing] /\ Reply(h)
          /\ UNCHANGED <<serves, issued, placed, reviews, records, approvals, abandoned>>
      BY <1>8, <1>i, <1>k DEF Sweep, Is, Dir, storeRows, historyVars
    <2>1. reviews[i] = Missing
      BY <1>i, <1>k, <1>p, <2>0, SettleFacts DEF Knows
    <2>2. /\ reviews' = [reviews EXCEPT ![i] = Missing] /\ reviews'[i] = Missing
          /\ staging'[i] = Missing
      BY <1>0, <2>0, <2>1
    <2>3. /\ NoTask \in TaskType /\ handler' = [handler EXCEPT ![h] = NoTask]
          /\ Bears(h)' /\ Knows(h)' /\ Unrecorded(h)' /\ NoTask.id = 0
      BY <1>0, <2>0, Answered
    <2>4. ReviewHolds(i)'
      BY <2>2 DEF ReviewHolds
    <2>5. i # 0 /\ Missing \in Contents
      BY <1>0
    <2> QED BY <1>i, <1>k, <2>0, <2>2, <2>3, <2>4, <2>5, OwnReview
  <1> QED BY <1>1, <1>2, <1>3, <1>4, <1>5, <1>6, <1>7, <1>8

LEMMA DiscardStep ==
  ASSUME StagingInv, NEW h \in Handlers, contended' = contended \cup Contending',
         Discard(h) \/ Emptied(h) \/ DiscardFails(h) \/ DropReview(h)
  PROVE  StagingInv'
  <1>k. PICK k \in TaskType : k = handler[h]
    BY StagingFacts
  <1>p. k.pc \in Discarding /\ k.pc \in Settlers
    BY <1>k DEF Discard, Emptied, DiscardFails, DropReview, Is, Discarding, Settlers
  <1>i. PICK i \in ReviewIds : i = k.id
    BY <1>k, <1>p, SettleFacts
  <1>0. /\ i # 0 /\ handler \in [Handlers -> TaskType] /\ issued \in Nat
        /\ staging \in [ReviewIds -> Contents] /\ Missing \in Contents /\ Partial \in Contents
        /\ reviews \in [ReviewIds -> ReviewRows \cup {Missing}]
        /\ (Met(h) => Spoilt(i)) /\ contended \subseteq contended'
    BY <1>i, <1>k, <1>p, SettleFacts DEF Contents
  <1>s. /\ "emptying" \in Settlers /\ "drop" \in Settlers
        /\ "emptying" \notin Committing /\ "drop" \notin Committing
    BY DEF Settlers, Discarding, Committing
  <1>m. \A t \in TaskType : t.id = i /\ t.package = k.package /\ handler'[h] = t =>
          (Met(h) => Met(h)')
    BY <1>0, <1>i, <1>k DEF Met
  <1>r. k.pc # "sweep" /\ (reviews[i] # Missing \/ Met(h))
    <2>1. k.pc # "sweep"
      BY <1>p DEF Discarding
    <2> QED BY <1>i, <1>k, <1>p, <2>1, SettleFacts DEF Knows
  <1>1. ASSUME Discard(h) \/ Emptied(h) PROVE StagingInv'
    <2>0. UNCHANGED <<serves, issued, placed, reviews, records, approvals, abandoned>>
      BY <1>1 DEF Discard, Emptied, storeRows, historyVars
    <2>1. PICK c \in Contents, step \in {"emptying", "drop"} :
            /\ staging' = [staging EXCEPT ![i] = c] /\ GoOn(h, step)
            /\ step = "drop" => c = Missing
      <3>1. CASE Discard(h)
        <4>1. GoOn(h, "emptying")
          BY <3>1 DEF Discard
        <4>2. CASE staging[i] = Missing
          <5>1. staging' = [staging EXCEPT ![i] = Missing]
            BY <1>0, <1>i, <1>k, <3>1, <4>2 DEF Discard
          <5> QED BY <1>0, <4>1, <5>1
        <4>3. CASE staging[i] # Missing
          <5>1. staging' = [staging EXCEPT ![i] = Partial]
            BY <1>i, <1>k, <3>1, <4>3 DEF Discard, Dir
          <5> QED BY <1>0, <4>1, <5>1
        <4> QED BY <4>2, <4>3
      <3>2. CASE Emptied(h)
        BY <1>0, <1>i, <1>k, <3>2 DEF Emptied, Dir
      <3> QED BY <1>1, <3>1, <3>2
    <2>2. PICK t \in TaskType :
            /\ handler' = [handler EXCEPT ![h] = t] /\ handler'[h] = t
            /\ t.pc = step /\ t.reused = k.reused
            /\ t.id = k.id /\ t.package = k.package /\ t.origin = k.origin
      BY <1>k, <1>s, <2>1, NextStep
    <2>3. Bears(h)'
      BY <1>i, <1>k, <1>p, <1>s, <2>0, <2>1, <2>2, SettleBears
    <2>4. staging'[i] = c /\ reviews' = [reviews EXCEPT ![i] = reviews[i]]
          /\ reviews[i] \in ReviewRows \cup {Missing}
      BY <1>0, <2>0, <2>1
    <2>5. Knows(h)' /\ Unrecorded(h)'
      BY <1>i, <1>m, <1>r, <2>0, <2>1, <2>2, <2>4 DEF Knows, Unrecorded
    <2>6. ReviewHolds(i)'
      <3>1. AtWork(i)'
        BY <1>i, <2>2 DEF AtWork
      <3> QED BY <2>0, <3>1 DEF StagingInv, ReviewHolds
    <2> QED BY ZenonT(40), <1>i, <1>k, <1>p, <1>s, <2>0, <2>1, <2>2, <2>3, <2>4, <2>5, <2>6, OwnReview
  <1>2. CASE DiscardFails(h)
    BY <1>2, QuietReply DEF DiscardFails, diskVars, storeRows
  <1>3. CASE DropReview(h)
    <2>0. /\ k.pc = "drop" /\ reviews' = [reviews EXCEPT ![i] = Missing] /\ Reply(h)
          /\ UNCHANGED <<serves, issued, staging, placed, records, approvals, abandoned>>
      BY <1>3, <1>i, <1>k DEF DropReview, Is, diskVars, historyVars
    <2>1. staging[i] = Missing \/ Spoilt(i)
      BY <1>0, <1>i, <1>k, <1>p, <2>0, SettleFacts DEF Knows
    <2>2. /\ reviews'[i] = Missing /\ staging' = [staging EXCEPT ![i] = staging[i]]
          /\ staging[i] \in Contents
      BY <1>0, <2>0
    <2>3. /\ NoTask \in TaskType /\ handler' = [handler EXCEPT ![h] = NoTask]
          /\ Bears(h)' /\ Knows(h)' /\ Unrecorded(h)' /\ NoTask.id = 0
      BY <1>0, <2>0, Answered
    <2>4. ReviewHolds(i)'
      <3>1. Spoilt(i) => Spoilt(i)'
        BY <1>0, <2>0 DEF Spoilt
      <3> QED BY <2>0, <2>1, <2>2, <3>1 DEF ReviewHolds
    <2> QED BY <1>0, <1>i, <1>k, <2>0, <2>2, <2>3, <2>4, OwnReview
  <1> QED BY <1>1, <1>2, <1>3

\* Steps outside the requests.
LEMMA OutsideStep ==
  ASSUME StagingInv, handler' = handler, contended \subseteq contended',
         contended' = contended \/ contended' = contended \cup Contending',
         UNCHANGED <<issued, staging, placed, reviews, approvals, abandoned>>,
         serves' \in [Origins -> Packages \cup {Missing}],
         records' \in [Plugins -> RecordRows \cup {Missing}],
         \A x \in Plugins : records'[x] # Missing =>
           records[x] # Missing /\ records'[x].package = records[x].package
  PROVE  StagingInv'
  <1>1. StagingShape' /\ SameReview'
    BY DEF StagingInv, StagingShape, SameReview
  <1>2. InstalledAsApproved'
    BY DEF StagingInv, InstalledAsApproved
  <1>3. \A i : (Spoilt(i) => Spoilt(i)') /\ (AtWork(i) => AtWork(i)')
    BY DEF Spoilt, AtWork
  <1>4. ASSUME NEW h \in Handlers PROVE Bears(h)' /\ Knows(h)' /\ Unrecorded(h)'
    <2>1. Bears(h) /\ Knows(h) /\ Unrecorded(h)
      BY DEF StagingInv
    <2>2. Bears(h)'
      BY <2>1 DEF Bears
    <2>3. Knows(h)'
      BY <1>3, <2>1 DEF Knows, Met
    <2>4. Unrecorded(h)'
      BY <2>1 DEF Unrecorded, Shared
    <2> QED BY <2>2, <2>3, <2>4
  <1>5. MetRecorded'
    BY DEF StagingInv, MetRecorded, Met
  <1>6. ASSUME NEW i \in ReviewIds PROVE ReviewHolds(i)'
    BY <1>3 DEF StagingInv, ReviewHolds
  <1> QED BY <1>1, <1>2, <1>4, <1>5, <1>6 DEF StagingInv

LEMMA CrashStep ==
  ASSUME StagingInv, StagingCrash, contended \subseteq contended'
  PROVE  StagingInv'
  <1>0. /\ handler' = [h \in Handlers |-> NoTask] /\ NoTask \in TaskType
        /\ abandoned' = abandoned \cup ({handler[h].id : h \in Handlers} \ {0})
        /\ UNCHANGED <<serves, issued, staging, placed, reviews, records, approvals>>
    BY NoTaskTyped DEF StagingCrash, diskVars, storeRows
  <1>1. StagingShape'
    BY <1>0 DEF StagingInv, StagingShape
  <1>2. InstalledAsApproved'
    BY <1>0 DEF StagingInv, InstalledAsApproved
  <1>3. \A h \in Handlers : handler'[h] = NoTask
    BY <1>0
  <1>4. SameReview' /\ MetRecorded'
    <2>1. NoTask.id = 0 /\ NoTask.pc \notin Settlers
      BY NoTaskTyped DEF Settlers, Committing, Discarding
    <2> QED BY <1>3, <2>1 DEF SameReview, MetRecorded
  <1>5. ASSUME NEW h \in Handlers PROVE Bears(h)' /\ Knows(h)' /\ Unrecorded(h)'
    <2>1. NoTask.pc \notin Fetching \cup Settlers /\ NoTask.pc \notin Committing
      BY NoTaskTyped DEF Fetching, Settlers, Committing, Discarding
    <2>2. issued' \in Nat
      BY <1>0, StagingFacts
    <2>3. Bears(h)'
      BY <1>3, <2>1, <2>2, NoTaskTyped DEF Bears
    <2>4. Knows(h)' /\ Unrecorded(h)'
      BY <1>3, <2>1, NoTaskTyped DEF Knows, Unrecorded
    <2> QED BY <2>3, <2>4
  <1>6. ASSUME NEW i \in ReviewIds PROVE ReviewHolds(i)'
    <2>1. AtWork(i) \/ Spoilt(i) => Spoilt(i)'
      <3>1. i # 0
        BY DEF ReviewIds
      <3> QED BY <1>0, <3>1 DEF AtWork, Spoilt
    <2> QED BY <1>0, <2>1 DEF StagingInv, ReviewHolds
  <1> QED BY <1>1, <1>2, <1>4, <1>5, <1>6 DEF StagingInv

LEMMA StagingStep == StagingInv /\ [StagingNext]_stagingVars => StagingInv'
  <1> SUFFICES ASSUME StagingInv, [StagingNext]_stagingVars PROVE StagingInv'
    OBVIOUS
  <1>0. /\ records \in [Plugins -> RecordRows \cup {Missing}]
        /\ serves \in [Origins -> Packages \cup {Missing}]
    BY DEF StagingInv, StagingShape
  <1>1. CASE UNCHANGED stagingVars
    BY <1>0, <1>1, OutsideStep DEF stagingVars
  <1>2. CASE StagingNext
    <2>0. contended' = contended \cup Contending' /\ contended \subseteq contended'
      BY <1>2 DEF StagingNext
    <2>1. ASSUME NEW h \in Handlers, Ask(h) PROVE StagingInv'
      BY <2>0, <2>1, AskStep
    <2>2. ASSUME NEW h \in Handlers, Handle(h) PROVE StagingInv'
      BY <2>0, <2>2, PrepareStep, CommitStep, DiscardStep DEF Handle
    <2>3. ASSUME NEW x \in Plugins, NEW on \in BOOLEAN, SetEnabled(x, on) PROVE StagingInv'
      <3>1. /\ records' = [records EXCEPT ![x].enabled = on] /\ records[x] # Missing
            /\ UNCHANGED <<serves, handler, issued, staging, placed, reviews, approvals, abandoned>>
        BY <2>3 DEF SetEnabled, diskVars, historyVars
      <3>2. PICK r \in RecordRows : r = records[x]
        BY <1>0, <3>1
      <3> DEFINE n == [r EXCEPT !.enabled = on]
      <3>3. n \in RecordRows /\ n.package = r.package
        BY DEF RecordRows
      <3>4. records' = [records EXCEPT ![x] = n]
        BY <1>0, <3>1, <3>2
      <3> HIDE DEF n
      <3>5. /\ records' \in [Plugins -> RecordRows \cup {Missing}]
            /\ \A y \in Plugins : records'[y] # Missing =>
                 records[y] # Missing /\ records'[y].package = records[y].package
        BY <1>0, <3>1, <3>2, <3>3, <3>4
      <3> QED BY <1>0, <2>0, <3>1, <3>5, OutsideStep
    <2>4. ASSUME NEW x \in Plugins, Pin(x) PROVE StagingInv'
      <3>1. UNCHANGED <<serves, handler, issued, staging, placed, reviews, records, approvals,
                        abandoned>>
        BY <2>4 DEF Pin, diskVars, historyVars
      <3> QED BY <1>0, <2>0, <3>1, OutsideStep
    <2>5. ASSUME NEW o \in Origins, NEW p \in Packages, Republish(o, p) PROVE StagingInv'
      <3>1. /\ serves' = [serves EXCEPT ![o] = p]
            /\ UNCHANGED <<handler, issued, staging, placed, reviews, records, approvals, abandoned>>
        BY <2>5 DEF Republish, diskVars, storeRows, historyVars
      <3>2. serves' \in [Origins -> Packages \cup {Missing}]
        BY <1>0, <3>1
      <3> QED BY <1>0, <2>0, <3>1, <3>2, OutsideStep
    <2>6. CASE StagingCrash
      BY <2>0, <2>6, CrashStep
    <2> QED BY <1>2, <2>1, <2>2, <2>3, <2>4, <2>5, <2>6 DEF StagingNext
  <1> QED BY <1>1, <1>2

LEMMA StagingStart == StagingInit => StagingInv
  <1> SUFFICES ASSUME StagingInit PROVE StagingInv
    OBVIOUS
  <1>0. /\ NoTask \in TaskType /\ NoTask.pc \notin Fetching \cup Settlers
        /\ NoTask.pc \notin Committing
        /\ \A h \in Handlers : handler[h] = NoTask
        /\ issued \in 0 .. MaxReviews /\ issued \in Nat
        /\ approvals \subseteq Packages
        /\ \A p, q \in approvals : p = q
    BY NoTaskTyped, StagingAssumption
       DEF StagingInit, Fetching, Settlers, Committing, Discarding
  <1>1. \A i \in ReviewIds : staging[i] = Missing /\ reviews[i] = Missing
    BY DEF StagingInit
  <1>2. ASSUME NEW x \in Plugins
        PROVE  /\ records[x] \in RecordRows \cup {Missing}
               /\ records[x] # Missing => /\ records[x].package \in approvals
                                          /\ PluginOf(records[x].package) = x
    <2>1. CASE \E p \in approvals : PluginOf(p) = x
      <3>1. PICK p \in approvals : p = CHOOSE q \in approvals : TRUE
        BY <2>1
      <3>2. records[x] = [package |-> p, origin |-> About[p].origin, enabled |-> TRUE]
        BY <2>1, <3>1 DEF StagingInit
      <3>3. PluginOf(p) = x /\ p \in Packages /\ About[p].origin \in Origins
        BY <1>0, <2>1, RowsDistinct
      <3> QED BY <3>2, <3>3 DEF RecordRows
    <2>2. CASE ~\E p \in approvals : PluginOf(p) = x
      BY <2>2 DEF StagingInit
    <2> QED BY <2>1, <2>2
  <1>3. StagingShape
    <2>1. records \in [Plugins -> RecordRows \cup {Missing}]
      <3>1. records = [x \in Plugins |-> records[x]]
        BY DEF StagingInit
      <3> QED BY <1>2, <3>1
    <2>2. /\ staging \in [ReviewIds -> Contents] /\ placed \in [Packages -> Contents]
          /\ reviews \in [ReviewIds -> ReviewRows \cup {Missing}]
          /\ handler \in [Handlers -> TaskType]
      BY <1>0 DEF StagingInit, Contents
    <2> QED BY <1>0, <1>1, <2>1, <2>2 DEF StagingInit, StagingShape
  <1>4. InstalledAsApproved
    <2>1. \A p \in approvals : placed[p] = p
      BY <1>0 DEF StagingInit
    <2> QED BY <1>2, <2>1 DEF InstalledAsApproved
  <1>5. SameReview /\ MetRecorded
    BY <1>0, NoTaskTyped DEF SameReview, MetRecorded
  <1>6. ASSUME NEW h \in Handlers PROVE Bears(h) /\ Knows(h) /\ Unrecorded(h)
    <2>1. Bears(h)
      BY <1>0, NoTaskTyped DEF Bears
    <2>2. Knows(h) /\ Unrecorded(h)
      BY <1>0, NoTaskTyped DEF Knows, Unrecorded
    <2> QED BY <2>1, <2>2
  <1>7. \A i \in ReviewIds : ReviewHolds(i)
    BY <1>1 DEF ReviewHolds
  <1> QED BY <1>3, <1>4, <1>5, <1>6, <1>7 DEF StagingInv

\* What is installed was reviewed and approved under its own digest, and a
\* review keeps the package it shows until a request commits or discards it,
\* whatever number of requests cross, whatever the sources serve in between,
\* and whichever of them is cut short (plugin_install.rs).  Only requests that
\* worked on one package at the same time, which nothing in the code keeps
\* apart, are excepted, and they are named.
THEOREM StagingIsSound == StagingSpec => []StagingSound
  <1>1. StagingInv => StagingSound
    BY DEF StagingInv, StagingSound, ReviewsIntact, ReviewHolds
  <1> QED BY <1>1, StagingStart, StagingStep, PTL DEF StagingSpec
=============================================================================
