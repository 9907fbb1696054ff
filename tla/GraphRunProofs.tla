--------------------------- MODULE GraphRunProofs ---------------------------
(***************************************************************************)
(* Proofs about GraphRun: types, the order at joins, that completed work   *)
(* is kept, that a successful run is the one its routes select, and that a *)
(* run that ends otherwise names its cause.                                *)
(***************************************************************************)
EXTENDS GraphRun, FiniteSetTheorems, WellFoundedInduction, TLAPS

(* A node has returned a route when, and only when, its thread is done.    *)
RouteShape == \A n \in Nodes : phase[n] = "done" <=> route[n] \in Routes

(* A node that waits for a retry has an attempt left.                      *)
AttemptShape == \A n \in Nodes : phase[n] = "backoff" => tries[n] < Attempts

(* Every value of the variables stays within its type.                     *)
LEMMA TypeInit == ASSUME Init PROVE TypeOK
  <1>1. plan.entry \in Nodes
    BY PlansAccepted DEF Init, PlanType
  <1>2. /\ item \in [Nodes -> [1..Items -> {"idle", "running", "ok"} \cup Errors]]
        /\ savedItem \in [Nodes -> [1..Items -> InDoubtMarks \cup {"none", "ok"}]]
    BY DEF Init, NoItems
  <1>3. tries \in [Nodes -> 0..Attempts] /\ joined \in [Nodes -> 0..Items]
    BY GraphBounds DEF Init
  <1>4. /\ phase \in [Nodes -> {"idle", "done"} \cup Live \cup Errors]
        /\ route \in [Nodes -> Routes \cup {"none"}]
        /\ saved \in [Nodes -> Routes \cup InDoubtMarks \cup {"none", "waiting", "container"}]
    BY DEF Init
  <1>5. restarts \in 0..MaxRestarts
    BY GraphBounds DEF Init
  <1> QED BY <1>1, <1>2, <1>3, <1>4, <1>5 DEF Init, TypeOK

LEMMA PlanTyped == ASSUME TypeOK PROVE plan \in PlanType /\ Accepted(plan)
  BY PlansAccepted DEF TypeOK

(* The loop of execute_graph keeps the types.                              *)
LEMMA TypeLoop == ASSUME TypeOK, RouteShape, Loop PROVE TypeOK'
  <1>0. plan \in PlanType
    BY PlanTyped
  <1>1. CASE CollectWave
    <2>1. Closing \subseteq Nodes
      BY <1>0 DEF Closing, PlanType
    <2>2. settled' \subseteq Nodes /\ wave' \subseteq Nodes
      BY <1>1, <2>1 DEF CollectWave, Ready, TypeOK
    <2>3. outcome' \in {"failed", "running", "stuck"} /\ blamed' \in BOOLEAN
      BY <1>1 DEF CollectWave, TypeOK
    <2> QED BY <1>1, <2>2, <2>3 DEF CollectWave, TypeOK, runVars, threadVars, savedVars, Errors
  <1>2. CASE StopAtHead
    <2>1. outcome' \in Errors
      BY <1>2 DEF StopAtHead, ControlError, Errors, Signals
    <2> QED BY <1>2, <2>1 DEF StopAtHead, TypeOK, runVars, loopVars, threadVars, savedVars
  <1>3. CASE Complete
    BY <1>3 DEF Complete, TypeOK, runVars, loopVars, threadVars, savedVars, Errors
  <1>4. CASE LaunchBatch
    BY <1>4 DEF LaunchBatch, TypeOK, runVars, savedVars, Live
  <1>5. CASE InputMissing
    BY <1>5 DEF InputMissing, TypeOK, runVars, loopVars, threadVars, savedVars, Errors
  <1>6. CASE CollectBatch
    <2>1. \A n \in Uncollected : phase[n] \in Errors \cup {"done"}
      BY <1>6 DEF CollectBatch, Uncollected, TypeOK
    <2> DEFINE ok == {n \in Uncollected : phase[n] = "done"}
    <2>2. outcome' \in {outcome} \cup Errors
      <3>1. Reported(Uncollected \ ok) \subseteq Errors
        BY <2>1 DEF Reported, Errors
      <3> QED BY <1>6, <3>1 DEF CollectBatch
    <2>3. activated' = activated \cup UNION {plan.on[n][route[n]] : n \in ok}
      BY <1>6 DEF CollectBatch
    <2>4. \A n \in ok : plan.on[n][route[n]] \subseteq Nodes
      <3> SUFFICES ASSUME NEW n \in ok PROVE plan.on[n][route[n]] \subseteq Nodes
        OBVIOUS
      <3>1. n \in Nodes /\ phase[n] = "done"
        BY DEF Uncollected
      <3>2. route[n] \in Routes
        BY <3>1 DEF RouteShape
      <3> QED BY <1>0, <3>1, <3>2 DEF PlanType
    <2> QED BY <1>6, <2>2, <2>3, <2>4
            DEF CollectBatch, Uncollected, TypeOK, runVars, threadVars, savedVars
  <1> QED BY <1>1, <1>2, <1>3, <1>4, <1>5, <1>6 DEF Loop
(* The outcomes of an action keep the types of what they write.            *)
LEMMA TypeOutcome ==
  ASSUME TypeOK, NEW n \in Nodes,
         \/ \E r \in Routes : Succeed(n, r)
         \/ (\E e \in Errors : EndAttempt(n, e)) /\ blamed' \in BOOLEAN
  PROVE  /\ phase' \in [Nodes -> {"idle", "done"} \cup Live \cup Errors]
         /\ route' \in [Nodes -> Routes \cup {"none"}]
         /\ saved' \in [Nodes -> Routes \cup InDoubtMarks \cup {"none", "waiting", "container"}]
         /\ blamed' \in BOOLEAN
  <1>1. CASE \E r \in Routes : Succeed(n, r)
    <2> PICK r \in Routes : Succeed(n, r)
      BY <1>1
    <2>1. CASE phase' = [phase EXCEPT ![n] = "failed"] /\ blamed' = TRUE
               /\ UNCHANGED <<route, saved>>
      BY <2>1 DEF TypeOK, Errors
    <2>2. CASE /\ phase' = [phase EXCEPT ![n] = "done"]
               /\ route' = [route EXCEPT ![n] = r]
               /\ saved' = [saved EXCEPT ![n] = IF plan.sensitive THEN "unrecoverable" ELSE r]
               /\ blamed' = blamed
      <3>1. (IF plan.sensitive THEN "unrecoverable" ELSE r) \in Routes \cup InDoubtMarks
        BY DEF InDoubtMarks
      <3> QED BY <2>2, <3>1 DEF TypeOK
    <2> QED BY <2>1, <2>2 DEF Succeed
  <1>2. CASE (\E e \in Errors : EndAttempt(n, e)) /\ blamed' \in BOOLEAN
    BY <1>2 DEF EndAttempt, TypeOK, Live
  <1> QED BY <1>1, <1>2

LEMMA ControlErrorType == ControlError \in Errors \cup {"none"}
  BY DEF ControlError, Errors, Signals

(* A chunk stays within the items of its container.                        *)
LEMMA ChunkType ==
  ASSUME TypeOK, NEW n \in Nodes
  PROVE  /\ Last(n) \in 1..Items
         /\ ChunkEnd(n) \in 0..Items
         /\ Chunk(n) \subseteq 1..Items
         /\ Chunk(n) # {} => ChunkEnd(n) \in Chunk(n)
  <1>1. Last(n) \in 1..Items
    BY GraphBounds DEF Last
  <1>2. joined[n] \in 0..Items
    BY DEF TypeOK
  <1>3. ChunkEnd(n) \in 0..Items
    BY <1>1, <1>2, GraphBounds DEF ChunkEnd
  <1> QED BY <1>1, <1>2, <1>3, GraphBounds DEF Chunk

(* A container that is not a foreach has one item in a chunk.              *)
LEMMA ChunkErrorType ==
  ASSUME TypeOK, NEW n \in Nodes, ItemError(n) # {}, plan.kind[n] # "tolerant"
  PROVE  ContainerError(n) \in Errors
  <1>2. CASE plan.kind[n] \in ForEach
    BY <1>2 DEF ContainerError, Errors, ForEach
  <1>3. CASE plan.kind[n] \notin ForEach
    <2>1. joined[n] \in 0..Items /\ Last(n) \in 1..Items
      BY ChunkType DEF TypeOK
    <2>2. Chunk(n) \subseteq {ChunkEnd(n)}
      BY <1>3, <2>1, GraphBounds DEF Chunk, ChunkEnd
    <2>3. item[n][ChunkEnd(n)] \in Errors
      BY <2>2 DEF ItemError
    <2> QED BY <2>3 DEF ContainerError, Errors
  <1> QED BY <1>2, <1>3
(* Writing one item of one container.                                      *)
LEMMA ItemUpdate ==
  ASSUME NEW V, NEW f \in [Nodes -> [1..Items -> V]], NEW n \in Nodes, NEW i \in 1..Items,
         NEW v \in V
  PROVE  [f EXCEPT ![n][i] = v] \in [Nodes -> [1..Items -> V]]
  OBVIOUS

LEMMA ItemRead ==
  ASSUME NEW V, NEW f \in [Nodes -> [1..Items -> V]], NEW n \in Nodes, NEW i \in 1..Items, NEW v,
         NEW m \in Nodes, NEW j \in 1..Items
  PROVE  [f EXCEPT ![n][i] = v][m][j] = IF m = n /\ j = i THEN v ELSE f[m][j]
  <1>1. CASE m = n
    BY <1>1
  <1>2. CASE m # n
    BY <1>2
  <1> QED BY <1>1, <1>2

(* The thread of a node keeps the types.                                   *)
LEMMA TypeThread ==
  ASSUME TypeOK, AttemptShape, NEW n \in Nodes, Thread(n)
  PROVE  TypeOK'
  <1> USE DEF runVars, loopVars, savedVars
  <1>1. CASE Reuse(n)
    BY <1>1 DEF Reuse, TypeOK
  <1>2. CASE Begin(n)
    <2>1. Mark(n) \in InDoubtMarks \cup {"waiting", "container"}
      BY DEF Mark, InDoubtMarks
    <2>2. 1 \in 0..Attempts
      BY GraphBounds
    <2> QED BY <1>2, <2>1, <2>2 DEF Begin, TypeOK, Live
  <1>3. CASE EndLeaf(n)
    <2>1. \/ \E r \in Routes : Succeed(n, r)
          \/ (\E e \in Errors : EndAttempt(n, e)) /\ blamed' \in BOOLEAN
      <3>1. "failed" \in Errors /\ "success" \in Routes
        BY DEF Errors, Routes
      <3> QED BY <1>3, <3>1, ControlErrorType DEF EndLeaf, TypeOK
    <2> QED BY <1>3, <2>1, TypeOutcome DEF EndLeaf, TypeOK
  <1>4. CASE Backoff(n)
    <2>1. CASE ControlError = "none"
      <3>1. tries[n] + 1 \in 0..Attempts
        BY <1>4, GraphBounds DEF Backoff, AttemptShape, TypeOK
      <3>2. tries' \in [Nodes -> 0..Attempts]
        BY <1>4, <2>1, <3>1 DEF Backoff, TypeOK
      <3>3. item' \in [Nodes -> [1..Items -> {"idle", "running", "ok"} \cup Errors]]
        <4>1. NoItems \in [1..Items -> {"idle", "running", "ok"} \cup Errors]
          BY DEF NoItems
        <4>2. item' = [item EXCEPT ![n] = NoItems]
          BY <1>4, <2>1 DEF Backoff
        <4> QED BY <4>1, <4>2 DEF TypeOK
      <3>4. joined' \in [Nodes -> 0..Items]
        <4>1. joined' = [joined EXCEPT ![n] = 0] /\ 0 \in 0..Items
          BY <1>4, <2>1, GraphBounds DEF Backoff
        <4> QED BY <4>1 DEF TypeOK
      <3> QED BY <3>2, <3>3, <3>4, <1>4, <2>1 DEF Backoff, TypeOK, Live
    <2>2. CASE ControlError # "none"
      BY <1>4, <2>2, ControlErrorType DEF Backoff, TypeOK
    <2> QED BY <2>1, <2>2
  <1>5. ASSUME NEW i \in 1..Items, StartItem(n, i) PROVE TypeOK'
    <2> DEFINE step == IF ControlError # "none" THEN ControlError
                       ELSE IF savedItem[n][i] = "ok" THEN "ok" ELSE "running"
    <2>1. step \in {"idle", "running", "ok"} \cup Errors
      BY ControlErrorType
    <2>2. item' = [item EXCEPT ![n][i] = step]
      BY <1>5 DEF StartItem
    <2>3. savedItem' = savedItem \/ savedItem' = [savedItem EXCEPT ![n][i] = "running"]
      BY <1>5 DEF StartItem
    <2> HIDE DEF step
    <2>4. item' \in [Nodes -> [1..Items -> {"idle", "running", "ok"} \cup Errors]]
      BY <2>1, <2>2, ItemUpdate DEF TypeOK
    <2>5. savedItem' \in [Nodes -> [1..Items -> InDoubtMarks \cup {"none", "ok"}]]
      <3>1. "running" \in InDoubtMarks \cup {"none", "ok"}
        BY DEF InDoubtMarks
      <3>2. savedItem \in [Nodes -> [1..Items -> InDoubtMarks \cup {"none", "ok"}]]
        BY DEF TypeOK
      <3>3. [savedItem EXCEPT ![n][i] = "running"]
              \in [Nodes -> [1..Items -> InDoubtMarks \cup {"none", "ok"}]]
        BY <3>1, <3>2, ItemUpdate
      <3> QED BY <2>3, <3>2, <3>3
    <2> QED BY <1>5, <2>4, <2>5 DEF StartItem, TypeOK
  <1>6. ASSUME NEW i \in 1..Items, EndItem(n, i) PROVE TypeOK'
    <2>1. \E e \in {"ok"} \cup Errors : item' = [item EXCEPT ![n][i] = e]
      <3>1. "failed" \in Errors
        BY DEF Errors
      <3> QED BY <1>6, <3>1, ControlErrorType DEF EndItem
    <2>2. \/ savedItem' = savedItem
          \/ \E e \in {"ok"} \cup InDoubtMarks : savedItem' = [savedItem EXCEPT ![n][i] = e]
      BY <1>6 DEF EndItem, InDoubtMarks
    <2>3. blamed' \in BOOLEAN
      BY <1>6 DEF EndItem, TypeOK
    <2>4. item' \in [Nodes -> [1..Items -> {"idle", "running", "ok"} \cup Errors]]
      BY <2>1, ItemUpdate DEF TypeOK
    <2>5. savedItem' \in [Nodes -> [1..Items -> InDoubtMarks \cup {"none", "ok"}]]
      <3>1. savedItem \in [Nodes -> [1..Items -> InDoubtMarks \cup {"none", "ok"}]]
        BY DEF TypeOK
      <3>2. \A e \in {"ok"} \cup InDoubtMarks :
              [savedItem EXCEPT ![n][i] = e]
                \in [Nodes -> [1..Items -> InDoubtMarks \cup {"none", "ok"}]]
        <4> TAKE e \in {"ok"} \cup InDoubtMarks
        <4>1. e \in InDoubtMarks \cup {"none", "ok"}
          OBVIOUS
        <4> QED BY <3>1, <4>1, ItemUpdate
      <3> QED BY <2>2, <3>1, <3>2
    <2> QED BY <1>6, <2>3, <2>4, <2>5 DEF EndItem, TypeOK
  <1>7. CASE ChunkFails(n)
    <2>1. (\E e \in Errors : EndAttempt(n, e)) /\ blamed' \in BOOLEAN
      BY <1>7, ChunkErrorType DEF ChunkFails, TypeOK
    <2> QED BY <1>7, <2>1, TypeOutcome DEF ChunkFails, TypeOK
  <1>8. CASE ChunkPasses(n)
    <2>1. joined' \in [Nodes -> 0..Items]
      BY <1>8, ChunkType DEF ChunkPasses, TypeOK
    <2>2. \/ UNCHANGED <<phase, route, saved, blamed>>
          \/ \E r \in Routes : Succeed(n, r)
      BY <1>8 DEF ChunkPasses, Routes
    <2> QED BY <1>8, <2>1, <2>2, TypeOutcome DEF ChunkPasses, TypeOK
  <1>9. CASE EndEmpty(n)
    <2>1. \/ \E r \in Routes : Succeed(n, r)
          \/ (\E e \in Errors : EndAttempt(n, e)) /\ blamed' \in BOOLEAN
      BY <1>9 DEF EndEmpty, Errors, Routes
    <2> QED BY <1>9, <2>1, TypeOutcome DEF EndEmpty, TypeOK
  <1> QED BY <1>1, <1>2, <1>3, <1>4, <1>5, <1>6, <1>7, <1>8, <1>9 DEF Thread
-----------------------------------------------------------------------------
(* What settles has settled predecessors; what is ready or started is      *)
(* activated and waits for nobody.                                         *)
LoopShape ==
    /\ \A n \in settled : Predecessors(plan, n) \subseteq settled
    /\ \A n \in Nodes : phase[n] # "idle" \/ n \in wave =>
          Predecessors(plan, n) \subseteq settled /\ n \in activated
    /\ \A n \in wave : phase[n] = "idle" /\ n \notin settled

(* Activation follows the routes, and a settled node that is activated has *)
(* run: a path is not closed too early.                                    *)
ActivationShape ==
    /\ activated \subseteq SelectedBy(route)
    /\ plan.entry \in activated
    /\ \A m \in settled : route[m] \in Routes => plan.on[m][route[m]] \subseteq activated
    /\ \A n \in settled : n \in activated => route[n] \in Routes

(* Routes and checkpoints agree, and the completed checkpoints are those   *)
(* of a run that followed them.                                            *)
CheckpointShape ==
    /\ \A n \in Nodes : phase[n] \in {"running", "backoff"} => saved[n] \notin Routes
    /\ \A n \in Nodes : route[n] \in Routes /\ ~plan.sensitive => saved[n] = route[n]
    /\ plan.sensitive => \A n \in Nodes : saved[n] \notin Routes
    /\ \A n \in Nodes : saved[n] \in Routes => n \in SelectedBy(saved)

(* An item that runs has not completed before.                             *)
ItemShape ==
    \A n \in Nodes : \A i \in 1..Items : item[n][i] = "running" => savedItem[n][i] # "ok"

OutcomeShape == outcome = "succeeded" => settled = plan.nodes

Shape ==
    /\ TypeOK /\ RouteShape /\ AttemptShape /\ LoopShape /\ ActivationShape
    /\ CheckpointShape /\ ItemShape /\ OutcomeShape

(* What the thread of a node does to the shared state: it completes with   *)
(* a route, newly or from the checkpoint ...                               *)
Completes(n) ==
    \E r \in Routes :
        /\ phase' = [phase EXCEPT ![n] = "done"]
        /\ route' = [route EXCEPT ![n] = r]
        /\ \/ saved[n] = r /\ saved' = saved
           \/ /\ saved[n] \notin Routes
              /\ saved' = [saved EXCEPT ![n] = IF plan.sensitive THEN "unrecoverable" ELSE r]

(* ... or goes on or fails without one.                                    *)
Continues(n) ==
    \E k \in Live \cup Errors :
        /\ phase' = [phase EXCEPT ![n] = k]
        /\ route' = route
        /\ \/ saved' = saved
           \/ saved[n] \notin Routes /\ \E s \in {"running", "waiting", "container"} :
                  saved' = [saved EXCEPT ![n] = s]
        /\ saved'[n] \notin Routes
        /\ k = "backoff" => tries'[n] < Attempts

LEMMA OutcomeEffect ==
  ASSUME TypeOK, NEW n \in Nodes, saved[n] \notin Routes, tries' = tries,
         \/ \E r \in Routes : Succeed(n, r)
         \/ \E e \in Errors : EndAttempt(n, e)
  PROVE  Completes(n) \/ Continues(n)
  <1>1. ASSUME NEW r \in Routes, Succeed(n, r) PROVE Completes(n) \/ Continues(n)
    <2>1. CASE phase' = [phase EXCEPT ![n] = "failed"] /\ UNCHANGED <<route, saved>>
      <3>1. "failed" \in Live \cup Errors /\ "failed" # "backoff"
        BY DEF Errors
      <3> QED BY <2>1, <3>1 DEF Continues
    <2>2. CASE /\ phase' = [phase EXCEPT ![n] = "done"]
               /\ route' = [route EXCEPT ![n] = r]
               /\ saved' = [saved EXCEPT ![n] = IF plan.sensitive THEN "unrecoverable" ELSE r]
      BY <2>2 DEF Completes
    <2> QED BY <1>1, <2>1, <2>2 DEF Succeed
  <1>2. ASSUME NEW e \in Errors, EndAttempt(n, e) PROVE Continues(n)
    <2> DEFINE k == IF Retryable(n, e) THEN "backoff" ELSE e
    <2>1. k \in Live \cup Errors /\ (k = "backoff" => tries[n] < Attempts)
      BY DEF Live, Errors, Signals, Retryable
    <2>2. phase' = [phase EXCEPT ![n] = k] /\ route' = route /\ saved' = saved
      BY <1>2 DEF EndAttempt
    <2> HIDE DEF k
    <2> QED BY <2>1, <2>2 DEF Continues
  <1> QED BY <1>1, <1>2

(* Every step of a thread is one of the two.                               *)
LEMMA ThreadEffect ==
  ASSUME TypeOK, CheckpointShape, NEW n \in Nodes, Thread(n)
  PROVE  /\ UNCHANGED <<runVars, loopVars, outcome>>
         /\ phase[n] \in Live
         /\ \/ Completes(n)
            \/ Continues(n)
            \/ UNCHANGED <<phase, route, saved, tries>>
         /\ \A m \in Nodes \ {n} : tries'[m] = tries[m]
  <1> USE DEF savedVars
  <1>0. phase[n] \in {"running", "backoff"} => saved[n] \notin Routes
    BY DEF CheckpointShape
  <1>1. CASE Reuse(n)
    <2>1. Completes(n)
      BY <1>1 DEF Reuse, Completes
    <2> QED BY <1>1, <2>1 DEF Reuse, Live
  <1>2. CASE Begin(n)
    <2>1. Mark(n) \in {"running", "waiting", "container"}
      BY DEF Mark
    <2>2. \A s \in {"running", "waiting", "container"} : s \notin Routes
      BY DEF Routes
    <2>3. saved' = [saved EXCEPT ![n] = Mark(n)] /\ saved'[n] = Mark(n)
      BY <1>2 DEF Begin, TypeOK
    <2>4. Continues(n)
      <3>1. "running" \in Live \cup Errors /\ "running" # "backoff"
        BY DEF Live
      <3>2. phase' = [phase EXCEPT ![n] = "running"] /\ route' = route /\ saved[n] \notin Routes
        BY <1>2 DEF Begin
      <3> QED BY <2>1, <2>2, <2>3, <3>1, <3>2 DEF Continues
    <2> QED BY <1>2, <2>4 DEF Begin, Live, TypeOK
  <1>3. CASE EndLeaf(n)
    <2>1. \/ \E r \in Routes : Succeed(n, r)
          \/ \E e \in Errors : EndAttempt(n, e)
      <3>1. "failed" \in Errors /\ "success" \in Routes
        BY DEF Errors, Routes
      <3> QED BY <1>3, <3>1, ControlErrorType DEF EndLeaf
    <2>2. Completes(n) \/ Continues(n)
      BY <1>0, <1>3, <2>1, OutcomeEffect DEF EndLeaf
    <2> QED BY <1>3, <2>2 DEF EndLeaf, Live
  <1>4. CASE Backoff(n)
    <2> DEFINE k == IF ControlError = "none" THEN "running" ELSE ControlError
    <2>1. k \in Live \cup Errors /\ k # "backoff"
      BY ControlErrorType DEF Live, Errors, Signals
    <2>2. Continues(n)
      <3>1. phase' = [phase EXCEPT ![n] = k] /\ UNCHANGED <<route, saved>>
        BY <1>4 DEF Backoff
      <3>2. saved[n] \notin Routes
        BY <1>0, <1>4 DEF Backoff
      <3> HIDE DEF k
      <3> QED BY <2>1, <3>1, <3>2 DEF Continues
    <2> QED BY <1>4, <2>2 DEF Backoff, Live, TypeOK
  <1>5. ASSUME NEW i \in 1..Items, StartItem(n, i) \/ EndItem(n, i)
        PROVE  UNCHANGED <<runVars, loopVars, outcome, phase, route, saved, tries>>
               /\ phase[n] \in Live
    BY <1>5 DEF StartItem, EndItem, InContainer, Live
  <1>6. CASE ChunkFails(n)
    <2>1. \E e \in Errors : EndAttempt(n, e)
      BY <1>6, ChunkErrorType DEF ChunkFails
    <2>2. Completes(n) \/ Continues(n)
      BY <1>0, <1>6, <2>1, OutcomeEffect DEF ChunkFails, ChunkJoined, InContainer
    <2> QED BY <1>6, <2>2 DEF ChunkFails, ChunkJoined, InContainer, Live
  <1>7. CASE ChunkPasses(n)
    <2>1. UNCHANGED <<phase, route, saved>> \/ \E r \in Routes : Succeed(n, r)
      BY <1>7 DEF ChunkPasses, Routes
    <2>2. UNCHANGED <<phase, route, saved>> \/ Completes(n) \/ Continues(n)
      BY <1>0, <1>7, <2>1, OutcomeEffect DEF ChunkPasses, ChunkJoined, InContainer
    <2> QED BY <1>7, <2>2 DEF ChunkPasses, ChunkJoined, InContainer, Live
  <1>8. CASE EndEmpty(n)
    <2>1. (\E r \in Routes : Succeed(n, r)) \/ (\E e \in Errors : EndAttempt(n, e))
      BY <1>8 DEF EndEmpty, Errors, Routes
    <2>2. Completes(n) \/ Continues(n)
      BY <1>0, <1>8, <2>1, OutcomeEffect DEF EndEmpty, InContainer
    <2> QED BY <1>8, <2>2 DEF EndEmpty, InContainer, Live
  <1> QED BY <1>1, <1>2, <1>3, <1>4, <1>5, <1>6, <1>7, <1>8 DEF Thread
-----------------------------------------------------------------------------
(* More routes taken select more nodes.                                    *)
LEMMA SelectionGrows ==
  ASSUME NEW f, NEW g, \A m \in Nodes : f[m] \in Routes => g[m] = f[m]
  PROVE  SelectedBy(f) \subseteq SelectedBy(g)
  BY DEF SelectedBy

(* The targets of a selected node's route are selected.                    *)
LEMMA SelectionStep ==
  ASSUME TypeOK, NEW f, NEW m \in SelectedBy(f), f[m] \in Routes
  PROVE  plan.on[m][f[m]] \subseteq SelectedBy(f)
  <1>1. m \in Nodes
    BY DEF SelectedBy
  <1>2. plan.on[m][f[m]] \subseteq Nodes
    BY <1>1, PlanTyped DEF PlanType
  <1> QED BY <1>2 DEF SelectedBy

LEMMA EntrySelected == ASSUME TypeOK, NEW f PROVE plan.entry \in SelectedBy(f)
  BY PlanTyped DEF PlanType, SelectedBy

(* The nodes of a plan are closed under its arcs.                          *)
LEMMA PlanClosed ==
  ASSUME TypeOK
  PROVE  /\ plan.entry \in plan.nodes
         /\ \A m \in plan.nodes : \A r \in Routes : plan.on[m][r] \subseteq plan.nodes
  <1>1. plan \in PlanType /\ plan.nodes = {n \in Nodes : plan.entry \in Reaching(plan, n)}
    BY PlanTyped DEF Accepted
  <1>2. plan.entry \in plan.nodes
    BY <1>1 DEF PlanType, Reaching
  <1>3. ASSUME NEW m \in plan.nodes, NEW r \in Routes, NEW t \in plan.on[m][r]
        PROVE  t \in plan.nodes
    <2>1. m \in Nodes /\ t \in Nodes
      BY <1>1 DEF PlanType
    <2>2. m \in Predecessors(plan, t)
      BY <2>1 DEF Predecessors
    <2>3. plan.entry \in Reaching(plan, m)
      BY <1>1
    <2>4. plan.entry \in Reaching(plan, t)
      BY <2>1, <2>2, <2>3 DEF Reaching
    <2> QED BY <1>1, <2>1, <2>4
  <1> QED BY <1>2, <1>3

LEMMA ShapeInit == ASSUME Init PROVE Shape
  <1>1. TypeOK
    BY TypeInit
  <1>2. "none" \notin Routes
    BY DEF Routes
  <1>3. RouteShape /\ AttemptShape /\ LoopShape /\ ItemShape /\ OutcomeShape
    BY <1>2 DEF Init, RouteShape, AttemptShape, LoopShape, ItemShape, OutcomeShape, NoItems
  <1>4. ActivationShape
    BY <1>1, EntrySelected DEF Init, ActivationShape
  <1>5. CheckpointShape
    BY <1>2 DEF Init, CheckpointShape
  <1> QED BY <1>1, <1>3, <1>4, <1>5 DEF Shape

(* A thread does not run a completed item, and keeps what it completed.    *)
LEMMA ItemThread ==
  ASSUME TypeOK, ItemShape, NEW n \in Nodes, Thread(n)
  PROVE  /\ ItemShape'
         /\ \A m \in Nodes : \A j \in 1..Items : savedItem[m][j] = "ok" => savedItem'[m][j] = "ok"
  <1>1. ASSUME NEW i \in 1..Items, StartItem(n, i)
        PROVE  /\ ItemShape'
               /\ \A m \in Nodes : \A j \in 1..Items :
                     savedItem[m][j] = "ok" => savedItem'[m][j] = "ok"
    <2>1. CASE item' = [item EXCEPT ![n][i] = "running"] /\ savedItem[n][i] # "ok"
               /\ savedItem' = [savedItem EXCEPT ![n][i] = "running"]
      BY <2>1 DEF ItemShape, TypeOK
    <2>2. CASE savedItem' = savedItem
               /\ \E e \in Errors \cup {"ok"} : item' = [item EXCEPT ![n][i] = e]
      BY <2>2 DEF ItemShape, TypeOK, Errors, Signals
    <2>3. CASE ControlError # "none"
      BY <1>1, <2>2, <2>3, ControlErrorType DEF StartItem, Errors, Signals
    <2>4. CASE ControlError = "none"
      BY <1>1, <2>1, <2>2, <2>4 DEF StartItem
    <2> QED BY <2>3, <2>4
  <1>2. ASSUME NEW i \in 1..Items, EndItem(n, i)
        PROVE  /\ ItemShape'
               /\ \A m \in Nodes : \A j \in 1..Items :
                     savedItem[m][j] = "ok" => savedItem'[m][j] = "ok"
    <2>1. \E e \in {"ok"} \cup Errors : item' = [item EXCEPT ![n][i] = e]
      <3>1. "failed" \in Errors
        BY DEF Errors
      <3> QED BY <1>2, <3>1, ControlErrorType DEF EndItem
    <2>2. savedItem' = savedItem \/ \E s : savedItem' = [savedItem EXCEPT ![n][i] = s]
      BY <1>2 DEF EndItem
    <2>3. savedItem[n][i] # "ok"
      BY <1>2 DEF EndItem, ItemShape
    <2>4. \A m \in Nodes : \A j \in 1..Items :
             savedItem'[m][j] = savedItem[m][j] \/ (m = n /\ j = i)
      <3>1. savedItem \in [Nodes -> [1..Items -> InDoubtMarks \cup {"none", "ok"}]]
        BY DEF TypeOK
      <3>2. CASE savedItem' = savedItem
        BY <3>2
      <3>3. ASSUME NEW s, savedItem' = [savedItem EXCEPT ![n][i] = s]
            PROVE  \A m \in Nodes : \A j \in 1..Items :
                      savedItem'[m][j] = savedItem[m][j] \/ (m = n /\ j = i)
        BY <3>1, <3>3, ItemRead
      <3> QED BY <2>2, <3>2, <3>3
    <2>5. \A m \in Nodes : \A j \in 1..Items :
             IF m = n /\ j = i THEN item'[m][j] # "running" ELSE item'[m][j] = item[m][j]
      <3> DEFINE V == {"idle", "running", "ok"} \cup Errors
      <3>1. item \in [Nodes -> [1..Items -> V]]
        BY DEF TypeOK
      <3> HIDE DEF V
      <3>2. PICK e \in {"ok"} \cup Errors : item' = [item EXCEPT ![n][i] = e]
        BY <2>1
      <3>3. e # "running"
        BY DEF Errors, Signals
      <3>4. \A m \in Nodes : \A j \in 1..Items :
               item'[m][j] = IF m = n /\ j = i THEN e ELSE item[m][j]
        <4> SUFFICES ASSUME NEW m \in Nodes, NEW j \in 1..Items
                     PROVE  item'[m][j] = IF m = n /\ j = i THEN e ELSE item[m][j]
          OBVIOUS
        <4>1. CASE m = n /\ j = i
          BY <3>1, <3>2, <4>1
        <4>2. CASE ~(m = n /\ j = i)
          BY <3>1, <3>2, <4>2
        <4> QED BY <4>1, <4>2
      <3> QED BY <3>3, <3>4
    <2> QED BY <2>3, <2>4, <2>5 DEF ItemShape
  <1>3. CASE /\ savedItem' = savedItem
             /\ item' = item \/ item' = [item EXCEPT ![n] = NoItems]
    <2>1. \A j \in 1..Items : NoItems[j] = "idle"
      BY DEF NoItems
    <2>2. \A m \in Nodes : item'[m] = item[m] \/ item'[m] = NoItems
      BY <1>3 DEF TypeOK
    <2>3. \A m \in Nodes : \A j \in 1..Items : item'[m][j] = item[m][j] \/ item'[m][j] = "idle"
      BY <2>1, <2>2
    <2> QED BY <1>3, <2>3 DEF ItemShape
  <1>4. CASE \/ Reuse(n) \/ Begin(n) \/ EndLeaf(n) \/ Backoff(n)
             \/ EndEmpty(n) \/ ChunkFails(n) \/ ChunkPasses(n)
    <2>1. savedItem' = savedItem /\ (item' = item \/ item' = [item EXCEPT ![n] = NoItems])
      BY <1>4 DEF Reuse, Begin, EndLeaf, Backoff, EndEmpty, ChunkFails, ChunkPasses, savedVars
    <2> QED BY <1>3, <2>1
  <1> QED BY <1>1, <1>2, <1>4 DEF Thread

(* A step of a thread keeps the shape.                                     *)
LEMMA ShapeThread == ASSUME Shape, NEW n \in Nodes, Thread(n) PROVE Shape'
  <1>0. TypeOK /\ RouteShape /\ AttemptShape /\ LoopShape /\ ActivationShape
        /\ CheckpointShape /\ ItemShape /\ OutcomeShape
    BY DEF Shape
  <1>1. TypeOK'
    BY <1>0, TypeThread
  <1>2. /\ UNCHANGED <<runVars, loopVars, outcome>>
        /\ phase[n] \in Live
        /\ \/ Completes(n)
           \/ Continues(n)
           \/ UNCHANGED <<phase, route, saved, tries>>
        /\ \A m \in Nodes \ {n} : tries'[m] = tries[m]
    BY <1>0, ThreadEffect
  <1>3. UNCHANGED <<plan, activated, settled, wave, outcome>>
    BY <1>2 DEF runVars, loopVars
  <1>4. phase[n] # "idle" /\ phase[n] # "done" /\ route[n] \notin Routes
    BY <1>0, <1>2 DEF Live, RouteShape
  <1>5. /\ phase' = [phase EXCEPT ![n] = phase'[n]]
        /\ phase'[n] # "idle"
        /\ \A m \in Nodes \ {n} : route'[m] = route[m] /\ saved'[m] = saved[m]
    BY <1>0, <1>2, <1>4 DEF Completes, Continues, TypeOK, Live, Errors, Signals
  <1>6. RouteShape'
    <2>1. phase'[n] = "done" <=> route'[n] \in Routes
      BY <1>0, <1>2, <1>4 DEF Completes, Continues, TypeOK, Live, Errors, Signals
    <2> QED BY <1>0, <1>5, <2>1 DEF RouteShape, TypeOK
  <1>7. AttemptShape'
    <2>1. phase'[n] = "backoff" => tries'[n] < Attempts
      BY <1>0, <1>2 DEF Completes, Continues, TypeOK, AttemptShape
    <2> QED BY <1>0, <1>2, <1>5, <2>1 DEF AttemptShape, TypeOK
  <1>8. LoopShape'
    BY <1>0, <1>3, <1>4, <1>5 DEF LoopShape, TypeOK, Predecessors
  <1>9. ActivationShape'
    <2>1. SelectedBy(route) \subseteq SelectedBy(route')
      BY <1>4, <1>5, SelectionGrows
    <2>2. SelectedBy(route)' = SelectedBy(route')
      BY <1>3 DEF SelectedBy
    <2>3. n \notin settled
      BY <1>0, <1>4 DEF ActivationShape, LoopShape
    <2>4. \A m \in settled : m \in Nodes /\ route'[m] = route[m]
      BY <1>0, <1>5, <2>3 DEF TypeOK
    <2> QED BY <1>0, <1>3, <2>1, <2>2, <2>4 DEF ActivationShape
  <1>10. CheckpointShape'
    <2>1. \A m \in Nodes : saved[m] \in Routes => saved'[m] = saved[m]
      BY <1>0, <1>2, <1>5 DEF Completes, Continues, TypeOK
    <2>2. SelectedBy(saved) \subseteq SelectedBy(saved')
      BY <2>1, SelectionGrows
    <2>3. SelectedBy(saved)' = SelectedBy(saved')
      BY <1>3 DEF SelectedBy
    <2>4. phase'[n] \in {"running", "backoff"} => saved'[n] \notin Routes
      BY <1>0, <1>2 DEF Completes, Continues, TypeOK, CheckpointShape
    <2>5. route'[n] \in Routes /\ ~plan.sensitive => saved'[n] = route'[n]
      BY <1>0, <1>2, <1>4 DEF Completes, Continues, TypeOK
    <2>6. plan.sensitive => saved'[n] \notin Routes
      BY <1>0, <1>2 DEF Completes, Continues, TypeOK, CheckpointShape, Routes
    <2>7. saved'[n] \in Routes => n \in SelectedBy(saved')
      <3> SUFFICES ASSUME saved'[n] \in Routes PROVE n \in SelectedBy(saved')
        OBVIOUS
      <3>1. n \in SelectedBy(route)
        BY <1>0, <1>4 DEF LoopShape, ActivationShape
      <3>2. \A m \in Nodes : route[m] \in Routes => saved'[m] = route[m]
        BY <1>0, <1>4, <1>5, <2>6 DEF CheckpointShape
      <3> QED BY <3>1, <3>2, SelectionGrows
    <2>8. \A m \in Nodes : phase'[m] \in {"running", "backoff"} => saved'[m] \notin Routes
      BY <1>0, <1>5, <2>4 DEF CheckpointShape, TypeOK
    <2>9. \A m \in Nodes : route'[m] \in Routes /\ ~plan.sensitive => saved'[m] = route'[m]
      BY <1>0, <1>5, <2>5 DEF CheckpointShape
    <2>10. plan.sensitive => \A m \in Nodes : saved'[m] \notin Routes
      BY <1>0, <1>5, <2>6 DEF CheckpointShape
    <2>11. \A m \in Nodes : saved'[m] \in Routes => m \in SelectedBy(saved')
      BY <1>0, <1>5, <2>2, <2>7 DEF CheckpointShape
    <2> QED BY <1>3, <2>3, <2>8, <2>9, <2>10, <2>11 DEF CheckpointShape
  <1>11. ItemShape'
    BY <1>0, ItemThread
  <1>12. OutcomeShape'
    BY <1>0, <1>3 DEF OutcomeShape
  <1> QED BY <1>1, <1>6, <1>7, <1>8, <1>9, <1>10, <1>11, <1>12 DEF Shape
(* The nodes that close have settled or closing predecessors.              *)
LEMMA ClosingClosed ==
  ASSUME TypeOK
  PROVE  /\ Closing \subseteq plan.nodes \ (settled \cup activated)
         /\ \A n \in Closing : Predecessors(plan, n) \subseteq settled \cup Closing
  BY DEF Closing

LEMMA ReadyShape ==
  ASSUME NEW passed
  PROVE  Ready(passed) \subseteq activated \ passed
         /\ \A n \in Ready(passed) : Predecessors(plan, n) \subseteq passed
  BY DEF Ready

(* A turn of the loop keeps the shape.                                     *)
LEMMA ShapeLoop == ASSUME Shape, Loop PROVE Shape'
  <1>0. TypeOK /\ RouteShape /\ AttemptShape /\ LoopShape /\ ActivationShape
        /\ CheckpointShape /\ ItemShape /\ OutcomeShape
    BY DEF Shape
  <1>1. TypeOK'
    BY <1>0, TypeLoop
  <1>2. UNCHANGED <<plan, route, tries, item, joined, saved, savedItem>>
    BY DEF Loop, CollectWave, StopAtHead, Complete, LaunchBatch, InputMissing, CollectBatch,
           runVars, threadVars, savedVars
  <1>3. SelectedBy(route)' = SelectedBy(route) /\ SelectedBy(saved)' = SelectedBy(saved)
    BY <1>2 DEF SelectedBy
  <1>4. ItemShape'
    BY <1>0, <1>2 DEF ItemShape
  <1>5. CASE CollectWave
    <2> DEFINE passed == settled \cup Closing
    <2>1. phase' = phase /\ activated' = activated /\ settled' = passed
          /\ (wave' = {} \/ wave' = Ready(passed)) /\ outcome' # "succeeded"
      BY <1>5 DEF CollectWave, threadVars
    <2>3. \A n \in passed : Predecessors(plan, n) \subseteq passed
      BY <1>0, ClosingClosed DEF LoopShape
    <2>4. \A n \in wave' : phase[n] = "idle"
      <3>1. wave' \subseteq activated \ passed
        BY <2>1, ReadyShape
      <3>2. \A n \in Nodes \ settled : phase[n] = "idle"
        BY <1>5 DEF CollectWave, AtHead, Quiet
      <3> QED BY <1>0, <3>1, <3>2 DEF TypeOK
    <2>5. LoopShape'
      BY <1>0, <1>2, <2>1, <2>3, <2>4, ReadyShape DEF LoopShape, Predecessors
    <2>6. ActivationShape'
      <3>1. \A n \in Closing : n \notin activated /\ route[n] \notin Routes
        <4>1. \A n \in Closing : n \in Nodes /\ n \notin activated
          BY <1>0, ClosingClosed, PlanTyped DEF PlanType
        <4> QED BY <1>0, <4>1 DEF LoopShape, RouteShape
      <3> QED BY <1>0, <1>2, <1>3, <2>1, <3>1 DEF ActivationShape
    <2> QED BY <1>0, <1>1, <1>2, <1>3, <1>4, <2>1, <2>5, <2>6
            DEF Shape, RouteShape, AttemptShape, CheckpointShape, OutcomeShape
  <1>6. CASE StopAtHead \/ Complete \/ InputMissing
    <2>1. UNCHANGED <<phase, activated, settled, wave>>
      BY <1>6 DEF StopAtHead, Complete, InputMissing, threadVars, loopVars
    <2>2. OutcomeShape'
      BY <1>2, <1>6, <2>1 DEF StopAtHead, Complete, InputMissing, OutcomeShape, ControlError
    <2> QED BY <1>0, <1>1, <1>2, <1>3, <1>4, <2>1, <2>2
            DEF Shape, RouteShape, AttemptShape, CheckpointShape, LoopShape, ActivationShape,
                Predecessors
  <1>7. CASE LaunchBatch
    <2>1. UNCHANGED <<activated, settled, outcome>> /\ wave' \subseteq wave
          /\ phase' = [n \in Nodes |-> IF n \in Batch THEN "spawned" ELSE phase[n]]
          /\ wave' = wave \ Batch
      BY <1>7 DEF LaunchBatch
    <2>2. Batch \subseteq wave
      BY DEF Batch, FirstOf
    <2>3. \A n \in Batch : phase[n] = "idle"
      BY <1>0, <2>2 DEF LoopShape
    <2>4. LoopShape'
      BY <1>0, <1>2, <2>1, <2>2 DEF LoopShape, Predecessors, TypeOK
    <2>5. RouteShape' /\ AttemptShape'
      BY <1>0, <1>2, <2>1, <2>3 DEF RouteShape, AttemptShape
    <2>6. CheckpointShape'
      BY <1>0, <1>2, <1>3, <2>1 DEF CheckpointShape
    <2> QED BY <1>0, <1>1, <1>2, <1>3, <1>4, <2>1, <2>4, <2>5, <2>6
            DEF Shape, ActivationShape, OutcomeShape
  <1>8. CASE CollectBatch
    <2> DEFINE ok == {n \in Uncollected : phase[n] = "done"}
    <2>1. UNCHANGED <<phase, wave>> /\ settled' = settled \cup ok
          /\ activated' = activated \cup UNION {plan.on[n][route[n]] : n \in ok}
      BY <1>8 DEF CollectBatch, threadVars
    <2>2. \A n \in ok : n \in Nodes /\ n \notin settled /\ n \in activated /\ route[n] \in Routes
                        /\ Predecessors(plan, n) \subseteq settled
      BY <1>0 DEF Uncollected, LoopShape, RouteShape
    <2>3. LoopShape'
      BY <1>0, <1>2, <2>1, <2>2 DEF LoopShape, Predecessors
    <2>4. ActivationShape'
      <3>1. \A n \in ok : plan.on[n][route[n]] \subseteq SelectedBy(route)
        BY <1>0, <2>2, SelectionStep DEF ActivationShape
      <3>2. \A n \in ok : \A t \in plan.on[n][route[n]] : t \notin settled
        BY <1>0, <2>2 DEF LoopShape, Predecessors, TypeOK
      <3> QED BY <1>0, <1>2, <1>3, <2>1, <2>2, <3>1, <3>2 DEF ActivationShape
    <2>5. outcome' # "succeeded"
      BY <1>0, <1>8 DEF CollectBatch, Reported, TypeOK, Errors, Signals, Uncollected, Live
    <2> QED BY <1>0, <1>1, <1>2, <1>3, <1>4, <2>1, <2>3, <2>4, <2>5
            DEF Shape, RouteShape, AttemptShape, CheckpointShape, OutcomeShape
  <1> QED BY <1>5, <1>6, <1>7, <1>8 DEF Loop
LEMMA ShapeSignal == ASSUME Shape, NEW s \in Signals, Signal(s) PROVE Shape'
  <1>1. UNCHANGED <<plan, restarts, activated, settled, wave, phase, route, tries, item, joined,
                    saved, savedItem, outcome, blamed>>
        /\ signals' = signals \cup {s}
    BY DEF Signal, loopVars, threadVars, savedVars
  <1>2. TypeOK'
    BY <1>1 DEF Shape, TypeOK
  <1> QED BY <1>1, <1>2
          DEF Shape, RouteShape, AttemptShape, LoopShape, ActivationShape, CheckpointShape,
              ItemShape, OutcomeShape, SelectedBy, Predecessors

(* A new process begins from the checkpoints.                              *)
LEMMA ShapeRestart == ASSUME Shape, Restart PROVE Shape'
  <1>0. TypeOK /\ CheckpointShape
    BY DEF Shape
  <1>1. /\ UNCHANGED <<plan, saved, savedItem>> /\ blamed' = FALSE
        /\ activated' = {plan.entry} /\ settled' = {} /\ wave' = {}
        /\ phase' = [n \in Nodes |-> "idle"] /\ route' = [n \in Nodes |-> "none"]
        /\ tries' = [n \in Nodes |-> 0] /\ item' = [n \in Nodes |-> NoItems]
        /\ joined' = [n \in Nodes |-> 0]
        /\ outcome' \in {"cancelled", "interrupted", "running"}
        /\ signals' \subseteq signals /\ restarts < MaxRestarts /\ restarts' = restarts + 1
    BY DEF Restart, savedVars
  <1>2. TypeOK'
    <2>1. NoItems \in [1..Items -> {"idle", "running", "ok"} \cup Errors]
      BY DEF NoItems
    <2>2. item' \in [Nodes -> [1..Items -> {"idle", "running", "ok"} \cup Errors]]
      BY <1>1, <2>1
    <2>3. tries' \in [Nodes -> 0..Attempts] /\ joined' \in [Nodes -> 0..Items]
          /\ restarts' \in 0..MaxRestarts
      BY <1>0, <1>1, GraphBounds DEF TypeOK
    <2>4. plan.entry \in Nodes
      BY <1>0, PlanTyped DEF PlanType
    <2>5. phase' \in [Nodes -> {"idle", "done"} \cup Live \cup Errors]
          /\ route' \in [Nodes -> Routes \cup {"none"}]
      BY <1>1
    <2>6. outcome' \in {"running", "succeeded", "stuck", "interrupted"} \cup Errors
      BY <1>1 DEF Errors, Signals
    <2> QED BY <1>0, <1>1, <2>2, <2>3, <2>4, <2>5, <2>6 DEF TypeOK
  <1>3. "none" \notin Routes
    BY DEF Routes
  <1>4. RouteShape' /\ AttemptShape' /\ LoopShape' /\ OutcomeShape'
    BY <1>1, <1>3 DEF RouteShape, AttemptShape, LoopShape, OutcomeShape
  <1>5. ItemShape'
    BY <1>1 DEF ItemShape, NoItems
  <1>6. ActivationShape'
    <2>1. SelectedBy(route)' = SelectedBy(route')
      BY <1>1 DEF SelectedBy
    <2> QED BY <1>0, <1>1, <2>1, EntrySelected DEF ActivationShape
  <1>7. CheckpointShape'
    <2>1. SelectedBy(saved)' = SelectedBy(saved)
      BY <1>1 DEF SelectedBy
    <2> QED BY <1>0, <1>1, <1>3, <2>1 DEF CheckpointShape
  <1> QED BY <1>2, <1>4, <1>5, <1>6, <1>7 DEF Shape

LEMMA ShapeNext == ASSUME Shape, [Next]_vars PROVE Shape'
  <1>1. CASE UNCHANGED vars
    <2>1. UNCHANGED <<plan, signals, restarts, activated, settled, wave, phase, route, tries,
                      item, joined, saved, savedItem, outcome, blamed>>
      BY <1>1 DEF vars, runVars, loopVars, threadVars, savedVars
    <2>2. TypeOK'
      BY <2>1 DEF Shape, TypeOK
    <2> QED BY <2>1, <2>2
            DEF Shape, RouteShape, AttemptShape, LoopShape, ActivationShape, CheckpointShape,
                ItemShape, OutcomeShape, SelectedBy, Predecessors
  <1> QED BY <1>1, ShapeSignal, ShapeLoop, ShapeThread, ShapeRestart DEF Next

(* The inductive invariant of the run of a graph.                          *)
LEMMA ShapeHolds == Spec => []Shape
  <1>1. Init => Shape
    BY ShapeInit
  <1>2. Shape /\ [Next]_vars => Shape'
    BY ShapeNext
  <1> QED BY <1>1, <1>2, PTL DEF Spec

(* Every variable of the run keeps its type: a retry counts no further     *)
(* than the policy, a chunk ends within the items.                         *)
THEOREM GraphTypeCorrect == Spec => []TypeOK
  <1>1. Shape => TypeOK
    BY DEF Shape
  <1> QED BY <1>1, ShapeHolds, PTL

(* A node starts after everything that could still lead to it: the set of  *)
(* settled nodes and the node itself is closed under predecessors.         *)
THEOREM JoinsWait == Spec => []JoinWaits
  <1>1. ASSUME Shape PROVE JoinWaits
    <2> SUFFICES ASSUME NEW n \in Nodes, phase[n] # "idle"
                 PROVE  Reaching(plan, n) \subseteq settled \cup {n}
      BY DEF JoinWaits
    <2>1. TypeOK /\ LoopShape
      BY <1>1 DEF Shape
    <2> DEFINE S == settled \cup {n}
    <2>2. S \in SUBSET Nodes /\ n \in S
      BY <2>1 DEF TypeOK
    <2>3. \A k \in S : Predecessors(plan, k) \subseteq S
      BY <2>1 DEF LoopShape
    <2> HIDE DEF S
    <2>4. Reaching(plan, n) \subseteq S
      BY <2>2, <2>3 DEF Reaching
    <2> QED BY <2>4 DEF S
  <1> QED BY <1>1, ShapeHolds, PTL

(* A successful run has run exactly what its routes and the checkpoints    *)
(* of earlier processes select, for every graph and every interleaving.    *)
THEOREM RunMatchesRoutes == Spec => []RanMatchesRoutes
  <1>1. ASSUME Shape PROVE RanMatchesRoutes
    <2> SUFFICES ASSUME outcome = "succeeded"
                 PROVE  /\ Ran = SelectedBy(route)
                        /\ \A n \in Nodes : saved[n] \in Routes => route[n] = saved[n]
      BY DEF RanMatchesRoutes
    <2>0. TypeOK /\ RouteShape /\ LoopShape /\ ActivationShape /\ CheckpointShape
      BY <1>1 DEF Shape
    <2>1. settled = plan.nodes
      BY <1>1 DEF Shape, OutcomeShape
    <2>2. \A n \in Nodes : n \in Ran <=> route[n] \in Routes
      BY <2>0 DEF Ran, TypeOK, Routes
    <2>3. Ran \subseteq activated /\ Ran \in SUBSET Nodes
      BY <2>0, <2>2 DEF RouteShape, LoopShape, Ran
    <2>4. plan.entry \in Ran
      BY <2>0, <2>1, <2>2, PlanClosed DEF ActivationShape, TypeOK
    <2>5. Ran \subseteq plan.nodes
      <3>1. plan.entry \in plan.nodes
            /\ \A m \in plan.nodes : \A r \in Routes : plan.on[m][r] \subseteq plan.nodes
        BY <2>0, PlanClosed
      <3>2. plan.nodes \in SUBSET Nodes
        BY <2>0, PlanTyped DEF PlanType
      <3>3. SelectedBy(route) \subseteq plan.nodes
        BY <3>1, <3>2 DEF SelectedBy
      <3> QED BY <2>0, <2>3, <3>3 DEF ActivationShape
    <2>6. \A m \in Ran : plan.on[m][route[m]] \subseteq Ran
      <3> SUFFICES ASSUME NEW m \in Ran, NEW t \in plan.on[m][route[m]] PROVE t \in Ran
        OBVIOUS
      <3>1. m \in settled /\ route[m] \in Routes
        BY <2>1, <2>2, <2>3, <2>5
      <3>2. t \in activated
        BY <2>0, <3>1 DEF ActivationShape
      <3>3. t \in settled /\ t \in Nodes
        BY <2>0, <2>1, <3>1, PlanClosed, <3>2 DEF TypeOK
      <3> QED BY <2>0, <2>2, <3>2, <3>3 DEF ActivationShape
    <2>7. Ran = SelectedBy(route)
      <3>1. SelectedBy(route) \subseteq Ran
        BY <2>3, <2>4, <2>6 DEF SelectedBy
      <3> QED BY <2>0, <2>3, <3>1 DEF ActivationShape
    <2>8. \A m \in Ran : saved[m] \in Routes => saved[m] = route[m]
      BY <2>0, <2>2, <2>3 DEF CheckpointShape
    <2>9. SelectedBy(saved) \subseteq Ran
      <3>1. \A m \in Ran : saved[m] \in Routes => plan.on[m][saved[m]] \subseteq Ran
        BY <2>6, <2>8
      <3> QED BY <2>3, <2>4, <3>1 DEF SelectedBy
    <2>10. \A n \in Nodes : saved[n] \in Routes => route[n] = saved[n]
      BY <2>0, <2>8, <2>9 DEF CheckpointShape
    <2> QED BY <2>7, <2>10
  <1> QED BY <1>1, ShapeHolds, PTL

(* Neither a retry of a container nor a restart repeats completed work.    *)
THEOREM CompletedWorkKept == Spec => CompletedKept
  <1>1. ASSUME Shape, [Next]_vars PROVE [KeepsCompleted]_vars
    <2>0. TypeOK /\ CheckpointShape /\ ItemShape
      BY <1>1 DEF Shape
    <2>1. CASE UNCHANGED vars
      BY <2>1
    <2>2. ItemShape'
      BY <1>1, ShapeNext DEF Shape
    <2>3. ASSUME NEW n \in Nodes, Thread(n) PROVE KeepsCompleted
      <3>1. \A m \in Nodes : \A j \in 1..Items :
               savedItem[m][j] = "ok" => savedItem'[m][j] = "ok"
        BY <2>0, <2>3, ItemThread
      <3>2. \A m \in Nodes : saved[m] \in Routes => saved'[m] = saved[m]
        <4>1. Completes(n) \/ Continues(n) \/ UNCHANGED saved
          BY <2>0, <2>3, ThreadEffect
        <4> QED BY <2>0, <4>1 DEF Completes, Continues, TypeOK
      <3> QED BY <2>2, <3>1, <3>2 DEF KeepsCompleted, ItemShape
    <2>4. CASE (\E s \in Signals : Signal(s)) \/ Loop \/ Restart
      <3>1. UNCHANGED <<saved, savedItem>>
        BY <2>4 DEF Signal, Loop, CollectWave, StopAtHead, Complete, LaunchBatch, InputMissing,
                    CollectBatch, Restart, savedVars
      <3> QED BY <2>2, <3>1 DEF KeepsCompleted, ItemShape
    <2> QED BY <1>1, <2>1, <2>3, <2>4 DEF Next
  <1> QED BY <1>1, ShapeHolds, PTL DEF Spec, CompletedKept
-----------------------------------------------------------------------------
(* A nonempty set of numbers has a least element.                          *)
LEMMA LeastNatural ==
  ASSUME NEW S \in SUBSET Nat, S # {}
  PROVE  \E n \in S : \A m \in S : n <= m
  <1> DEFINE R == OpToRel(<, Nat)
  <1>1. IsWellFoundedOn(R, Nat)
    BY NatLessThanWellFounded
  <1>2. \A a, b \in Nat : <<a, b>> \in R <=> a < b
    BY DEF OpToRel
  <1> HIDE DEF R
  <1>3. PICK n \in S : \A m \in S : ~(<<m, n>> \in R)
    BY <1>1, WFMin
  <1>4. \A m \in S : ~(m < n)
    BY <1>2, <1>3
  <1> QED BY <1>4

(* What reaches a node: the node, its predecessors, what reaches those.    *)
LEMMA ReachingClosed ==
  ASSUME NEW p, NEW n \in Nodes
  PROVE  /\ n \in Reaching(p, n)
         /\ \A m \in Reaching(p, n) : Predecessors(p, m) \subseteq Reaching(p, n)
         /\ \A m \in Reaching(p, n) : Reaching(p, m) \subseteq Reaching(p, n)
  <1>1. n \in Reaching(p, n)
    BY DEF Reaching
  <1>2. ASSUME NEW m \in Reaching(p, n), NEW k \in Predecessors(p, m)
        PROVE  k \in Reaching(p, n)
    BY DEF Reaching, Predecessors
  <1>3. ASSUME NEW m \in Reaching(p, n), NEW k \in Reaching(p, m)
        PROVE  k \in Reaching(p, n)
    BY DEF Reaching
  <1> QED BY <1>1, <1>2, <1>3

(* The last arc of a path.                                                 *)
LEMMA ReachingStep ==
  ASSUME NEW p, NEW n \in Nodes, NEW m \in Reaching(p, n), m # n
  PROVE  \E k \in Predecessors(p, n) : m \in Reaching(p, k)
  <1> DEFINE S == {n} \cup UNION {Reaching(p, k) : k \in Predecessors(p, n)}
  <1>1. S \in SUBSET Nodes
    BY DEF Reaching
  <1>2. \A k \in Predecessors(p, n) : k \in Nodes /\ k \in S
    BY ReachingClosed DEF Predecessors
  <1>3. ASSUME NEW j \in S PROVE Predecessors(p, j) \subseteq S
    <2>1. CASE j = n
      BY <1>2, <2>1
    <2>2. CASE j # n
      <3>1. PICK k \in Predecessors(p, n) : j \in Reaching(p, k)
        BY <2>2
      <3>2. Predecessors(p, j) \subseteq Reaching(p, k)
        BY <1>2, <3>1, ReachingClosed
      <3> QED BY <3>2
    <2> QED BY <2>1, <2>2
  <1>4. m \in S
    <2> HIDE DEF S
    <2>1. n \in S
      BY DEF S
    <2> QED BY <1>1, <1>3, <2>1 DEF Reaching
  <1> QED BY <1>4

(* In an acyclic graph a set of nodes has one that no other leads to: the  *)
(* one with the fewest nodes before it.                                    *)
LEMMA FirstNode ==
  ASSUME NEW p, Acyclic(p), NEW U \in SUBSET Nodes, U # {}
  PROVE  \E n \in U : Reaching(p, n) \cap U \subseteq {n}
  <1> DEFINE Size(n) == Cardinality(Reaching(p, n))
             Sizes == {Size(n) : n \in U}
  <1>1. \A n \in Nodes : IsFiniteSet(Reaching(p, n)) /\ Size(n) \in Nat
    <2> TAKE n \in Nodes
    <2>1. Reaching(p, n) \subseteq Nodes
      BY DEF Reaching
    <2> QED BY <2>1, NodesNumbered, FS_Subset, FS_CardinalityType
  <1>2. Sizes \in SUBSET Nat /\ Sizes # {}
    BY <1>1
  <1>3. PICK s \in Sizes : \A t \in Sizes : s <= t
    BY <1>2, LeastNatural
  <1>4. PICK n \in U : Size(n) = s
    BY <1>3
  <1>5. ASSUME NEW m \in Reaching(p, n), m \in U, m # n
        PROVE  FALSE
    <2>1. n \in Nodes /\ m \in Nodes
      BY <1>5
    <2>2. PICK k \in Predecessors(p, n) : m \in Reaching(p, k)
      BY <1>5, <2>1, ReachingStep
    <2>3. k \in Nodes /\ n \notin Reaching(p, k)
      BY <2>1, <2>2 DEF Acyclic, Predecessors
    <2>4. n \notin Reaching(p, m)
      BY <2>2, <2>3, ReachingClosed
    <2>5. Reaching(p, m) \subseteq Reaching(p, n) /\ Reaching(p, m) # Reaching(p, n)
      BY <2>1, <2>4, <1>5, ReachingClosed
    <2>6. Size(m) < Size(n)
      BY <1>1, <2>1, <2>5, FS_Subset
    <2>7. Size(m) \in Sizes
      BY <1>5
    <2> QED BY <1>1, <1>3, <1>4, <2>1, <2>6, <2>7
  <1> QED BY <1>5

(* The loop makes progress: with paths left and no node ready, the first   *)
(* node that is left waits for itself.                                     *)
LEMMA Progress ==
  ASSUME TypeOK, settled \subseteq plan.nodes,
         settled \cup Closing # plan.nodes, Ready(settled \cup Closing) = {}
  PROVE  \E n \in Nodes : n \in plan.needs[n]
  <1> DEFINE passed == settled \cup Closing
             U == plan.nodes \ passed
  <1>1. plan \in PlanType /\ Accepted(plan)
    BY PlanTyped
  <1>2. /\ Closing \subseteq plan.nodes \ (settled \cup activated)
        /\ \A n \in Closing : Predecessors(plan, n) \subseteq settled \cup Closing
    BY ClosingClosed
  <1>3. U \in SUBSET Nodes /\ U # {}
    BY <1>1, <1>2 DEF PlanType
  <1>4. PICK n \in U : Reaching(plan, n) \cap U \subseteq {n}
    <2> HIDE DEF U
    <2>1. Acyclic(plan)
      BY <1>1 DEF Accepted
    <2> QED BY <1>3, <2>1, FirstNode
  <1>5. n \in Nodes /\ n \in plan.nodes /\ n \notin settled /\ n \notin Closing
    BY <1>3
  <1>6. Predecessors(plan, n) \subseteq passed
    <2>1. Predecessors(plan, n) \subseteq Reaching(plan, n)
      BY <1>5, ReachingClosed
    <2>2. n \notin Predecessors(plan, n)
      BY <1>1, <1>5, ReachingClosed DEF Accepted, Acyclic
    <2>3. Predecessors(plan, n) \subseteq plan.nodes
      BY <1>1, <1>5 DEF Accepted
    <2> QED BY <1>4, <2>1, <2>2, <2>3
  <1>7. plan.needs[n] \subseteq passed \cup {n}
    <2>1. plan.needs[n] \subseteq plan.nodes \cap Reaching(plan, n)
      BY <1>1, <1>5 DEF Accepted
    <2> QED BY <1>4, <2>1
  <1>8. n \in activated
    <2> SUFFICES ASSUME n \notin activated PROVE FALSE
      OBVIOUS
    <2> DEFINE C == Closing \cup {n}
    <2>1. C \in SUBSET (plan.nodes \ (settled \cup activated))
      BY <1>2, <1>5
    <2>2. \A m \in C : Predecessors(plan, m) \subseteq settled \cup C
      BY <1>2, <1>6
    <2>3. C \subseteq Closing
      <3> HIDE DEF C
      <3> QED BY <2>1, <2>2 DEF Closing
    <2> QED BY <1>5, <2>3
  <1>9. CASE n \notin plan.needs[n]
    <2>1. n \in Ready(passed)
      BY <1>5, <1>6, <1>7, <1>8, <1>9 DEF Ready
    <2> QED BY <2>1
  <1> QED BY <1>5, <1>9

(* A foreach whose items were stopped from outside.                        *)
Wrapped ==
    \E n \in Nodes : /\ plan.kind[n] = "foreach"
                     /\ \E i \in 1..Items : item[n][i] \in Signals \cup {"sibling"}

(* Every error in the state has its cause there as well: a signal was sent,*)
(* a failure is blamed or wraps what stopped an item, and an echo follows  *)
(* an error that is none.  A settled node has no error.                    *)
CauseShape ==
    /\ settled \subseteq plan.nodes
    /\ \A n \in settled : phase[n] \in {"idle", "done"}
    /\ \A n \in Nodes : phase[n] \in Signals => phase[n] \in signals
    /\ \A n \in Nodes : phase[n] = "failed" => blamed \/ Wrapped
    /\ Aborted => \E n \in Nodes : phase[n] \in Errors \ {"sibling"}
    /\ \A n \in Nodes : \A i \in 1..Items :
          /\ item[n][i] \in Signals => item[n][i] \in signals
          /\ item[n][i] = "failed" => blamed
          /\ item[n][i] = "sibling" => Aborted

(* An error that a thread may meet.                                        *)
Caused(e) == (e \in Signals => e \in signals) /\ (e = "sibling" => Aborted)

LEMMA ControlErrorCaused ==
  /\ Caused(ControlError) /\ ControlError # "failed"
  /\ ControlError = "none" => ~Aborted
  BY DEF Caused, ControlError, Signals

(* A thread changes its phase for a cause ...                              *)
PhaseEffect(n) ==
    /\ item' = item
    /\ \E k : /\ phase' = [phase EXCEPT ![n] = k]
              /\ Caused(k)
              /\ k = "failed" => blamed' \/ Wrapped

(* ... or begins an attempt after nothing went wrong ...                   *)
AttemptEffect(n) ==
    /\ ~Aborted
    /\ item' = [item EXCEPT ![n] = NoItems]
    /\ phase' = [phase EXCEPT ![n] = "running"]

(* ... or moves one of its items.                                          *)
Moves(n, i, e) ==
    /\ phase' = phase
    /\ item[n][i] \in {"idle", "running"}
    /\ item' = [item EXCEPT ![n][i] = e]
    /\ Caused(e)
    /\ e = "failed" => blamed'
ItemEffect(n) == \E i \in 1..Items : \E e : Moves(n, i, e)

LEMMA SucceedEffect ==
  ASSUME NEW n \in Nodes, NEW r, Succeed(n, r), item' = item
  PROVE  PhaseEffect(n) /\ (blamed => blamed')
  <1>1. Caused("done") /\ Caused("failed")
    BY DEF Caused, Signals
  <1>2. CASE phase' = [phase EXCEPT ![n] = "done"] /\ blamed' = blamed
    <2>1. Caused("done") /\ ("done" = "failed" => blamed' \/ Wrapped)
      BY <1>1
    <2> QED BY <1>2, <2>1 DEF PhaseEffect
  <1>3. CASE phase' = [phase EXCEPT ![n] = "failed"] /\ blamed' = TRUE
    BY <1>1, <1>3 DEF PhaseEffect
  <1> QED BY <1>2, <1>3 DEF Succeed

LEMMA AttemptEndEffect ==
  ASSUME NEW n \in Nodes, NEW e, EndAttempt(n, e), item' = item,
         Caused(e), e = "failed" => blamed' \/ Wrapped
  PROVE  PhaseEffect(n)
  <1> DEFINE k == IF Retryable(n, e) THEN "backoff" ELSE e
  <1>1. Caused(k) /\ (k = "failed" => blamed' \/ Wrapped)
    BY DEF Caused, Signals
  <1>2. phase' = [phase EXCEPT ![n] = k]
    BY DEF EndAttempt
  <1> HIDE DEF k
  <1> QED BY <1>1, <1>2 DEF PhaseEffect

(* The error of a container is that of an item, or wraps it.               *)
LEMMA ContainerErrorCaused ==
  ASSUME TypeOK, CauseShape, NEW n \in Nodes, ItemError(n) # {}, plan.kind[n] # "tolerant"
  PROVE  /\ Caused(ContainerError(n))
         /\ ContainerError(n) = "failed" => blamed \/ Wrapped
  <1>1. PICK i \in ItemError(n) : TRUE
    OBVIOUS
  <1>2. i \in 1..Items /\ i \in Chunk(n) /\ item[n][i] \in Errors
    BY ChunkType DEF ItemError
  <1>3. CASE plan.kind[n] = "foreach"
    <2>1. ContainerError(n) = "failed"
      BY <1>3 DEF ContainerError
    <2>2. item[n][i] = "failed" => blamed
      BY <1>2 DEF CauseShape
    <2>3. item[n][i] # "failed" => Wrapped
      BY <1>2, <1>3 DEF Wrapped, Errors
    <2> QED BY <2>1, <2>2, <2>3 DEF Caused, Signals
  <1>4. CASE plan.kind[n] # "foreach"
    <2>1. joined[n] \in 0..Items /\ Last(n) \in 1..Items
      BY ChunkType DEF TypeOK
    <2>2. plan.kind[n] \notin ForEach
      BY <1>4 DEF ForEach
    <2>3. Chunk(n) \subseteq {ChunkEnd(n)}
      BY <2>1, <2>2, GraphBounds DEF Chunk, ChunkEnd
    <2>4. ContainerError(n) = item[n][i]
      BY <1>2, <1>4, <2>3 DEF ContainerError
    <2> QED BY <1>2, <2>4 DEF CauseShape, Caused
  <1> QED BY <1>3, <1>4

(* Every step of a thread is one of the three.                             *)
LEMMA ThreadCause ==
  ASSUME TypeOK, CauseShape, NEW n \in Nodes, Thread(n)
  PROVE  /\ blamed => blamed'
         /\ PhaseEffect(n) \/ AttemptEffect(n) \/ ItemEffect(n)
  <1>0. \A k \in {"done", "running", "failed", "ok"} : Caused(k)
    BY DEF Caused, Signals
  <1>1. CASE Reuse(n) \/ Begin(n)
    <2>1. item' = item /\ blamed' = blamed
          /\ \E k \in {"done", "running"} : phase' = [phase EXCEPT ![n] = k]
      BY <1>1 DEF Reuse, Begin
    <2> QED BY <1>0, <2>1 DEF PhaseEffect
  <1>2. CASE EndLeaf(n)
    <2>1. item' = item
      BY <1>2 DEF EndLeaf
    <2>2. \/ \E r \in Routes : Succeed(n, r)
          \/ EndAttempt(n, "failed") /\ blamed' = TRUE
          \/ EndAttempt(n, ControlError) /\ blamed' = blamed
      BY <1>2 DEF EndLeaf, Routes
    <2> QED BY <1>0, <2>1, <2>2, SucceedEffect, AttemptEndEffect, ControlErrorCaused
  <1>3. CASE Backoff(n)
    <2>1. CASE ControlError = "none"
      BY <1>3, <2>1, ControlErrorCaused DEF Backoff, AttemptEffect
    <2>2. CASE ControlError # "none"
      BY <1>3, <2>2, ControlErrorCaused DEF Backoff, PhaseEffect
    <2> QED BY <1>3, <2>1, <2>2 DEF Backoff
  <1>4. ASSUME NEW i \in 1..Items, StartItem(n, i)
        PROVE  ItemEffect(n) /\ blamed' = blamed
    <2> DEFINE e == IF ControlError # "none" THEN ControlError
                    ELSE IF savedItem[n][i] = "ok" THEN "ok" ELSE "running"
    <2>1. Caused(e) /\ e # "failed"
      BY <1>0, ControlErrorCaused
    <2>2. item' = [item EXCEPT ![n][i] = e] /\ item[n][i] = "idle"
          /\ phase' = phase /\ blamed' = blamed
      BY <1>4 DEF StartItem
    <2> HIDE DEF e
    <2>3. item[n][i] \in {"idle", "running"} /\ (e = "failed" => blamed')
      BY <2>1, <2>2
    <2>4. Moves(n, i, e)
      BY <2>1, <2>2, <2>3 DEF Moves
    <2> QED BY <2>2, <2>4 DEF ItemEffect
  <1>5. ASSUME NEW i \in 1..Items, EndItem(n, i)
        PROVE  ItemEffect(n) /\ (blamed => blamed')
    <2>1. phase' = phase /\ item[n][i] = "running"
      BY <1>5 DEF EndItem
    <2>2. \E e : /\ item' = [item EXCEPT ![n][i] = e]
                 /\ Caused(e)
                 /\ e = "failed" => blamed'
                 /\ blamed => blamed'
      <3>1. CASE item' = [item EXCEPT ![n][i] = "ok"] /\ blamed' = blamed
        <4>1. Caused("ok") /\ ("ok" = "failed" => blamed') /\ (blamed => blamed')
          BY <1>0, <3>1
        <4> QED BY <3>1, <4>1
      <3>2. CASE item' = [item EXCEPT ![n][i] = "failed"] /\ blamed' = TRUE
        <4>1. Caused("failed") /\ ("failed" = "failed" => blamed') /\ (blamed => blamed')
          BY <1>0, <3>2
        <4> QED BY <3>2, <4>1
      <3>3. CASE item' = [item EXCEPT ![n][i] = ControlError] /\ blamed' = blamed
        <4>1. Caused(ControlError) /\ (ControlError = "failed" => blamed') /\ (blamed => blamed')
          BY <3>3, ControlErrorCaused
        <4> HIDE DEF ControlError
        <4> QED BY <3>3, <4>1
      <3>4. \/ item' = [item EXCEPT ![n][i] = "ok"] /\ blamed' = blamed
            \/ item' = [item EXCEPT ![n][i] = "failed"] /\ blamed' = TRUE
            \/ item' = [item EXCEPT ![n][i] = ControlError] /\ blamed' = blamed
        BY <1>5 DEF EndItem, TypeOK
      <3> QED BY <3>1, <3>2, <3>3, <3>4
    <2>3. \E e : Moves(n, i, e) /\ (blamed => blamed')
      BY <2>1, <2>2 DEF Moves
    <2> QED BY <2>3 DEF ItemEffect
  <1>6. CASE EndEmpty(n)
    <2>1. item' = item
      BY <1>6 DEF EndEmpty
    <2>2. (EndAttempt(n, "failed") /\ blamed' = TRUE) \/ Succeed(n, "success")
      BY <1>6 DEF EndEmpty
    <2> QED BY <1>0, <2>1, <2>2, SucceedEffect, AttemptEndEffect
  <1>7. CASE ChunkFails(n)
    <2>1. /\ item' = item /\ blamed' = blamed /\ EndAttempt(n, ContainerError(n))
          /\ ItemError(n) # {} /\ plan.kind[n] # "tolerant"
      BY <1>7 DEF ChunkFails
    <2> QED BY <2>1, ContainerErrorCaused, AttemptEndEffect
  <1>8. CASE ChunkPasses(n)
    <2>1. item' = item
      BY <1>8 DEF ChunkPasses
    <2>2. UNCHANGED <<phase, blamed>> \/ \E r : Succeed(n, r)
      BY <1>8 DEF ChunkPasses
    <2>3. CASE UNCHANGED <<phase, blamed>>
      <3>1. phase' = [phase EXCEPT ![n] = phase[n]]
        BY <2>3 DEF TypeOK
      <3>2. phase[n] = "running"
        BY <1>8 DEF ChunkPasses, ChunkJoined, InContainer
      <3> QED BY <1>0, <2>1, <2>3, <3>1, <3>2 DEF PhaseEffect
    <2> QED BY <2>1, <2>2, <2>3, SucceedEffect
  <1> QED BY <1>1, <1>2, <1>3, <1>4, <1>5, <1>6, <1>7, <1>8 DEF Thread

(* A step of a thread keeps the causes.                                    *)
LEMMA CauseThread == ASSUME Shape, CauseShape, NEW n \in Nodes, Thread(n) PROVE CauseShape'
  <1>0. TypeOK /\ TypeOK' /\ LoopShape /\ CheckpointShape
    BY ShapeThread DEF Shape
  <1>1. UNCHANGED <<plan, signals, settled>> /\ phase[n] \in Live
    BY <1>0, ThreadEffect DEF runVars, loopVars
  <1>2. n \notin settled /\ phase[n] \notin Errors
    BY <1>1 DEF CauseShape, Live, Errors, Signals
  <1>3. (blamed => blamed') /\ (PhaseEffect(n) \/ AttemptEffect(n) \/ ItemEffect(n))
    BY <1>0, ThreadCause
  <1>4. \A m \in Nodes \ {n} : phase'[m] = phase[m]
    BY <1>0, <1>3 DEF PhaseEffect, AttemptEffect, ItemEffect, Moves, TypeOK
  <1>5. \A m \in settled : phase'[m] \in {"idle", "done"}
    BY <1>0, <1>2, <1>4 DEF CauseShape, TypeOK
  <1>6. Aborted => \E m \in Nodes : phase'[m] \in Errors \ {"sibling"}
    BY <1>2, <1>4 DEF CauseShape
  <1>7. Aborted => Aborted'
    BY <1>6 DEF Aborted
  <1>8. CASE PhaseEffect(n)
    <2>1. PICK k : /\ phase' = [phase EXCEPT ![n] = k] /\ Caused(k)
                   /\ k = "failed" => blamed' \/ Wrapped
      BY <1>8 DEF PhaseEffect
    <2>2. phase'[n] = k /\ item' = item
      BY <1>0, <1>8, <2>1 DEF PhaseEffect, TypeOK
    <2>3. Wrapped' <=> Wrapped
      BY <1>1, <2>2 DEF Wrapped
    <2>4. Aborted' => \E m \in Nodes : phase'[m] \in Errors \ {"sibling"}
      <3>1. CASE \E m \in Nodes \ {n} : phase[m] \in Errors
        BY <1>6, <3>1 DEF Aborted
      <3>2. CASE k \in Errors
        BY <1>6, <2>1, <2>2, <3>2 DEF Caused
      <3> QED BY <1>4, <2>2, <3>1, <3>2 DEF Aborted
    <2>5. \A m \in Nodes : phase'[m] \in Signals => phase'[m] \in signals
      BY <1>4, <2>1, <2>2 DEF CauseShape, Caused
    <2>6. \A m \in Nodes : phase'[m] = "failed" => blamed' \/ Wrapped'
      BY <1>3, <1>4, <2>1, <2>2, <2>3 DEF CauseShape
    <2>7. \A m \in Nodes : \A i \in 1..Items :
             /\ item'[m][i] \in Signals => item'[m][i] \in signals
             /\ item'[m][i] = "failed" => blamed'
             /\ item'[m][i] = "sibling" => Aborted'
      BY <1>3, <1>7, <2>2 DEF CauseShape
    <2> QED BY <1>1, <1>5, <2>4, <2>5, <2>6, <2>7 DEF CauseShape
  <1>9. CASE AttemptEffect(n)
    <2>1. \A m \in Nodes : phase'[m] \notin Errors
      BY <1>0, <1>4, <1>9 DEF AttemptEffect, Aborted, TypeOK, Errors, Signals
    <2>2. \A m \in Nodes : item'[m] = IF m = n THEN NoItems ELSE item[m]
      BY <1>0, <1>9 DEF AttemptEffect, TypeOK
    <2>3. \A m \in Nodes : \A i \in 1..Items : item'[m][i] \in {item[m][i], "idle"}
      BY <2>2 DEF NoItems
    <2>4. \A m \in Nodes : \A i \in 1..Items :
             /\ item'[m][i] \in Signals => item'[m][i] \in signals
             /\ item'[m][i] = "failed" => blamed'
             /\ item'[m][i] = "sibling" => Aborted'
      BY <1>3, <1>7, <2>3 DEF CauseShape, Signals
    <2>5. ~Aborted'
      BY <2>1 DEF Aborted
    <2>6. \A m \in Nodes : phase'[m] \notin Signals /\ phase'[m] # "failed"
      BY <2>1 DEF Errors
    <2> QED BY <1>1, <1>5, <2>4, <2>5, <2>6 DEF CauseShape
  <1>10. CASE ItemEffect(n)
    <2>0. PICK i \in 1..Items : \E e : Moves(n, i, e)
      BY <1>10 DEF ItemEffect
    <2>1. phase' = phase
      BY <2>0 DEF Moves
    <2>2. PICK e : /\ item[n][i] \in {"idle", "running"} /\ item' = [item EXCEPT ![n][i] = e]
                   /\ Caused(e)
                   /\ e = "failed" => blamed'
      BY <2>0 DEF Moves
    <2>3. \A m \in Nodes : \A j \in 1..Items :
             item'[m][j] = IF m = n /\ j = i THEN e ELSE item[m][j]
      <3> DEFINE V == {"idle", "running", "ok"} \cup Errors
      <3>1. item \in [Nodes -> [1..Items -> V]]
        BY <1>0 DEF TypeOK
      <3> HIDE DEF V
      <3>2. \A m \in Nodes, j \in 1..Items :
               [item EXCEPT ![n][i] = e][m][j] = IF m = n /\ j = i THEN e ELSE item[m][j]
        <4> TAKE m \in Nodes, j \in 1..Items
        <4>1. CASE m = n /\ j = i
          BY <3>1, <4>1
        <4>2. CASE ~(m = n /\ j = i)
          BY <3>1, <4>2
        <4> QED BY <4>1, <4>2
      <3> QED BY <2>2, <3>2
    <2>4. Wrapped => Wrapped'
      <3> SUFFICES ASSUME Wrapped PROVE Wrapped'
        OBVIOUS
      <3>1. PICK m \in Nodes, j \in 1..Items :
               plan.kind[m] = "foreach" /\ item[m][j] \in Signals \cup {"sibling"}
        BY DEF Wrapped
      <3>2. ~(m = n /\ j = i)
        BY <2>2, <3>1 DEF Signals
      <3>3. item'[m][j] = item[m][j]
        BY <2>3, <3>2
      <3> QED BY <1>1, <3>1, <3>3 DEF Wrapped
    <2>5. \A m \in Nodes : \A j \in 1..Items :
             /\ item'[m][j] \in Signals => item'[m][j] \in signals
             /\ item'[m][j] = "failed" => blamed'
             /\ item'[m][j] = "sibling" => Aborted'
      BY <1>3, <1>7, <2>2, <2>3 DEF CauseShape, Caused
    <2>6. Aborted' => Aborted
      BY <2>1 DEF Aborted
    <2> QED BY <1>1, <1>3, <1>5, <1>6, <2>1, <2>4, <2>5, <2>6 DEF CauseShape
  <1> QED BY <1>3, <1>8, <1>9, <1>10
(* What a turn of the loop leaves alone.                                   *)
LEMMA LoopEffect ==
  ASSUME TypeOK, LoopShape, Loop
  PROVE  /\ UNCHANGED <<plan, signals, item>> /\ (blamed => blamed') /\ outcome = "running"
         /\ \A n \in Nodes : phase'[n] = phase[n] \/ (phase[n] = "idle" /\ phase'[n] = "spawned")
  <1>0. blamed => blamed'
    <2>1. CASE CollectWave
      BY <2>1 DEF CollectWave
    <2>2. CASE Complete
      BY <2>2 DEF Complete
    <2> QED BY <2>1, <2>2 DEF Loop, StopAtHead, LaunchBatch, InputMissing, CollectBatch
  <1>1. UNCHANGED <<plan, signals, item>> /\ (blamed => blamed') /\ outcome = "running"
    <2>1. UNCHANGED <<plan, signals, item>>
      BY DEF Loop, CollectWave, StopAtHead, Complete, LaunchBatch, InputMissing, CollectBatch,
             runVars, threadVars
    <2>2. outcome = "running"
      BY DEF Loop, CollectWave, StopAtHead, Complete, LaunchBatch, InputMissing, CollectBatch,
             AtHead
    <2> QED BY <1>0, <2>1, <2>2
  <1>2. CASE LaunchBatch
    <2>1. \A n \in Batch : phase[n] = "idle"
      BY DEF Batch, FirstOf, LoopShape
    <2> QED BY <1>1, <1>2, <2>1 DEF LaunchBatch
  <1>3. CASE ~LaunchBatch
    <2>1. phase' = phase
      BY <1>3 DEF Loop, CollectWave, StopAtHead, Complete, InputMissing, CollectBatch, threadVars
    <2> QED BY <1>1, <2>1
  <1> QED BY <1>1, <1>2, <1>3

LEMMA CauseLoop == ASSUME Shape, CauseShape, Loop PROVE CauseShape'
  <1>0. TypeOK /\ LoopShape /\ RouteShape /\ ActivationShape
    BY DEF Shape
  <1>1. /\ UNCHANGED <<plan, signals, item>> /\ (blamed => blamed')
        /\ \A n \in Nodes : phase'[n] = phase[n] \/ (phase[n] = "idle" /\ phase'[n] = "spawned")
    BY <1>0, LoopEffect
  <1>2. Wrapped' = Wrapped
    BY <1>1 DEF Wrapped
  <1>3. \A n \in Nodes : phase'[n] \in Errors <=> phase[n] \in Errors
    BY <1>1 DEF Errors, Signals
  <1>4. \A n \in Nodes : phase'[n] \in Errors => phase'[n] = phase[n]
    BY <1>1 DEF Errors, Signals
  <1>5. Aborted' <=> Aborted
    BY <1>3 DEF Aborted
  <1>6. settled' \subseteq plan.nodes /\ \A n \in settled' : phase'[n] \in {"idle", "done"}
    <2>0. plan.nodes \subseteq Nodes
      BY <1>0, PlanTyped DEF PlanType
    <2>1. CASE CollectWave
      <3>1. settled' = settled \cup Closing /\ phase' = phase
        BY <2>1 DEF CollectWave, threadVars
      <3>2. Closing \subseteq plan.nodes \ (settled \cup activated)
        BY <1>0, ClosingClosed
      <3>3. \A n \in Closing : phase[n] = "idle"
        BY <1>0, <2>0, <3>2 DEF LoopShape
      <3> QED BY <3>1, <3>2, <3>3 DEF CauseShape
    <2>2. CASE CollectBatch
      <3> DEFINE ok == {n \in Uncollected : phase[n] = "done"}
      <3>1. settled' = settled \cup ok /\ phase' = phase
        BY <2>2 DEF CollectBatch, threadVars
      <3>2. ok \subseteq SelectedBy(route)
        BY <1>0 DEF Uncollected, LoopShape, ActivationShape
      <3>3. SelectedBy(route) \subseteq plan.nodes
        BY <1>0, <2>0, PlanClosed DEF SelectedBy
      <3> QED BY <3>1, <3>2, <3>3 DEF CauseShape
    <2>3. CASE LaunchBatch
      <3>1. settled' = settled /\ \A n \in Batch : n \in wave
        BY <2>3 DEF LaunchBatch, Batch, FirstOf
      <3>2. \A n \in settled : n \notin Batch
        BY <1>0, <3>1 DEF LoopShape
      <3> QED BY <1>0, <2>3, <3>1, <3>2 DEF LaunchBatch, CauseShape, TypeOK
    <2>4. CASE StopAtHead \/ Complete \/ InputMissing
      BY <2>4 DEF StopAtHead, Complete, InputMissing, loopVars, threadVars, CauseShape
    <2> QED BY <2>1, <2>2, <2>3, <2>4 DEF Loop
  <1>7. \A n \in Nodes : phase'[n] \in Signals => phase'[n] \in signals
    BY <1>4 DEF CauseShape, Errors
  <1>8. \A n \in Nodes : phase'[n] = "failed" => blamed' \/ Wrapped'
    BY <1>1, <1>2, <1>4 DEF CauseShape, Errors
  <1>9. Aborted => \E n \in Nodes : phase'[n] \in Errors \ {"sibling"}
    BY <1>1 DEF CauseShape, Errors, Signals
  <1>10. \A n \in Nodes : \A i \in 1..Items :
            /\ item[n][i] \in Signals => item[n][i] \in signals
            /\ item[n][i] = "failed" => blamed'
            /\ item[n][i] = "sibling" => Aborted'
    BY <1>1, <1>5 DEF CauseShape
  <1> QED BY <1>1, <1>5, <1>6, <1>7, <1>8, <1>9, <1>10 DEF CauseShape

(* At the head of the loop only a signal stops the run.                    *)
LEMMA HeadNotAborted == ASSUME TypeOK, CauseShape, Quiet PROVE ~Aborted
  BY DEF CauseShape, Quiet, Aborted, TypeOK, Errors, Signals

(* The loop reports a cause.                                               *)
LEMMA ReportedLoop == ASSUME Shape, CauseShape, Loop PROVE CauseReported'
  <1>0. TypeOK /\ LoopShape
    BY DEF Shape
  <1>1. UNCHANGED <<plan, signals, item>> /\ (blamed => blamed') /\ outcome = "running"
    BY <1>0, LoopEffect
  <1>2. Wrapped' = Wrapped
    BY <1>1 DEF Wrapped
  <1>3. /\ "failed" \notin Signals /\ "running" \notin Signals /\ "stuck" \notin Signals
        /\ "succeeded" \notin Signals /\ "sibling" \notin Signals
    BY DEF Signals
  <1>4. CASE CollectWave
    <2>1. \/ outcome' = "failed" /\ blamed'
          \/ outcome' = "running"
          \/ /\ outcome' = "stuck" /\ settled \cup Closing # plan.nodes
             /\ Ready(settled \cup Closing) = {}
      BY <1>4 DEF CollectWave
    <2>2. outcome' = "stuck" => \E n \in Nodes : n \in plan.needs[n]
      BY <1>0, <2>1, Progress DEF CauseShape
    <2> QED BY <1>1, <1>3, <2>1, <2>2 DEF CauseReported
  <1>5. CASE StopAtHead
    <2>1. outcome' = ControlError /\ ControlError # "none" /\ ~Aborted
      BY <1>0, <1>5, HeadNotAborted DEF StopAtHead, AtHead
    <2>2. outcome' \in Signals /\ outcome' \in signals
      BY <2>1 DEF ControlError, Signals
    <2> QED BY <1>1, <1>3, <2>2 DEF CauseReported, Signals
  <1>6. CASE Complete \/ InputMissing
    <2>1. outcome' = "succeeded" \/ (outcome' = "failed" /\ blamed')
      BY <1>6 DEF Complete, InputMissing
    <2> QED BY <1>1, <1>3, <2>1 DEF CauseReported
  <1>7. CASE LaunchBatch
    BY <1>1, <1>3, <1>7 DEF LaunchBatch, CauseReported
  <1>8. CASE CollectBatch
    <2> DEFINE ok == {n \in Uncollected : phase[n] = "done"}
               failed == Uncollected \ ok
               real == {n \in failed : phase[n] # "sibling"}
    <2>1. outcome' \in IF failed = {} THEN {outcome} ELSE Reported(failed)
      BY <1>8 DEF CollectBatch
    <2>2. \A n \in Uncollected : n \in Nodes /\ phase[n] \in Errors \cup {"done"}
      BY <1>0, <1>8 DEF CollectBatch, Uncollected, TypeOK
    <2>3. CASE failed = {}
      BY <1>1, <1>3, <2>1, <2>3 DEF CauseReported
    <2>4. CASE failed # {}
      <3>1. Aborted
        BY <2>2, <2>4 DEF Aborted
      <3>2. PICK m \in Nodes : phase[m] \in Errors \ {"sibling"}
        BY <3>1 DEF CauseShape
      <3>3. phase[m] \notin {"idle", "done"}
        BY <3>2 DEF Errors, Signals
      <3>4. m \notin settled
        BY <3>3 DEF CauseShape
      <3>5. m \in real
        BY <3>2, <3>3, <3>4 DEF Uncollected
      <3>6. \E n \in real : outcome' = phase[n]
        BY <2>1, <2>4, <3>5 DEF Reported
      <3>7. PICK n \in real : outcome' = phase[n]
        BY <3>6
      <3>8. n \in Nodes /\ phase[n] \in Errors \ {"sibling"}
        BY <2>2
      <3>9. phase[n] \in Signals => phase[n] \in signals
        BY <3>8 DEF CauseShape
      <3>10. phase[n] = "failed" => blamed' \/ Wrapped
        BY <1>1, <3>8 DEF CauseShape
      <3>11. outcome' # "stuck" /\ outcome' # "sibling"
        BY <3>7, <3>8 DEF Errors, Signals
      <3> QED BY <1>1, <3>7, <3>9, <3>10, <3>11 DEF CauseReported, Wrapped
    <2> QED BY <2>3, <2>4
  <1> QED BY <1>4, <1>5, <1>6, <1>7, <1>8 DEF Loop

LEMMA CauseSignal ==
  ASSUME CauseShape, NEW s \in Signals, Signal(s)
  PROVE  CauseShape' /\ CauseReported'
  <1>1. UNCHANGED <<plan, settled, phase, item, outcome, blamed>>
        /\ signals' = signals \cup {s} /\ outcome = "running"
    BY DEF Signal, loopVars, threadVars
  <1>2. CauseShape'
    BY <1>1 DEF CauseShape, Aborted, Wrapped
  <1> QED BY <1>1, <1>2 DEF CauseReported, Signals

LEMMA CauseRestart == ASSUME CauseShape, Restart PROVE CauseShape' /\ CauseReported'
  <1>1. /\ plan' = plan /\ settled' = {} /\ signals' = signals \ {"shutdown"}
        /\ phase' = [n \in Nodes |-> "idle"] /\ item' = [n \in Nodes |-> NoItems]
        /\ outcome' \in {"cancelled", "interrupted", "running"}
        /\ outcome' = "cancelled" => "cancelled" \in signals
    BY DEF Restart
  <1>2. \A n \in Nodes : phase'[n] = "idle" /\ \A i \in 1..Items : item'[n][i] = "idle"
    BY <1>1 DEF NoItems
  <1>3. CauseShape'
    BY <1>1, <1>2 DEF CauseShape, Aborted, Errors, Signals
  <1> QED BY <1>1, <1>3 DEF CauseReported, Signals

LEMMA CauseInit == ASSUME Init PROVE CauseShape /\ CauseReported
  <1>1. \A n \in Nodes : phase[n] = "idle" /\ \A i \in 1..Items : item[n][i] = "idle"
    BY DEF Init, NoItems
  <1>2. CauseShape
    BY <1>1 DEF Init, CauseShape, Aborted, Errors, Signals
  <1> QED BY <1>2 DEF Init, CauseReported, Signals

LEMMA CauseNext ==
  ASSUME Shape, CauseShape, CauseReported, [Next]_vars
  PROVE  CauseShape' /\ CauseReported'
  <1>1. CASE UNCHANGED vars
    <2>1. UNCHANGED <<plan, signals, settled, phase, item, outcome, blamed>>
      BY <1>1 DEF vars, runVars, loopVars, threadVars
    <2> QED BY <2>1 DEF CauseShape, CauseReported, Aborted, Wrapped
  <1>2. ASSUME NEW n \in Nodes, Thread(n) PROVE CauseShape' /\ CauseReported'
    <2>1. outcome' = "running"
      <3>1. UNCHANGED outcome
        BY <1>2, ThreadEffect DEF Shape
      <3> QED BY <1>2, <3>1 DEF Thread
    <2> QED BY <1>2, <2>1, CauseThread DEF CauseReported, Signals
  <1> QED BY <1>1, <1>2, CauseSignal, CauseLoop, ReportedLoop, CauseRestart DEF Next

(* A run that does not succeed says why, for every graph, policy and       *)
(* interleaving: it never reports an echo, a signal that was not sent or a *)
(* lack of progress that the plan does not have.  The graph is acyclic, so *)
(* of the nodes that are left one is led to by none of the others.         *)
THEOREM CauseIsReported == Spec => []CauseReported
  <1> DEFINE Inv == Shape /\ CauseShape /\ CauseReported
  <1>1. Init => Inv
    BY ShapeInit, CauseInit
  <1>2. Inv /\ [Next]_vars => Inv'
    BY ShapeNext, CauseNext
  <1> QED BY <1>1, <1>2, PTL DEF Spec
=============================================================================
