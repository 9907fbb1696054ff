------------------------------ MODULE GraphRun ------------------------------
(***************************************************************************)
(* One worker running the graph of a plan: execute_graph and its helpers   *)
(* in src/src/runtime.rs, for the plans that the validation in             *)
(* src/src/workflow.rs and src/src/planner.rs accepts.                     *)
(*                                                                         *)
(* A turn of the loop closes the paths no route selected, takes all nodes  *)
(* whose predecessors and producers are settled as a wave, and runs the    *)
(* wave in batches of threads.  A node is a leaf or a container that runs  *)
(* its body once per item.  A body is a graph of one leaf without retry.   *)
(* Nodes are numbered in the order of the plan.                            *)
(*                                                                         *)
(* A restart of Core is one step here: the rows between the two processes  *)
(* are the subject of CoreExecution.                                       *)
(***************************************************************************)
EXTENDS Naturals, FiniteSets

CONSTANTS
    Nodes,        \* numbers of nodes
    Plans,        \* the plans a run may have
    MaxParallel,  \* policy.maxParallelNodes
    Attempts,     \* retry.maxAttempts of the nodes
    Items,        \* items of a foreach, maxIterations of a loop
    Width,        \* with.maxConcurrency of a foreach
    MaxSignals,   \* bound on the signals of a run
    MaxRestarts   \* bound on the restarts of Core

(* "other" stands for every route but success: false, maxIterations, the   *)
(* name of a branch.                                                       *)
Routes == {"success", "other"}

(* "variable" is set-variable, all of the same variable; "tolerant" is a   *)
(* foreach with onError: continue.                                         *)
Kinds == {"leaf", "variable", "delay", "switch", "loop", "foreach", "tolerant"}
ForEach == {"foreach", "tolerant"}
Containers == ForEach \cup {"switch", "loop"}

(* needs[n] are the nodes whose outputs the inputs of n are bound to.      *)
PlanType ==
    [nodes : SUBSET Nodes,
     entry : Nodes,
     on : [Nodes -> [Routes -> SUBSET Nodes]],
     needs : [Nodes -> SUBSET Nodes],
     kind : [Nodes -> Kinds],
     sensitive : BOOLEAN]

Predecessors(p, n) == {m \in Nodes : \E r \in Routes : n \in p.on[m][r]}

(* The nodes from which control may reach n, n among them.                 *)
Reaching(p, n) ==
    {m \in Nodes : \A S \in SUBSET Nodes :
        n \in S /\ (\A k \in S : Predecessors(p, k) \subseteq S) => m \in S}

(* ensure_acyclic, the search for unreachable nodes, control_reaches.      *)
(* Arcs join nodes of the plan.                                            *)
Acyclic(p) == \A n \in Nodes : \A m \in Predecessors(p, n) : n \notin Reaching(p, m)
Accepted(p) ==
    /\ Acyclic(p)
    /\ p.nodes = {n \in Nodes : p.entry \in Reaching(p, n)}
    /\ \A n \in Nodes : Predecessors(p, n) \subseteq p.nodes
    /\ \A n \in Nodes : p.needs[n] \subseteq p.nodes \cap Reaching(p, n)

ASSUME PlansAccepted == Plans \subseteq PlanType /\ \A p \in Plans : Accepted(p)

ASSUME NodesNumbered == Nodes \subseteq Nat /\ IsFiniteSet(Nodes)

ASSUME GraphBounds ==
    /\ MaxParallel \in Nat \ {0} /\ Attempts \in Nat \ {0}
    /\ Items \in Nat \ {0} /\ Width \in Nat \ {0}
    /\ MaxSignals \in Nat /\ MaxRestarts \in Nat

VARIABLES
    plan,
    activated, settled,   \* the two sets of execute_graph
    wave,                 \* ready nodes that have not been in a batch
    phase,                \* what the thread of a node does, how it ended
    route,                \* route a node returned to this process
    tries,                \* attempts begun by this process
    item,                 \* the items of a container in this attempt
    joined,               \* items whose outcome the container has taken
    saved, savedItem,     \* node_checkpoints of the nodes and of the bodies
    signals,              \* what RunControl::check looks at
    outcome,              \* "running", or how execute_nodes returned
    blamed,               \* history: a failure that no signal caused, in this process
    restarts              \* history: restarts so far

loopVars == <<activated, settled, wave>>
threadVars == <<phase, route, tries, item, joined>>
savedVars == <<saved, savedItem>>
runVars == <<plan, signals, restarts>>
vars == <<runVars, loopVars, threadVars, savedVars, outcome, blamed>>

Signals == {"shutdown", "cancelled", "timed_out"}
Errors == Signals \cup {"sibling", "failed"}
Live == {"spawned", "running", "backoff"}
InDoubtMarks == {"running", "unrecoverable"}

TypeOK ==
    /\ plan \in Plans
    /\ activated \subseteq Nodes /\ settled \subseteq Nodes /\ wave \subseteq Nodes
    /\ phase \in [Nodes -> {"idle", "done"} \cup Live \cup Errors]
    /\ route \in [Nodes -> Routes \cup {"none"}]
    /\ tries \in [Nodes -> 0..Attempts]
    /\ item \in [Nodes -> [1..Items -> {"idle", "running", "ok"} \cup Errors]]
    /\ joined \in [Nodes -> 0..Items]
    /\ saved \in [Nodes -> Routes \cup InDoubtMarks \cup {"none", "waiting", "container"}]
    /\ savedItem \in [Nodes -> [1..Items -> InDoubtMarks \cup {"none", "ok"}]]
    /\ signals \subseteq Signals
    /\ outcome \in {"running", "succeeded", "stuck", "interrupted"} \cup Errors
    /\ blamed \in BOOLEAN
    /\ restarts \in 0..MaxRestarts

NoItems == [i \in 1..Items |-> "idle"]

(* A worker begins with nothing but the plan and the checkpoints.          *)
Init ==
    /\ plan \in Plans
    /\ activated = {plan.entry} /\ settled = {} /\ wave = {}
    /\ phase = [n \in Nodes |-> "idle"]
    /\ route = [n \in Nodes |-> "none"]
    /\ tries = [n \in Nodes |-> 0]
    /\ item = [n \in Nodes |-> NoItems]
    /\ joined = [n \in Nodes |-> 0]
    /\ saved = [n \in Nodes |-> "none"]
    /\ savedItem = [n \in Nodes |-> [i \in 1..Items |-> "none"]]
    /\ signals = {}
    /\ outcome = "running"
    /\ blamed = FALSE
    /\ restarts = 0

-----------------------------------------------------------------------------
(* RunControl::check.  A thread that ends with an error sets the abort     *)
(* flag of its graph; the graphs of the bodies see it as an ancestor's.    *)
Aborted == \E n \in Nodes : phase[n] \in Errors

ControlError ==
    IF "shutdown" \in signals THEN "shutdown"
    ELSE IF Aborted THEN "sibling"
    ELSE IF "cancelled" \in signals THEN "cancelled"
    ELSE IF "timed_out" \in signals THEN "timed_out" ELSE "none"

(* A stop of Core, a request to cancel, the deadline of the execution.     *)
Signal(s) ==
    /\ outcome = "running" /\ s \notin signals
    /\ Cardinality(signals) < MaxSignals
    /\ signals' = signals \cup {s}
    /\ UNCHANGED <<plan, restarts, loopVars, threadVars, savedVars, outcome, blamed>>

-----------------------------------------------------------------------------
(* The loop of execute_graph.                                              *)

(* No thread of a batch is left to collect.                                *)
Quiet == \A n \in Nodes : phase[n] = "idle" \/ n \in settled
AtHead == outcome = "running" /\ Quiet /\ wave = {}

(* Mutant of Closing: one settled predecessor closes a path.               *)
MutClosingEarly ==
    {n \in plan.nodes \ (settled \cup activated) : Predecessors(plan, n) \cap settled # {}}

(* The paths that close: not activated, predecessors settled or closing.   *)
(* The code iterates until nothing changes.                                *)
Closing ==
    UNION {C \in SUBSET (plan.nodes \ (settled \cup activated)) :
              \A n \in C : Predecessors(plan, n) \subseteq settled \cup C}

(* Mutant of Ready: a node waits for its producers only, not at a join.    *)
MutReadyBeforeJoin(passed) == {n \in activated \ passed : plan.needs[n] \subseteq passed}

Ready(passed) ==
    {n \in activated \ passed : Predecessors(plan, n) \cup plan.needs[n] \subseteq passed}

Writers(S) == {n \in S : plan.kind[n] = "variable"}

(* One turn up to the wave: check, close, collect, refuse two writers.     *)
CollectWave ==
    /\ AtHead /\ settled # plan.nodes /\ ControlError = "none"
    /\ LET passed == settled \cup Closing
           ready == Ready(passed)
           conflict == Cardinality(Writers(ready)) > 1
       IN  /\ settled' = passed
           /\ wave' = IF conflict THEN {} ELSE ready
           /\ outcome' = IF conflict THEN "failed"
                         ELSE IF ready # {} \/ passed = plan.nodes THEN "running" ELSE "stuck"
           /\ blamed' = (blamed \/ conflict)
    /\ UNCHANGED <<runVars, activated, threadVars, savedVars>>

(* The check at the head of the loop fails.                                *)
StopAtHead ==
    /\ AtHead /\ settled # plan.nodes /\ ControlError # "none"
    /\ outcome' = ControlError
    /\ UNCHANGED <<runVars, loopVars, threadVars, savedVars, blamed>>

(* All nodes are settled.  The outputs of the plan are resolved without    *)
(* another check; a missing or oversized one fails the execution.          *)
Complete ==
    /\ AtHead /\ settled = plan.nodes
    /\ \/ outcome' = "succeeded" /\ blamed' = blamed
       \/ outcome' = "failed" /\ blamed' = TRUE
    /\ UNCHANGED <<runVars, loopVars, threadVars, savedVars>>

FirstOf(S, k) == {n \in S : Cardinality({m \in S : m < n}) < k}
Batch == FirstOf(wave, MaxParallel)
Resolvable(n) == \A m \in plan.needs[n] : route[m] # "none"

(* The inputs of a batch are resolved, then its threads are spawned.       *)
LaunchBatch ==
    /\ outcome = "running" /\ Quiet /\ wave # {}
    /\ \A n \in Batch : Resolvable(n)
    /\ phase' = [n \in Nodes |-> IF n \in Batch THEN "spawned" ELSE phase[n]]
    /\ wave' = wave \ Batch
    /\ UNCHANGED <<runVars, activated, settled, route, tries, item, joined, savedVars,
                   outcome, blamed>>

(* A binding fails: its producer was closed or returned no such output,    *)
(* or an expression has no value.                                          *)
InputMissing ==
    /\ outcome = "running" /\ Quiet /\ wave # {}
    /\ outcome' = "failed" /\ blamed' = TRUE
    /\ UNCHANGED <<runVars, loopVars, threadVars, savedVars>>

Uncollected == {n \in Nodes \ settled : phase[n] # "idle"}

(* Mutant of Reported: the first error in the order of the plan.           *)
MutReportFirst(failed) == {phase[n] : n \in {k \in failed : \A m \in failed : k <= m}}

(* The error of a batch: the last in the order of the plan that is not     *)
(* the echo of another node's failure.                                     *)
Reported(failed) ==
    LET real == {n \in failed : phase[n] # "sibling"}
    IN  IF real = {} THEN {"sibling"}
        ELSE {phase[n] : n \in {k \in real : \A m \in real : m <= k}}

(* Mutant of CollectBatch: waits for all threads to succeed.               *)
MutCollectSuccesses ==
    /\ outcome = "running" /\ Uncollected # {}
    /\ \A n \in Uncollected : phase[n] = "done"
    /\ settled' = settled \cup Uncollected
    /\ activated' = activated \cup UNION {plan.on[n][route[n]] : n \in Uncollected}
    /\ UNCHANGED <<runVars, wave, threadVars, savedVars, outcome, blamed>>

(* All threads of the batch have been joined.                              *)
CollectBatch ==
    /\ outcome = "running" /\ Uncollected # {}
    /\ \A n \in Uncollected : phase[n] \notin Live
    /\ LET ok == {n \in Uncollected : phase[n] = "done"}
           failed == Uncollected \ ok
       IN  /\ settled' = settled \cup ok
           /\ activated' = activated \cup UNION {plan.on[n][route[n]] : n \in ok}
           /\ outcome' \in IF failed = {} THEN {outcome} ELSE Reported(failed)
    /\ UNCHANGED <<runVars, wave, threadVars, savedVars, blamed>>

-----------------------------------------------------------------------------
(* The thread of a node: execute_node_with_retry.                          *)

Mark(n) ==
    CASE plan.kind[n] = "delay" -> "waiting"
      [] plan.kind[n] \in Containers -> "container"
      [] OTHER -> "running"

(* A completed checkpoint is reused.                                       *)
Reuse(n) ==
    /\ phase[n] = "spawned" /\ saved[n] \in Routes
    /\ phase' = [phase EXCEPT ![n] = "done"]
    /\ route' = [route EXCEPT ![n] = saved[n]]
    /\ UNCHANGED <<runVars, loopVars, tries, item, joined, savedVars, outcome, blamed>>

Begin(n) ==
    /\ phase[n] = "spawned" /\ saved[n] \notin Routes
    /\ saved' = [saved EXCEPT ![n] = Mark(n)]
    /\ phase' = [phase EXCEPT ![n] = "running"]
    /\ tries' = [tries EXCEPT ![n] = 1]
    /\ UNCHANGED <<runVars, loopVars, route, item, joined, savedItem, outcome, blamed>>

(* The action returned.  A result over the size limit fails the node       *)
(* whatever its retry policy says, and leaves its checkpoint open.         *)
Succeed(n, r) ==
    \/ /\ phase' = [phase EXCEPT ![n] = "done"]
       /\ route' = [route EXCEPT ![n] = r]
       /\ saved' = [saved EXCEPT ![n] = IF plan.sensitive THEN "unrecoverable" ELSE r]
       /\ blamed' = blamed
    \/ /\ phase' = [phase EXCEPT ![n] = "failed"]
       /\ blamed' = TRUE
       /\ UNCHANGED <<route, saved>>

Retryable(n, e) == tries[n] < Attempts /\ e \notin {"cancelled", "timed_out", "sibling"}

(* The action returned the error e.                                        *)
EndAttempt(n, e) ==
    /\ phase' = [phase EXCEPT ![n] = IF Retryable(n, e) THEN "backoff" ELSE e]
    /\ UNCHANGED <<route, saved>>

(* Only some leaves look at the signals; all may fail for their own reason.*)
EndLeaf(n) ==
    /\ phase[n] = "running" /\ plan.kind[n] \notin Containers
    /\ \/ \E r \in IF plan.kind[n] = "leaf" THEN Routes ELSE {"success"} : Succeed(n, r)
       \/ EndAttempt(n, "failed") /\ blamed' = TRUE
       \/ ControlError # "none" /\ EndAttempt(n, ControlError) /\ blamed' = blamed
    /\ UNCHANGED <<runVars, loopVars, tries, item, joined, savedItem, outcome>>

(* wait_with_control between two attempts.                                 *)
Backoff(n) ==
    /\ phase[n] = "backoff"
    /\ IF ControlError = "none"
       THEN /\ phase' = [phase EXCEPT ![n] = "running"]
            /\ tries' = [tries EXCEPT ![n] = @ + 1]
            /\ item' = [item EXCEPT ![n] = NoItems]
            /\ joined' = [joined EXCEPT ![n] = 0]
       ELSE /\ phase' = [phase EXCEPT ![n] = ControlError]
            /\ UNCHANGED <<tries, item, joined>>
    /\ UNCHANGED <<runVars, loopVars, route, savedVars, outcome, blamed>>

-----------------------------------------------------------------------------
(* Containers: execute_switch, execute_foreach, execute_loop.              *)

Last(n) == IF plan.kind[n] = "switch" THEN 1 ELSE Items
ChunkEnd(n) ==
    LET end == joined[n] + (IF plan.kind[n] \in ForEach THEN Width ELSE 1)
    IN  IF end < Last(n) THEN end ELSE Last(n)
Chunk(n) == (joined[n] + 1)..ChunkEnd(n)

InContainer(n) == phase[n] = "running" /\ plan.kind[n] \in Containers

(* A container ends before its first item: an input is not of the kind it  *)
(* needs, a switch has no branch for it, a foreach has no items.           *)
EndEmpty(n) ==
    /\ InContainer(n) /\ item[n] = NoItems
    /\ \/ EndAttempt(n, "failed") /\ blamed' = TRUE
       \/ plan.kind[n] \in ForEach /\ Succeed(n, "success")
    /\ UNCHANGED <<runVars, loopVars, tries, item, joined, savedItem, outcome>>

(* Mutant of StartItem: the checkpoint of a completed item is not looked up. *)
MutStartItemAnew(n, i) ==
    /\ InContainer(n) /\ i \in Chunk(n) /\ item[n][i] = "idle"
    /\ ControlError = "none"
    /\ item' = [item EXCEPT ![n][i] = "running"]
    /\ savedItem' = [savedItem EXCEPT ![n][i] = "running"]
    /\ UNCHANGED <<runVars, loopVars, phase, route, tries, joined, saved, outcome, blamed>>

(* The graph of a body: its check, then the checkpoint of its leaf.        *)
StartItem(n, i) ==
    /\ InContainer(n) /\ i \in Chunk(n) /\ item[n][i] = "idle"
    /\ LET reused == savedItem[n][i] = "ok"
           step == IF ControlError # "none" THEN ControlError
                   ELSE IF reused THEN "ok" ELSE "running"
       IN  /\ item' = [item EXCEPT ![n][i] = step]
           /\ savedItem' = IF step = "running" THEN [savedItem EXCEPT ![n][i] = "running"]
                           ELSE savedItem
    /\ UNCHANGED <<runVars, loopVars, phase, route, tries, joined, saved, outcome, blamed>>

(* The leaf of a body ended; its outputs may still fail to resolve.        *)
EndItem(n, i) ==
    /\ InContainer(n) /\ item[n][i] = "running"
    /\ \/ /\ \E e \in {"ok", "failed"} :
                /\ item' = [item EXCEPT ![n][i] = e]
                /\ blamed' = (blamed \/ e = "failed")
          /\ savedItem' = [savedItem EXCEPT ![n][i] =
                               IF plan.sensitive THEN "unrecoverable" ELSE "ok"]
       \/ /\ item' = [item EXCEPT ![n][i] = "failed"]
          /\ blamed' = TRUE
          /\ savedItem' = savedItem
       \/ /\ ControlError # "none"
          /\ item' = [item EXCEPT ![n][i] = ControlError]
          /\ UNCHANGED <<savedItem, blamed>>
    /\ UNCHANGED <<runVars, loopVars, phase, route, tries, joined, saved, outcome>>

ItemError(n) == {i \in Chunk(n) : item[n][i] \in Errors}

ChunkJoined(n) ==
    /\ InContainer(n)
    /\ Chunk(n) # {}
    /\ \A i \in Chunk(n) : item[n][i] \notin {"idle", "running"}

(* A foreach wraps the error of an item in a text of its own; the others,  *)
(* with one item at a time, return it as it is.                            *)
ContainerError(n) ==
    IF plan.kind[n] = "foreach" THEN "failed" ELSE item[n][ChunkEnd(n)]

ChunkFails(n) ==
    /\ ChunkJoined(n) /\ ItemError(n) # {} /\ plan.kind[n] # "tolerant"
    /\ EndAttempt(n, ContainerError(n))
    /\ UNCHANGED <<runVars, loopVars, tries, item, joined, savedItem, outcome, blamed>>

(* Go on with the next items, or return: a loop may end at any iteration.  *)
ChunkPasses(n) ==
    /\ ChunkJoined(n) /\ (ItemError(n) = {} \/ plan.kind[n] = "tolerant")
    /\ LET taken == ChunkEnd(n)
           kind == plan.kind[n]
       IN  /\ joined' = [joined EXCEPT ![n] = taken]
           /\ \/ taken < Last(n) /\ UNCHANGED <<phase, route, saved, blamed>>
              \/ kind = "loop" /\ Succeed(n, "success")
              \/ /\ taken = Last(n)
                 /\ \E r \in Routes : /\ kind = "loop" => r = "other"
                                      /\ kind \in ForEach => r = "success"
                                      /\ Succeed(n, r)
    /\ UNCHANGED <<runVars, loopVars, tries, item, savedItem, outcome>>

-----------------------------------------------------------------------------
(* Core starts again after a crash or a stop: an execution that was being  *)
(* cancelled ends, one with a checkpoint in doubt is interrupted, any      *)
(* other is run again.                                                     *)
InDoubt ==
    \E n \in Nodes : \/ saved[n] \in InDoubtMarks
                     \/ \E i \in 1..Items : savedItem[n][i] \in InDoubtMarks

Restart ==
    /\ outcome \in {"running", "shutdown"} /\ restarts < MaxRestarts
    /\ restarts' = restarts + 1
    /\ outcome' = IF "cancelled" \in signals THEN "cancelled"
                  ELSE IF InDoubt THEN "interrupted" ELSE "running"
    /\ signals' = signals \ {"shutdown"}
    /\ blamed' = FALSE
    /\ UNCHANGED <<plan, savedVars>>
    /\ activated' = {plan.entry} /\ settled' = {} /\ wave' = {}
    /\ phase' = [n \in Nodes |-> "idle"]
    /\ route' = [n \in Nodes |-> "none"]
    /\ tries' = [n \in Nodes |-> 0]
    /\ item' = [n \in Nodes |-> NoItems]
    /\ joined' = [n \in Nodes |-> 0]

Thread(n) ==
    /\ outcome = "running"
    /\ \/ Reuse(n) \/ Begin(n) \/ EndLeaf(n) \/ Backoff(n)
       \/ \E i \in 1..Items : StartItem(n, i) \/ EndItem(n, i)
       \/ EndEmpty(n) \/ ChunkFails(n) \/ ChunkPasses(n)

Loop ==
    \/ CollectWave \/ StopAtHead \/ Complete
    \/ LaunchBatch \/ InputMissing \/ CollectBatch

Next ==
    \/ \E s \in Signals : Signal(s)
    \/ Loop
    \/ \E n \in Nodes : Thread(n)
    \/ Restart

Spec == Init /\ [][Next]_vars

(* Threads are scheduled, and a leaf returns: the actions are bounded by   *)
(* the deadline of the execution.                                          *)
FairSpec == Spec /\ WF_vars(Loop) /\ \A n \in Nodes : WF_vars(Thread(n))
-----------------------------------------------------------------------------
(* What the routes taken select: the entry, and the targets of the route   *)
(* each selected node took.                                                *)
SelectedBy(taken) ==
    {n \in Nodes : \A S \in SUBSET Nodes :
        /\ plan.entry \in S
        /\ \A m \in S : taken[m] \in Routes => plan.on[m][taken[m]] \subseteq S
        => n \in S}

Ran == {n \in Nodes : route[n] # "none"}

(* A run that succeeds has run exactly the nodes its routes select, and a  *)
(* node completed by an earlier process is one of them, with the route it  *)
(* took then: no join starved, no closed path ran, no completed work is    *)
(* left outside the run that resumed it (execute_graph).                   *)
RanMatchesRoutes ==
    outcome = "succeeded" =>
        /\ Ran = SelectedBy(route)
        /\ \A n \in Nodes : saved[n] \in Routes => route[n] = saved[n]

(* A node that has been started will not be followed by one that could     *)
(* still reach it: all nodes from which control leads to it are settled    *)
(* before, however far away (the joins of execute_graph).                  *)
JoinWaits ==
    \A n \in Nodes : phase[n] # "idle" => Reaching(plan, n) \ {n} \subseteq settled

(* The error of the execution names a cause: never the echo "sibling node  *)
(* failed", a signal only if it was sent, and a failure only if something  *)
(* failed by itself or a foreach was stopped by a signal (the choice of    *)
(* the failure in execute_graph).  The graph never stops for lack of       *)
(* progress ("graph cannot make progress") unless a node is bound to its   *)
(* own output, which the planner lets through.                             *)
CauseReported ==
    /\ outcome = "stuck" => \E n \in Nodes : n \in plan.needs[n]
    /\ outcome # "sibling"
    /\ outcome \in Signals => outcome \in signals
    /\ outcome = "failed" =>
          \/ blamed
          \/ \E n \in Nodes : /\ plan.kind[n] = "foreach"
                             /\ \E i \in 1..Items : item[n][i] \in Signals \cup {"sibling"}

(* What a step must leave alone: the route of a completed node, and a      *)
(* completed item, which is not run again.                                 *)
KeepsCompleted ==
    \A n \in Nodes :
        /\ saved[n] \in Routes => saved'[n] = saved[n]
        /\ \A i \in 1..Items : savedItem[n][i] = "ok" =>
               savedItem'[n][i] = "ok" /\ item'[n][i] # "running"

(* What a process completed is not done again, neither by a retry of the   *)
(* container around it nor by the next process (checkpoint_result).        *)
CompletedKept ==
    [][KeepsCompleted]_vars

(* A run ends: joins, batches, retries and containers do not wait for each *)
(* other (the loop of execute_graph and the scopes of its threads).        *)
Ends == outcome = "running" ~> outcome # "running"

(* Work that a stop of Core cut short is neither a success nor a failure:  *)
(* "shutdown must leave incomplete work recoverable, not successful", and  *)
(* "must not fabricate a terminal result" (tests/lifecycle_shutdown.rs).   *)
(* The items of a foreach are looked at: execute_foreach takes their       *)
(* errors.                                                                 *)
ShutdownRecoverable ==
    outcome \in {"succeeded", "failed"} =>
        blamed \/ \A n \in Nodes : \A i \in 1..Items : item[n][i] # "shutdown"
=============================================================================
