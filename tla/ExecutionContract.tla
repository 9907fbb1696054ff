-------------------------- MODULE ExecutionContract --------------------------
(***************************************************************************)
(* What the execution subsystem promises, without processes, crashes,      *)
(* threads or checkpoints: a job is accepted once, waits or is active, and *)
(* is done once; it starts only while its workflow has room; and an effect *)
(* of one of its nodes happens only while the job is active, at most as    *)
(* often as the node may be attempted.                                     *)
(***************************************************************************)
EXTENDS Naturals, FiniteSets

CONSTANTS Executions, Nodes, WorkflowOf, Limited, MaxRuns, MaxAttempts

VARIABLES
    job,        \* "new", "waiting", "active", "done" or "gone"
    performed   \* effects of each node of each job

contractVars == <<job, performed>>

Init ==
    /\ job = [e \in Executions |-> "new"]
    /\ performed = [e \in Executions |-> [n \in Nodes |-> 0]]

ActiveJobs(w) == {e \in Executions : WorkflowOf[e] = w /\ job[e] = "active"}

Room(e) == e \in Limited => Cardinality(ActiveJobs(WorkflowOf[e])) < MaxRuns[e]

Accept(e) ==
    /\ job[e] = "new"
    /\ job' = [job EXCEPT ![e] = IF Room(e) THEN "active" ELSE "waiting"]
    /\ UNCHANGED performed

Start(e) ==
    /\ job[e] = "waiting" /\ Room(e)
    /\ job' = [job EXCEPT ![e] = "active"]
    /\ UNCHANGED performed

Perform(e, n) ==
    /\ job[e] = "active"
    /\ performed[e][n] < MaxAttempts[n]
    /\ performed' = [performed EXCEPT ![e][n] = @ + 1]
    /\ UNCHANGED job

Finish(e) ==
    /\ job[e] \in {"waiting", "active"}
    /\ job' = [job EXCEPT ![e] = "done"]
    /\ UNCHANGED performed

(* A restart sends the active jobs in `again' back to wait and gives up the *)
(* other active ones.                                                       *)
Restart(again) ==
    /\ job' = [e \in Executions |->
                  IF job[e] # "active" THEN job[e]
                  ELSE IF e \in again THEN "waiting" ELSE "done"]
    /\ UNCHANGED performed

Purge(old) ==
    /\ \A e \in old : job[e] = "done"
    /\ job' = [e \in Executions |-> IF e \in old THEN "gone" ELSE job[e]]
    /\ UNCHANGED performed

Next ==
    \/ \E e \in Executions :
          \/ Accept(e)
          \/ Start(e)
          \/ Finish(e)
          \/ \E n \in Nodes : Perform(e, n)
    \/ \E S \in SUBSET Executions : Restart(S) \/ Purge(S)

Spec == Init /\ [][Next]_contractVars
=============================================================================
