--------------------------- MODULE MCCoreExecution ---------------------------
(* Constants of the small instances of CoreExecution.                      *)
EXTENDS CoreExecution

CONSTANTS e1, e2, w1, n1, n2, d1, k1, h1

OneWorkflow == [e \in Executions |-> w1]

(* One run of the workflow at a time and room for one in the queue.        *)
OneAtATime == [e \in Executions |-> 1]

TwoQueued == [e \in Executions |-> 2]
NoRetry == [n \in Nodes |-> 1]
RetryOnce == [n \in Nodes |-> IF n = n1 THEN 2 ELSE 1]
=============================================================================
