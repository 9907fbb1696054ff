---------------------------- MODULE MCProcesses ----------------------------
(***************************************************************************)
(* The processes Core is and has.  A behaviour looks at one of two things: *)
(* an encounter of Cores and commands over one data directory (two         *)
(* launches; a launch, a service and a stop command; a launch and a Core   *)
(* in a terminal), or one operation through a child process.               *)
(***************************************************************************)
EXTENDS HostOwnership, ChildProcesses

CONSTANTS d1, d2, v1, f1, l1, l2, s1

VARIABLE part     \* what this behaviour looks at

mcVars == <<part, vars, childVars>>

MCMode == [c \in Cores |-> CASE c = f1 -> "foreground" [] c = v1 -> "service"
                             [] OTHER -> "daemon"]
MCChild == [l \in Launchers |-> IF l = l1 THEN d1 ELSE d2]

Starts(cores, clients) ==
  /\ core = [c \in Cores |-> IF c \in cores THEN "unborn" ELSE "exited"]
  /\ client = [x \in Clients |-> IF x \in clients THEN "idle" ELSE "failed"]

\* An operation that failed before it had a process; nothing of it is left.
OperationOver ==
  /\ op = "command" /\ pc = "returned" /\ stage = "none" /\ id = 0
  /\ inbox = <<>> /\ outbox = <<>> /\ child = "none" /\ helper = FALSE
  /\ read = {} /\ lines = 0 /\ pages = 0 /\ notes = 0
  /\ stopped = FALSE /\ outcome = "failed" /\ source = "none"
  /\ cancelled = FALSE /\ unkilled = FALSE

MCInit ==
  /\ part \in {"ownership", "operation"}
  /\ Init
  /\ \/ /\ part = "ownership" /\ OperationOver
        /\ \/ Starts({d1, d2}, {l1, l2})
           \/ Starts({d1, v1}, {l1, s1}) /\ record = None
           \/ Starts({d1, f1}, {l1})
           \/ Starts({}, {s1})
     \/ /\ part = "operation" /\ ChildInit
        /\ Starts({}, {}) /\ record = None

MCNext ==
  /\ UNCHANGED part
  /\ \/ part = "ownership" /\ Next /\ UNCHANGED childVars
     \/ part = "operation" /\ ChildNext /\ UNCHANGED vars

\* Without a Core or a command the first conditions of fairness ask for
\* nothing, and neither do the others once the operation is over.
MCSpec ==
  /\ MCInit /\ [][MCNext]_mcVars /\ Fairness
  /\ WF_childVars(Client) /\ WF_childVars(ThreadEnds) /\ WF_childVars(CancelOperation)
=============================================================================
