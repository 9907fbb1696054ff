--------------------------- MODULE ChildProcesses ---------------------------
(***************************************************************************)
(* One operation that Core carries out through a process of its own: a     *)
(* node of a plugin, a tool of an MCP server over stdio, a command; or     *)
(* through a thread: an HTTP request.  Operations share nothing, so a      *)
(* behaviour holds one of them.                                            *)
(*                                                                         *)
(* The process may do anything on its side of the pipes: leave its input   *)
(* unread, answer late, twice or with another id, write lines that are no  *)
(* messages, ask Core for services, exit, or not react at all.  It answers *)
(* requests it has read.  Messages are kinds with an id; a pipe holds      *)
(* Capacity units, a small message is one unit, a large one more than a    *)
(* pipe.  Stderr is drained by a task of its own and left out, as is what  *)
(* descendants of plugins and servers do.                                  *)
(***************************************************************************)
EXTENDS Integers, Sequences

CONSTANTS
  Operations,    \* those a run looks at
  Capacity,      \* of a pipe
  MaxPages,      \* max_tool_pages
  MaxNotes,      \* DEFAULT_MAX_NOTIFICATIONS
  MaxLines       \* bound: lines the process writes

ServerOps == {"node", "agent", "direct", "discover", "checked"}
AllOps == ServerOps \cup {"plugin", "command", "http"}

ASSUME OperationAssumption ==
  /\ Operations \subseteq AllOps /\ Operations # {}
  /\ {Capacity, MaxPages} \subseteq Nat \ {0} /\ {MaxNotes, MaxLines} \subseteq Nat

VARIABLES
  op,        \* the operation
  pc,        \* where Core is in it
  stage,     \* the request it is at
  id,        \* next_request_id - 1
  inbox,     \* messages in the process's stdin
  outbox,    \* lines in its stdout
  child,     \* "none", "alive", "exited", "killed"
  helper,    \* a descendant of the command holds its pipes
  read,      \* requests the process has read: id and stage
  lines,     \* lines it has written so far
  pages, notes,
  stopped,   \* terminated, or seen to have exited
  outcome,   \* what the operation returns
  source,    \* the request that the returned result answers
  cancelled, \* cancel_requested of the execution
  unkilled   \* the operation gave up after the spawn without a kill

childVars == <<op, pc, stage, id, inbox, outbox, child, helper, read, lines, pages,
               notes, stopped, outcome, source, cancelled, unkilled>>

\* The parts that steps leave alone together.
clientVars == <<op, pc, stage, id, pages, notes, stopped, outcome, source, unkilled>>
processVars == <<inbox, outbox, child, helper, read, lines>>

\* What the operations are made of: the requests, whether the execution can
\* be cancelled meanwhile, whether a deadline spans all of it, and whether
\* the client is cancelled or dropped after an error response.
ExecutePluginNode == [calls |-> <<"execute", "shutdown">>, cancellable |-> TRUE,
                      deadline |-> FALSE, drops |-> FALSE]
ExecuteMcp == [calls |-> <<"call">>, cancellable |-> TRUE, deadline |-> FALSE,
               drops |-> FALSE]
ExecuteAgentMcpTool == ExecuteMcp
CallMcp == [calls |-> <<"call">>, cancellable |-> FALSE, deadline |-> FALSE,
            drops |-> TRUE]
ListMcpTools == [calls |-> <<"list">>, cancellable |-> FALSE, deadline |-> TRUE,
                 drops |-> FALSE]
CallValidatedTool == [calls |-> <<"list", "call">>, cancellable |-> FALSE,
                      deadline |-> TRUE, drops |-> FALSE]
Unspoken == [calls |-> <<>>, cancellable |-> TRUE, deadline |-> FALSE, drops |-> FALSE]

This == CASE op = "plugin"   -> ExecutePluginNode
          [] op = "node"     -> ExecuteMcp
          [] op = "agent"    -> ExecuteAgentMcpTool
          [] op = "direct"   -> CallMcp
          [] op = "discover" -> ListMcpTools
          [] op = "checked"  -> CallValidatedTool
          [] OTHER           -> Unspoken

Plugin == op = "plugin"
Server == op \in ServerOps
Managed == This.deadline

\* write_all returns when what the process has not read fits the pipe.
Fits == Len(inbox) <= Capacity /\ \A k \in 1 .. Len(inbox) : ~inbox[k].large

ChildInit ==
  /\ op \in Operations /\ pc = "begin" /\ stage = "none" /\ id = 0
  /\ inbox = <<>> /\ outbox = <<>> /\ child = "none" /\ helper = FALSE
  /\ read = {} /\ lines = 0 /\ pages = 0 /\ notes = 0
  /\ stopped = FALSE /\ outcome = "none" /\ source = "none"
  /\ cancelled = FALSE /\ unkilled = FALSE

-----------------------------------------------------------------------------
(* The other side.                                                         *)

\* Cancellation is asked for executions, not for requests of clients.
RequestCancel ==
  /\ This.cancellable /\ ~cancelled
  /\ cancelled' = TRUE
  /\ UNCHANGED <<clientVars, processVars>>

ChildReads ==
  /\ child = "alive" /\ inbox # <<>>
  /\ inbox' = Tail(inbox)
  /\ read' = IF Head(inbox).id = 0 THEN read
             ELSE read \cup {[id |-> Head(inbox).id, stage |-> Head(inbox).stage]}
  /\ UNCHANGED <<clientVars, outbox, child, helper, lines, cancelled>>

\* A response to a request it has read, now or before, or another line.
Lines ==
  [kind : {"result", "error", "malformed"}, id : {r.id : r \in read}] \cup
  [kind : {"note", "junk"} \cup (IF Plugin THEN {"ask"} ELSE {}), id : {0}]
ChildWrites ==
  /\ child = "alive" /\ op \notin {"command", "http"} /\ lines < MaxLines
  /\ \E l \in Lines : outbox' = Append(outbox, l)
  /\ lines' = lines + 1
  /\ UNCHANGED <<clientVars, inbox, child, helper, read, cancelled>>

ChildForks ==
  /\ child = "alive" /\ op = "command" /\ ~helper /\ helper' = TRUE
  /\ UNCHANGED <<clientVars, inbox, outbox, child, read, lines, cancelled>>

ChildExits ==
  /\ child = "alive" /\ child' = "exited"
  /\ UNCHANGED <<clientVars, inbox, outbox, helper, read, lines, cancelled>>

-----------------------------------------------------------------------------
(* Starting.                                                               *)

Return(result) == pc' = "returned" /\ outcome' = result

\* What is checked and resolved before the process is there.
Prepare ==
  /\ pc = "begin"
  /\ \/ pc' = "spawn" /\ UNCHANGED outcome
     \/ Return("failed")
  /\ UNCHANGED <<op, stage, id, pages, notes, stopped, source, unkilled, processVars,
                 cancelled>>

FirstStage == IF Server THEN "initialize" ELSE IF Plugin THEN This.calls[1] ELSE "none"
SpawnChild ==
  /\ pc = "spawn"
  /\ \/ /\ child' = "alive" /\ stage' = FirstStage
        /\ pc' = IF Plugin \/ Server THEN "send" ELSE "poll"
        /\ UNCHANGED outcome
     \/ Return("failed") /\ UNCHANGED <<child, stage>>
  /\ UNCHANGED <<op, id, inbox, outbox, helper, read, lines, pages, notes, stopped,
                 source, cancelled, unkilled>>

-----------------------------------------------------------------------------
(* Requests.                                                               *)

\* A fatal error terminates the process; the operation fails.
Fail == pc' = "terminate" /\ outcome' = "failed"

\* The shutdown of a plugin host and its cancellation go on to terminate it
\* whatever comes of the message.
Quits == stage \in {"shutdown", "cancel"}
GiveUp == pc' = "terminate" /\ outcome' = IF Quits THEN outcome ELSE "failed"
Notice == stage \in {"initialized", "cancel"}

\* ensure_running, then the message goes to stdin.  A request of a plugin
\* or a tool call may be large.
Send ==
  /\ pc = "send"
  /\ IF child = "alive"
     THEN /\ \E large \in (IF stage \in {"execute", "call"} THEN BOOLEAN ELSE {FALSE}) :
               inbox' = Append(inbox, [id |-> IF Notice THEN 0 ELSE id + 1,
                                       stage |-> stage, large |-> large])
          /\ id' = IF Notice THEN id ELSE id + 1
          /\ pc' = "write" /\ UNCHANGED <<stopped, outcome>>
     ELSE /\ stopped' = TRUE /\ GiveUp /\ UNCHANGED <<id, inbox>>
  /\ UNCHANGED <<op, stage, outbox, child, helper, read, lines, pages, notes, source,
                 cancelled, unkilled>>

\* A write fails when the process is gone.
NextPc == IF stage = "initialized" THEN "send" ELSE IF stage = "cancel" THEN "terminate"
          ELSE "read"
NextStage == IF stage # "initialized" THEN stage ELSE This.calls[1]
Written ==
  /\ pc = "write"
  /\ IF child # "alive"
     THEN GiveUp /\ UNCHANGED stage
     ELSE Fits /\ pc' = NextPc /\ stage' = NextStage /\ UNCHANGED outcome
  /\ UNCHANGED <<op, id, pages, notes, stopped, source, unkilled, processVars, cancelled>>

\* Mutant of Matches: the id of a response is not compared.
MutMatches(l) == l.kind \in {"result", "error"}

\* parse_incoming: a response carries the id of the request that waits.
Matches(l) == l.kind \in {"result", "error"} /\ l.id = id

\* initialize: a server that rejects the version is asked once more with
\* the older one; one that does not fit is terminated.
SettleInitialize(l) ==
  /\ stage \in {"initialize", "legacy"}
  /\ \/ /\ l.kind = "error" /\ stage = "initialize"
        /\ stage' = "legacy" /\ pc' = "send" /\ UNCHANGED outcome
     \/ /\ l.kind = "result"
        /\ stage' = "initialized" /\ pc' = "send" /\ UNCHANGED outcome
     \/ Fail /\ UNCHANGED stage
  /\ UNCHANGED <<pages, source>>

\* The request whose response the line is, if the ids say so.
Asked(l) == (CHOOSE r \in read : r.id = l.id).stage

\* list_tools goes on while there are pages, up to max_tool_pages; a
\* validated call needs one tool of the name and arguments of its schema.
SettleList(l) ==
  /\ stage = "list" /\ l.kind = "result" /\ pages' = pages + 1
  /\ \/ pages' < MaxPages /\ pc' = "send" /\ UNCHANGED <<stage, outcome, source>>
     \/ /\ Len(This.calls) = 1 /\ pc' = "terminate" /\ outcome' = "ok"
        /\ source' = Asked(l) /\ UNCHANGED stage
     \/ /\ Len(This.calls) = 2 /\ stage' = This.calls[2] /\ pc' = "send"
        /\ UNCHANGED <<outcome, source>>
     \/ Fail /\ UNCHANGED <<stage, source>>

\* The result is parsed, which may fail.
SettleCall(l) ==
  /\ stage = "call" /\ l.kind = "result"
  /\ outcome' \in {"ok", "failed"} /\ source' = Asked(l)
  /\ pc' = "terminate" /\ UNCHANGED <<stage, pages>>

SettleExecute(l) ==
  /\ stage = "execute" /\ l.kind = "result"
  /\ outcome' \in {"ok", "failed"} /\ source' = Asked(l)
  /\ pc' = "send" /\ stage' = "shutdown" /\ UNCHANGED pages

\* An error response does not end the process by itself.
SettleError(l) ==
  /\ stage \in {"list", "call", "execute"} /\ l.kind = "error"
  /\ outcome' = "failed"
  /\ IF This.drops THEN pc' = "drop" /\ UNCHANGED stage
     ELSE IF stage = "execute" THEN pc' = "send" /\ stage' = "shutdown"
     ELSE pc' = "terminate" /\ UNCHANGED stage
  /\ UNCHANGED <<pages, source>>

SettleShutdown(l) ==
  /\ stage = "shutdown"
  /\ pc' = "terminate" /\ UNCHANGED <<stage, outcome, pages, source>>

Settle(l) == \/ SettleInitialize(l) \/ SettleList(l) \/ SettleCall(l)
             \/ SettleExecute(l) \/ SettleError(l) \/ SettleShutdown(l)

\* A line that cannot be taken, or the end of stdout.
Broken == GiveUp /\ UNCHANGED <<stage, pages, source>>

\* A plugin host drops the oldest notification, an MCP client fails.
NoteTaken == Plugin \/ notes < MaxNotes

Receive ==
  /\ pc = "read" /\ outbox # <<>>
  /\ LET l == Head(outbox) IN
     /\ outbox' = Tail(outbox)
     /\ \/ /\ l.kind = "note" /\ NoteTaken
           /\ notes' = IF Plugin /\ notes = MaxNotes THEN notes ELSE notes + 1
           /\ UNCHANGED <<pc, stage, outcome, pages, source, inbox>>
        \/ /\ l.kind = "note" /\ ~NoteTaken
           /\ Broken /\ UNCHANGED <<notes, inbox>>
        \/ /\ l.kind = "ask"
           /\ inbox' = Append(inbox, [id |-> 0, stage |-> "answer", large |-> FALSE])
           /\ pc' = "answer" /\ UNCHANGED <<stage, outcome, pages, source, notes>>
        \/ /\ Matches(l) /\ Settle(l) /\ UNCHANGED <<notes, inbox>>
        \/ /\ l.kind \notin {"note", "ask"} /\ ~Matches(l)
           /\ Broken /\ UNCHANGED <<notes, inbox>>
  /\ UNCHANGED <<op, id, child, helper, read, lines, stopped, cancelled, unkilled>>

EndOfOutput ==
  /\ pc = "read" /\ outbox = <<>> /\ child # "alive"
  /\ Broken
  /\ UNCHANGED <<op, id, notes, stopped, unkilled, processVars, cancelled>>

\* read_response: the answer to a request of the plugin is written.
Answered ==
  /\ pc = "answer"
  /\ IF child = "alive" THEN Fits /\ pc' = "read" /\ UNCHANGED outcome
     ELSE GiveUp
  /\ UNCHANGED <<op, stage, id, pages, notes, stopped, source, unkilled, processVars,
                 cancelled>>

\* request_timeout: a plugin host limits the reading of the response, with
\* what it answers meanwhile, an MCP client the writing too.
Timeout ==
  /\ pc \in {"read", "answer"} \/ (Server /\ pc = "write")
  /\ Broken
  /\ UNCHANGED <<op, id, notes, stopped, unkilled, processVars, cancelled>>

\* execute_with_reporter selects between the request and the cancellation.
CancelOperation ==
  /\ Plugin /\ cancelled /\ stage = "execute" /\ pc \in {"write", "read", "answer"}
  /\ stage' = "cancel" /\ pc' = "send" /\ outcome' = "cancelled"
  /\ UNCHANGED <<op, id, pages, notes, stopped, source, unkilled, processVars, cancelled>>

-----------------------------------------------------------------------------
(* Stopping.                                                               *)

\* MCP: killed at once.  Plugin host: stdin is closed, which a process may
\* take for its end, and it is killed after the grace period.
Terminate ==
  /\ pc = "terminate"
  /\ child' = IF child = "alive" THEN "killed" ELSE child
  /\ stopped' = TRUE
  /\ pc' = "returned"
  /\ outcome' \in {outcome} \cup (IF Managed THEN {"failed"} ELSE {})
  /\ UNCHANGED <<op, stage, id, inbox, outbox, helper, read, lines, pages, notes,
                 source, cancelled, unkilled>>

\* Mutant of DropClient: a client that is dropped leaves its process alone.
MutDropClient ==
  /\ pc = "drop" \/ (Managed /\ pc \in {"send", "write", "read", "terminate"})
  /\ Return("failed")
  /\ UNCHANGED <<op, stage, id, processVars, pages, notes, stopped, source, cancelled,
                 unkilled>>

\* The aggregate deadline of a management request drops the client; call_mcp
\* drops it on an error response.
DropClient ==
  /\ pc = "drop" \/ (Managed /\ pc \in {"send", "write", "read", "terminate"})
  /\ child' = IF child = "alive" THEN "killed" ELSE child
  /\ Return("failed")
  /\ UNCHANGED <<op, stage, id, inbox, outbox, helper, read, lines, pages, notes,
                 stopped, source, cancelled, unkilled>>

-----------------------------------------------------------------------------
(* Commands and HTTP requests.                                             *)

\* execute_process: an input stdin that is no string is found out when the
\* process runs already.
BadInput ==
  /\ op = "command" /\ pc = "poll" /\ child = "alive" /\ ~helper
  /\ unkilled' = TRUE /\ Return("failed")
  /\ UNCHANGED <<op, stage, id, pages, notes, stopped, source, processVars, cancelled>>

Poll ==
  /\ op = "command" /\ pc = "poll"
  /\ \/ cancelled /\ outcome' = "cancelled"
     \/ outcome' = "failed"                             \* deadline
     \/ child = "exited" /\ outcome' = "ok"
  /\ pc' = "cleanup"
  /\ UNCHANGED <<op, stage, id, pages, notes, stopped, source, unkilled, processVars,
                 cancelled>>

\* Mutant of KillGroup: only what failed is killed.
MutKillGroup ==
  /\ pc = "cleanup"
  /\ IF outcome = "ok" THEN UNCHANGED <<child, helper>>
     ELSE /\ child' = IF child = "alive" THEN "killed" ELSE child
          /\ helper' = FALSE
  /\ pc' = "join"
  /\ UNCHANGED <<op, stage, id, inbox, outbox, read, lines, pages, notes, stopped,
                 outcome, source, cancelled, unkilled>>

KillGroup ==
  /\ pc = "cleanup"
  /\ child' = IF child = "alive" THEN "killed" ELSE child
  /\ helper' = FALSE /\ pc' = "join"
  /\ UNCHANGED <<op, stage, id, inbox, outbox, read, lines, pages, notes, stopped,
                 outcome, source, cancelled, unkilled>>

\* The readers end when nobody has the pipes open; too much output fails.
Join ==
  /\ pc = "join" /\ child # "alive" /\ ~helper
  /\ pc' = "returned" /\ outcome' \in {outcome, "failed"}
  /\ UNCHANGED <<op, stage, id, processVars, pages, notes, stopped, source, cancelled,
                 unkilled>>

\* execute_http: the thread ends by itself; who waits for it looks at the
\* control of the run meanwhile.
ThreadEnds ==
  /\ op = "http" /\ child = "alive" /\ child' = "exited"
  /\ UNCHANGED <<clientVars, inbox, outbox, helper, read, lines, cancelled>>
PollHttp ==
  /\ op = "http" /\ pc = "poll"
  /\ \/ cancelled /\ Return("cancelled")
     \/ Return("failed")                                \* deadline of the run
     \/ child = "exited" /\ (Return("ok") \/ Return("failed"))
  /\ UNCHANGED <<op, stage, id, processVars, pages, notes, stopped, source, cancelled,
                 unkilled>>

-----------------------------------------------------------------------------
Client ==
  \/ Prepare \/ SpawnChild \/ Send \/ Written \/ Receive \/ EndOfOutput \/ Answered
  \/ Timeout \/ CancelOperation \/ Terminate \/ DropClient
  \/ BadInput \/ Poll \/ KillGroup \/ Join \/ PollHttp

ChildNext ==
  \/ Client \/ ThreadEnds
  \/ RequestCancel \/ ChildReads \/ ChildWrites \/ ChildForks \/ ChildExits

\* Core goes on and its timers run out; the process need not do anything.
\* Whoever waits for cancellation looks at it again and again.
ChildSpec ==
  /\ ChildInit /\ [][ChildNext]_childVars
  /\ WF_childVars(Client) /\ WF_childVars(ThreadEnds) /\ WF_childVars(CancelOperation)

-----------------------------------------------------------------------------
(* Properties.                                                             *)

\* The types of the variables.
ChildTypeOK ==
  /\ op \in Operations /\ id \in 0 .. 2 + MaxPages + 2
  /\ child \in {"none", "alive", "exited", "killed"}
  /\ outcome \in {"none", "ok", "failed", "cancelled"}
  /\ \A r \in read : r.id \in 1 .. id
  /\ pages \in 0 .. MaxPages /\ notes \in 0 .. MaxNotes

\* parse_incoming: what the operation returns is the response to the request
\* that does its work, not one the process wrote for an earlier request.
AnswersItsRequest ==
  /\ ChildTypeOK
  /\ pc = "returned" /\ outcome = "ok" =>
       source = IF Plugin THEN "execute" ELSE IF op = "discover" THEN "list"
                ELSE IF Server THEN "call" ELSE "none"

\* terminate, Drop and the kill of the group: no process is left when the
\* operation returns, on any path but the one of BadInput.
NoChildLeft ==
  pc = "returned" /\ op # "http" /\ ~unkilled => child # "alive" /\ ~helper

\* Every operation ends, whatever the process does, unless Core waits for a
\* plugin to read what it writes to it; a thread of an HTTP request too.
StuckWrite == Plugin /\ pc = "write" /\ child = "alive" /\ ~Fits
OperationEnds ==
  /\ (<>(pc = "returned")) \/ (<>[]StuckWrite)
  /\ <>(op = "http" => child # "alive")
=============================================================================
