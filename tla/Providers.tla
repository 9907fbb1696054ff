------------------------------- MODULE Providers -------------------------------
(***************************************************************************)
(* The AI nodes of one execution: every model request reserves output      *)
(* tokens of the execution's budget, is sent by a worker thread that the   *)
(* node polls together with its control, and is traced by spans and an     *)
(* invocation record.  An agent node alternates requests and tool calls.   *)
(* Nodes run in parallel, are retried, and are lost when Core restarts.    *)
(*                                                                         *)
(* A reply is its sequence of content blocks, told apart by what the       *)
(* runtime does with them.                                                 *)
(***************************************************************************)
EXTENDS Integers, Sequences, FiniteSets, FiniteSetsExt

CONSTANTS
  Work,           \* the AI nodes: sets of [id, kind, profile, tokens]
  Budget,         \* policy.ai.budgetTokens
  MaxModelCalls, MaxToolCalls, MaxAttempts,   \* the node's limits
  Replies,        \* what a provider may answer
  MaxRecoveries,    \* bound: crashes of Core
  MaxRefreshes    \* bound: exchanges of the OAuth tokens

ASSUME ProviderBounds ==
  /\ Budget \in Nat /\ {MaxRecoveries, MaxRefreshes} \subseteq Nat
  /\ {MaxModelCalls, MaxAttempts} \subseteq Nat \ {0} /\ MaxToolCalls \in Nat

\* An execution has finitely many AI nodes; each asks a profile for a number
\* of output tokens.
ASSUME WorkAssumption ==
  \A nodes \in Work :
    /\ IsFiniteSet(nodes)
    /\ \A w \in nodes : w.profile \in {"minimax", "codex"} /\ w.tokens \in Nat

VARIABLES
  job,        \* the AI nodes of this execution
  turn,       \* what each node is doing
  run,        \* the execution: its state, whether control stops it, restarts
  reserved,   \* provider_token_reservations, summed per profile
  sent,       \* history: the output tokens asked of each profile
  spans,      \* per node, its provider and tool spans: how many are running,
              \* and the provider spans its attempt finished
  recorded,   \* per node and attempt, its invocation records
  login       \* the OAuth tokens: generation stored, generation issued

providerVars == <<job, turn, run, reserved, sent, spans, recorded, login>>

Profiles == {"minimax", "codex"}
Tools == {"echo", "remote"}                     \* the tools the node permits
ToolUses == Tools \cup {"submit", "invalid", "foreign", "nameless"}
Waiting == [pc |-> "idle", attempt |-> 0, round |-> 0, tools |-> 0, reply |-> <<>>,
         left |-> <<>>, held |-> 0, fresh |-> FALSE, ran |-> <<>>]

InFlight(n) == turn[n].pc \notin {"idle", "done", "failed"}
AiNodes == {w.id : w \in job}
JobOf(n) == CHOOSE w \in job : w.id = n

\* The control of the execution: cancelled, timed out, a sibling failed or
\* Core is stopping.
Stopped == run.stop

ProviderInit ==
  /\ job \in Work
  /\ turn = [n \in AiNodes |-> Waiting]
  /\ run = [state |-> "running", stop |-> FALSE, restarts |-> 0]
  /\ reserved = [p \in Profiles |-> 0]
  /\ sent = [p \in Profiles |-> 0]
  /\ spans = [n \in AiNodes |-> [running |-> 0, finished |-> 0]]
  /\ recorded = [n \in AiNodes |-> 0]
  /\ login = [stored |-> 0, issued |-> 0]

----------------------------------------------------------------------------
(* Trace spans. *)

StartTraceSpan(n) == spans' = [spans EXCEPT ![n].running = @ + 1]

FinishTraceSpan(n, provider) ==
  spans' = [spans EXCEPT ![n].running = @ - 1, ![n].finished = @ + provider]

CloseSpans == spans' = [n \in AiNodes |-> [spans[n] EXCEPT !.running = 0]]

----------------------------------------------------------------------------
(* What a reply amounts to. *)

ToolCallsFrom(reply) == SelectSeq(reply, LAMBDA b : b \in ToolUses)

\* A reply is a sequence, and so are the calls selected from it.
ASSUME RepliesAssumption == \A reply \in Replies : ToolCallsFrom(reply) \in Seq(ToolUses)

Texts(reply) == SelectSeq(reply, LAMBDA b : b \in {"prose", "value"})

\* The texts are joined, so only a lone "value" is still JSON.
ResponseText(reply) ==
  IF Texts(reply) = <<>> THEN "none"
  ELSE IF Texts(reply) = <<"value">> THEN "json" ELSE "prose"

\* The first tool call's input, whatever tool it names, before any text.
StructuredValue(reply) ==
  IF ToolCallsFrom(reply) # <<>>
  THEN IF Head(ToolCallsFrom(reply)) = "submit" THEN "fits" ELSE "misfit"
  ELSE IF ResponseText(reply) = "json" THEN "fits" ELSE "error"

ValidateSchema(value) == value = "fits"

\* The Codex stream without text and without calls is an error; its
\* reasoning items pass through.
ParseStreamResponse(reply) == Texts(reply) # <<>> \/ ToolCallsFrom(reply) # <<>>

\* An MCP or echo tool of the node, with an input its schema takes.
ExecuteAgentTool(name) == name \in Tools

----------------------------------------------------------------------------
(* An attempt of a node, and its end. *)

Move(n, pc) == turn' = [turn EXCEPT ![n].pc = pc]

\* A failed attempt is retried unless the control stopped it; the last
\* failure stops the siblings.
Fail(n) ==
  IF ~Stopped /\ turn[n].attempt < MaxAttempts
  THEN /\ turn' = [turn EXCEPT ![n] = [Waiting EXCEPT !.pc = "retry", !.attempt = turn[n].attempt]]
       /\ UNCHANGED run
  ELSE /\ turn' = [turn EXCEPT ![n] = [Waiting EXCEPT !.pc = "failed"]]
       /\ run' = [run EXCEPT !.stop = TRUE]

BeginAttempt(n) ==
  /\ run.state = "running" /\ turn[n].pc \in {"idle", "retry"}
  /\ Stopped => turn[n].pc = "retry"
  /\ IF Stopped THEN Fail(n) /\ UNCHANGED <<recorded, spans>>
     ELSE /\ turn' = [turn EXCEPT ![n] = [Waiting EXCEPT !.pc = "round",
                                                      !.attempt = turn[n].attempt + 1]]
          /\ recorded' = [recorded EXCEPT ![n] = 0]
          /\ spans' = [spans EXCEPT ![n].finished = 0]
          /\ UNCHANGED run
  /\ UNCHANGED <<job, reserved, sent, login>>

Succeed(n) ==
  /\ turn' = [turn EXCEPT ![n].pc = "done", ![n].held = 0, ![n].fresh = FALSE]
  /\ UNCHANGED run

----------------------------------------------------------------------------
(* One request to a model. *)

\* Mutant of Fits: the reservation looks at the request alone.
MutFits(p, tokens) == tokens <= Budget

Fits(p, tokens) == reserved[p] + tokens <= Budget

\* One transaction: the sum is read and the reservation inserted.
ReserveProviderTokens(n, p, tokens) ==
  IF Fits(p, tokens)
  THEN /\ reserved' = [reserved EXCEPT ![p] = @ + tokens]
       /\ turn' = [turn EXCEPT ![n].pc = "open", ![n].round = @ + 1]
       /\ UNCHANGED run
  ELSE Fail(n) /\ UNCHANGED reserved

\* An agent's round begins with the control; so does a MiniMax request.  A
\* Codex request of another node reserves without looking, and the node
\* kakune.ai.codex.exec@1 reserves nothing at all.
Request(n) ==
  LET w == JobOf(n) IN
  /\ run.state = "running" /\ turn[n].pc = "round"
  /\ CASE w.kind = "agent" /\ turn[n].round = MaxModelCalls -> Fail(n) /\ UNCHANGED reserved
       [] w.kind = "exec" -> Move(n, "open") /\ UNCHANGED <<run, reserved>>
       [] w.kind # "exec" /\ (w.kind = "agent" => turn[n].round < MaxModelCalls) ->
            IF Stopped /\ (w.kind = "agent" \/ w.profile = "minimax")
            THEN Fail(n) /\ UNCHANGED reserved
            ELSE ReserveProviderTokens(n, w.profile, w.tokens)
  /\ UNCHANGED <<job, sent, spans, recorded, login>>

\* profile_for_node and the secret: the profile may have become unusable
\* since the execution began.
ProfileForNode(n) == {TRUE, FALSE}

\* The tokens are read, the span starts, the worker thread begins.
OpenRequest(n) ==
  /\ run.state = "running" /\ turn[n].pc = "open"
  /\ \E usable \in ProfileForNode(n) :
       IF usable
       THEN /\ StartTraceSpan(n)
            /\ turn' = [turn EXCEPT ![n].pc = "send", ![n].held = login.stored,
                                    ![n].fresh = FALSE]
            /\ UNCHANGED run
       ELSE Fail(n) /\ UNCHANGED spans
  /\ UNCHANGED <<job, reserved, sent, recorded, login>>

\* Expired tokens are exchanged first; the issuer accepts the latest
\* generation only (external) and the exchange may fail.
RefreshTokens(n) ==
  /\ run.state = "running" /\ turn[n].pc = "send" /\ JobOf(n).profile = "codex"
  /\ ~turn[n].fresh /\ login.issued < MaxRefreshes
  /\ \/ /\ turn[n].held = login.issued
        /\ login' = [login EXCEPT !.issued = @ + 1]
        /\ turn' = [turn EXCEPT ![n].held = login.issued + 1, ![n].fresh = TRUE]
        /\ UNCHANGED run
     \/ Fail(n) /\ UNCHANGED login
  /\ UNCHANGED <<job, reserved, sent, spans, recorded>>

SendRequest(n) ==
  /\ run.state = "running" /\ turn[n].pc = "send"
  /\ Move(n, "wait")
  /\ sent' = IF JobOf(n).kind = "exec" THEN sent
             ELSE [sent EXCEPT ![JobOf(n).profile] = @ + JobOf(n).tokens]
  /\ UNCHANGED <<job, run, reserved, spans, recorded, login>>

\* The answer of the provider: a reply, or no usable one.
AnswerRequest(n) ==
  /\ run.state = "running" /\ turn[n].pc = "wait"
  /\ \/ \E reply \in Replies :
          /\ JobOf(n).profile = "codex" => ParseStreamResponse(reply)
          /\ turn' = [turn EXCEPT ![n].pc = "answered", ![n].reply = reply]
          /\ UNCHANGED run
     \/ Fail(n)
  /\ UNCHANGED <<job, reserved, sent, spans, recorded, login>>

\* The poll sees the control before the answer: the worker is told and
\* joined, the span stays open.
StopRequest(n) ==
  /\ run.state = "running" /\ turn[n].pc \in {"send", "wait"} /\ Stopped
  /\ Fail(n)
  /\ UNCHANGED <<job, reserved, sent, spans, recorded, login>>

\* Refreshed tokens are stored, the control is looked at again, then the
\* invocation is recorded and the span finished.
Receive(n) ==
  /\ run.state = "running" /\ turn[n].pc = "answered"
  /\ login' = IF turn[n].fresh THEN [login EXCEPT !.stored = turn[n].held] ELSE login
  /\ IF Stopped THEN Fail(n) /\ UNCHANGED <<spans, recorded>>
     ELSE /\ recorded' = [recorded EXCEPT ![n] = @ + 1]
          /\ FinishTraceSpan(n, 1)
          /\ Move(n, "reply")
          /\ UNCHANGED run
  /\ UNCHANGED <<job, reserved, sent>>

----------------------------------------------------------------------------
(* What the nodes make of the reply. *)

End(n, ok) == IF ok THEN Succeed(n) ELSE Fail(n)

\* exec and messages hand the reply on; generate needs text; extract,
\* boolean and choose a value of their schema.
EndExec(n) == JobOf(n).kind = "exec" /\ End(n, TRUE)
EndMessages(n) == JobOf(n).kind = "messages" /\ End(n, TRUE)
EndGenerate(n) == JobOf(n).kind = "generate" /\ End(n, ResponseText(turn[n].reply) # "none")
EndExtract(n) ==
  JobOf(n).kind = "extract" /\ End(n, ValidateSchema(StructuredValue(turn[n].reply)))

UseReply(n) ==
  /\ run.state = "running" /\ turn[n].pc = "reply"
  /\ EndExec(n) \/ EndMessages(n) \/ EndGenerate(n) \/ EndExtract(n)
  /\ UNCHANGED <<job, reserved, sent, spans, recorded, login>>

NamesOf(calls) == {calls[i] : i \in DOMAIN calls}

\* Mutant of WithinLimit: the calls of this reply are counted one round late.
MutWithinLimit(n, calls) == turn[n].tools <= MaxToolCalls

WithinLimit(n, calls) == turn[n].tools + Len(calls) <= MaxToolCalls

\* A final result comes alone and fits the schema and the size limit; text
\* without calls is a final result; any other calls are counted against the
\* limit before the first of them runs.
AgentReply(n) ==
  LET calls == ToolCallsFrom(turn[n].reply) IN
  /\ run.state = "running" /\ turn[n].pc = "reply" /\ JobOf(n).kind = "agent"
  /\ IF "nameless" \in NamesOf(calls) THEN Fail(n)
     ELSE IF NamesOf(calls) \cap {"submit", "invalid"} # {}
     THEN \E small \in BOOLEAN : End(n, calls = <<"submit">> /\ small)
     ELSE IF calls = <<>>
     THEN \E small \in BOOLEAN : End(n, ValidateSchema(StructuredValue(turn[n].reply)) /\ small)
     ELSE IF WithinLimit(n, calls)
     THEN /\ turn' = [turn EXCEPT ![n].pc = "tools", ![n].left = calls,
                                  ![n].tools = @ + Len(calls)]
          /\ UNCHANGED run
     ELSE Fail(n)
  /\ UNCHANGED <<job, reserved, sent, spans, recorded, login>>

\* The next call: its span starts.  No control is looked at between calls.
StartTool(n) ==
  /\ run.state = "running" /\ turn[n].pc = "tools" /\ turn[n].left # <<>>
  /\ StartTraceSpan(n)
  /\ turn' = [turn EXCEPT ![n].pc = "tool"]
  /\ UNCHANGED <<job, run, reserved, sent, recorded, login>>

\* The tool runs (a remote one may fail) and its span is finished either
\* way; a result over the size limit fails the node.
EndTool(n) ==
  LET name == Head(turn[n].left) IN
  /\ run.state = "running" /\ turn[n].pc = "tool"
  /\ \/ /\ ExecuteAgentTool(name)
        /\ FinishTraceSpan(n, 0)
        /\ \/ /\ turn' = [turn EXCEPT ![n].pc = "tools", ![n].left = Tail(@),
                                      ![n].ran = Append(@, name)]
              /\ UNCHANGED run
           \/ Fail(n)                          \* over maxResultBytes
     \/ /\ name # "echo"
        /\ FinishTraceSpan(n, 0)
        /\ Fail(n)
  /\ UNCHANGED <<job, reserved, sent, recorded, login>>

NextRound(n) ==
  /\ run.state = "running" /\ turn[n].pc = "tools" /\ turn[n].left = <<>>
  /\ Move(n, "round")
  /\ UNCHANGED <<job, run, reserved, sent, spans, recorded, login>>

----------------------------------------------------------------------------
(* The execution around the nodes. *)

\* Cancellation, the deadline or a stop of Core.
StopRun ==
  /\ run.state = "running" /\ ~run.stop
  /\ run' = [run EXCEPT !.stop = TRUE]
  /\ UNCHANGED <<job, turn, reserved, sent, spans, recorded, login>>

\* The threads of the batch are joined before the execution is finished.
EndExecution ==
  /\ run.state = "running" /\ \A n \in AiNodes : ~InFlight(n) /\ turn[n].pc # "retry"
  /\ Stopped \/ \A n \in AiNodes : turn[n].pc = "done"
  /\ run' = [run EXCEPT !.state = "ended"]
  /\ CloseSpans
  /\ UNCHANGED <<job, turn, reserved, sent, recorded, login>>

\* Core dies and recovers: a node in flight makes the execution interrupted;
\* otherwise it goes on, with its reservations and its completed nodes.
RecoverRun ==
  /\ run.state = "running" /\ run.restarts < MaxRecoveries
  /\ LET lost == \E n \in AiNodes : InFlight(n) \/ turn[n].pc = "retry" IN
       run' = [run EXCEPT !.restarts = @ + 1, !.stop = FALSE,
                          !.state = IF lost THEN "ended" ELSE "running"]
  /\ turn' = [n \in AiNodes |-> IF turn[n].pc = "done" THEN turn[n] ELSE Waiting]
  /\ CloseSpans
  /\ UNCHANGED <<job, reserved, sent, recorded, login>>

NodeStep(n) ==
  \/ BeginAttempt(n) \/ Request(n) \/ OpenRequest(n) \/ RefreshTokens(n) \/ SendRequest(n)
  \/ AnswerRequest(n) \/ StopRequest(n) \/ Receive(n) \/ UseReply(n) \/ AgentReply(n)
  \/ StartTool(n) \/ EndTool(n) \/ NextRound(n)

ProviderNext == StopRun \/ EndExecution \/ RecoverRun \/ \E n \in AiNodes : NodeStep(n)

ProviderSpec == ProviderInit /\ [][ProviderNext]_providerVars

----------------------------------------------------------------------------
(* Properties. *)

\* The output tokens asked of a profile stay within the execution's budget,
\* whichever nodes ask in parallel, however often they are retried and
\* whenever Core restarts (reserve_provider_tokens).
BudgetKept ==
  \A p \in Profiles : sent[p] <= reserved[p] /\ reserved[p] <= Budget

\* No attempt of an agent runs more tools than its limit, a tool it does not
\* permit, or any tool once it has its result; a result is a lone
\* submission or a lone JSON text (execute_ai_agent).
AgentBounded ==
  \A n \in AiNodes :
    JobOf(n).kind = "agent" =>
      /\ Len(turn[n].ran) <= MaxToolCalls /\ turn[n].round <= MaxModelCalls
      /\ \A i \in DOMAIN turn[n].ran : turn[n].ran[i] \in Tools
      /\ turn[n].pc = "done" =>
           \/ ToolCallsFrom(turn[n].reply) = <<"submit">>
           \/ ToolCallsFrom(turn[n].reply) = <<>> /\ Texts(turn[n].reply) = <<"value">>

\* The trace of an ended execution has no running span, and a node that
\* succeeded recorded every request of its attempt, each with a span that
\* says so (finish_execution, recover_incomplete_executions, call_model).
TraceSettled ==
  run.state = "ended" =>
    \A n \in AiNodes :
      /\ spans[n].running = 0
      /\ turn[n].pc = "done" =>
           /\ recorded[n] = (IF JobOf(n).kind = "exec" THEN 1 ELSE turn[n].round)
           /\ spans[n].finished = recorded[n]

\* Agents keep to their limits, and what the AI nodes did is in the trace.
AgentSound == AgentBounded /\ TraceSettled
=============================================================================
