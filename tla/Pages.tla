-------------------------------- MODULE Pages --------------------------------
(***************************************************************************)
(* Reading a collection of Core page by page, and following its events.    *)
(*                                                                         *)
(* A page is one read of the store; the client comes back with the cursor  *)
(* of the page before, and meanwhile rows come, go and change.  Lists are  *)
(* continued after the key of the last row; the history of an execution    *)
(* also stops at the highest event of the first page; metadata and tools   *)
(* carry a digest of the whole collection and refuse to go on when it is   *)
(* another.  The event stream continues after the last event sent, in a    *)
(* connection and across connections.                                      *)
(*                                                                         *)
(* A row is a pair: created and id of an execution, workflow and trigger,  *)
(* name and version of metadata; where the key is one value the second     *)
(* component is 1.                                                         *)
(***************************************************************************)
EXTENDS Integers, FiniteSets, FiniteSetsExt, SequencesExt, Functions

CONSTANTS
  Kinds,        \* the collections looked at
  MaxLimit,     \* bound: rows the client asks for on a page
  MaxKey,       \* bound: a component of a key
  MaxChanges    \* bound: changes to the collection

ASSUME PageBounds == MaxLimit \in Nat \ {0} /\ MaxKey \in Nat /\ MaxChanges \in Nat

VARIABLES
  kind,      \* the collection of this behaviour
  rows,      \* its rows
  hidden,    \* the rows the filter of the client leaves out
  scheduled, \* the triggers with a durable schedule
  changes, counter,   \* changes made; the last sequence number given
  walk,      \* the client's walk through the pages
  steady,    \* the rows that were there, and shown, since the walk began
  stream     \* the subscription to events

pageVars == <<kind, rows, hidden, scheduled, changes, counter, walk, steady, stream>>

Digested == {"metadata", "tools"}
Numbered == {"nodes", "events", "stream"}

\* Executions the newest first, everything else ascending.
Precedes(r, s) ==
  IF kind = "executions" THEN r[1] > s[1] \/ (r[1] = s[1] /\ r[2] < s[2])
  ELSE r[1] < s[1] \/ (r[1] = s[1] /\ r[2] < s[2])

\* A set of rows in order: the i-th has i - 1 before it.
Before(S, r) == {s \in S : Precedes(s, r)}
Sorted(S) ==
  [i \in 1..Cardinality(S) |-> CHOOSE r \in S : Cardinality(Before(S, r)) = i - 1]

\* A trigger is listed when a source declares it and, once, when only its
\* schedule is left.
Projections == rows \cup scheduled
Shown == IF kind = "triggers" THEN Projections ELSE rows \ hidden

\* The rows seen, and what the cursor holds: the last row, the highest event,
\* the digest of the collection, the position in it.
NoWalk == [pc |-> "idle", seen |-> <<>>, after |-> <<0, 0>>, high |-> 0, digest |-> {},
           offset |-> 0]
PageInit ==
  /\ kind \in Kinds
  /\ rows = {} /\ hidden = {} /\ scheduled = {} /\ changes = 0 /\ counter = 0
  /\ walk = NoWalk /\ steady = {}
  /\ stream = [pc |-> "off", pending |-> <<>>, cursor |-> 0, received |-> <<>>]

-----------------------------------------------------------------------------
(* What happens to the collection between two pages.                       *)

Changed(new, hid) ==
  /\ changes < MaxChanges /\ changes' = changes + 1
  /\ rows' = new /\ hidden' = hid
  /\ steady' = steady \cap ((new \ hid) \cup scheduled)
  /\ UNCHANGED <<kind, scheduled, walk, stream>>

\* An execution is created now, at the newest time there is or a later one;
\* other names are any.
AddRow(r) ==
  /\ kind \notin Numbered /\ r \notin rows
  /\ kind \in {"workflows", "tools"} => r[2] = 1
  /\ kind = "metadata" => \A s \in rows : s[1] # r[1]
  /\ kind = "executions" => \A s \in rows : s[1] <= r[1] /\ s[2] # r[2]
  /\ Changed(rows \cup {r}, hidden) /\ UNCHANGED counter

\* The sequence numbers of node runs and events grow through all executions and
\* are never given again.
AppendEvent(mine) ==
  /\ kind \in Numbered /\ counter < MaxKey
  /\ counter' = counter + 1
  /\ Changed(IF mine THEN rows \cup {<<counter', 1>>} ELSE rows, hidden)

UpdateRow(r, v) ==
  /\ kind = "metadata" /\ r \in rows /\ v > r[2]
  /\ Changed((rows \ {r}) \cup {<<r[1], v>>}, hidden) /\ UNCHANGED counter

\* Triggers go with the source that declares them, metadata and tools are
\* removed; workflows stay.
RemoveRow(r) ==
  /\ kind \in {"triggers"} \cup Digested /\ r \in rows
  /\ Changed(rows \ {r}, hidden \ {r}) /\ UNCHANGED counter

\* The scheduler keeps the schedule of a trigger whose source is gone.
Schedule(r) ==
  /\ kind = "triggers" /\ r \in rows \ scheduled
  /\ changes < MaxChanges /\ changes' = changes + 1
  /\ scheduled' = scheduled \cup {r}
  /\ UNCHANGED <<kind, rows, hidden, counter, walk, steady, stream>>

\* Executions that ended long ago, in any order, and the oldest events.
ApplyRetention(upto) ==
  /\ kind \in {"executions", "events", "stream"}
  /\ LET gone == {r \in rows : IF kind = "executions" THEN r[2] = upto ELSE r[1] <= upto} IN
       gone # {} /\ Changed(rows \ gone, hidden \ gone)
  /\ UNCHANGED counter

\* The status of an execution moves on: it enters or leaves the filter.
ChangeStatus(r) ==
  /\ kind = "executions" /\ r \in rows
  /\ Changed(rows, IF r \in hidden THEN hidden \ {r} ELSE hidden \cup {r})
  /\ UNCHANGED counter

-----------------------------------------------------------------------------
(* Pages.                                                                  *)

Reading(k) == kind = k /\ walk.pc \in {"idle", "more"}
Untouched == UNCHANGED <<kind, rows, hidden, scheduled, changes, counter, stream>>

\* The answer: its rows, and a cursor of the last of them when there are more.
Answer(items, more) ==
  [walk EXCEPT !.pc = IF more THEN "more" ELSE "done",
               !.seen = @ \o items,
               !.after = IF items = <<>> THEN <<0, 0>> ELSE Last(items)]

Refuse == walk' = [NoWalk EXCEPT !.pc = "refused", !.seen = walk.seen] /\ UNCHANGED steady

FirstOf(s, n) == SubSeq(s, 1, IF Len(s) < n THEN Len(s) ELSE n)

\* One row more than the page holds is read, to know whether to go on.
ReadAfter(S, limit) ==
  LET found == Sorted(S) IN Answer(FirstOf(found, limit), Len(found) > limit)

\* Mutant of Beyond: executions created at one time are not told apart.
MutBeyond(after, r) ==
  IF kind = "executions" THEN r[1] < after[1] ELSE Precedes(after, r)

\* The condition of the query that continues after a cursor.
Beyond(after, r) ==
  IF kind = "executions"
  THEN r[1] < after[1] \/ (r[1] = after[1] /\ r[2] > after[2])
  ELSE r[1] > after[1] \/ (r[1] = after[1] /\ r[2] > after[2])

Following(S) == IF walk.pc = "idle" THEN S ELSE {r \in S : Beyond(walk.after, r)}
Began == steady' = IF walk.pc = "idle" THEN Shown ELSE steady

ListWorkflowPage(limit) ==
  /\ Reading("workflows") /\ Began
  /\ walk' = ReadAfter(Following(rows), limit) /\ Untouched

\* The cursor carries the filter and is refused with another.
ListExecutionPage(limit) ==
  /\ Reading("executions") /\ Began
  /\ walk' = ReadAfter(Following(Shown), limit) /\ Untouched

InspectExecution(limit) ==
  /\ Reading("nodes") /\ Began
  /\ walk' = ReadAfter(Following(rows), limit) /\ Untouched

ListTriggerPage(limit) ==
  /\ Reading("triggers") /\ Began
  /\ walk' = ReadAfter(Following(Projections), limit) /\ Untouched

ExecutionEvents(after, high) == {r \in rows : r[1] > after /\ r[1] <= high}
HighWater == Max({0} \cup {r[1] : r \in rows})

\* The first page fixes the highest event; when it has been deleted since, and
\* none came after it, the rest is refused.
ExecutionEventPage(limit) ==
  /\ Reading("events") /\ Untouched
  /\ IF walk.pc = "idle"
     THEN /\ walk' = [ReadAfter(ExecutionEvents(0, HighWater), limit) EXCEPT !.high = HighWater]
          /\ Began
     ELSE IF walk.high > HighWater THEN Refuse
     ELSE /\ walk' = ReadAfter(ExecutionEvents(walk.after[1], walk.high), limit)
          /\ Began

\* The row of the cursor is found by its name in the same collection.
PaginateIntegrationItems(limit) ==
  /\ Reading("metadata") /\ Untouched
  /\ IF walk.pc = "more" /\ walk.digest # rows THEN Refuse
     ELSE /\ walk' = [ReadAfter(Following(rows), limit) EXCEPT !.digest = rows]
          /\ Began

\* The tools are asked for again at every page; the cursor is a position.
ManagementMcpListTools(limit) ==
  /\ Reading("tools") /\ Untouched
  /\ IF walk.pc = "more" /\ walk.digest # rows THEN Refuse
     ELSE LET offset == IF walk.pc = "more" THEN walk.offset ELSE 0
              all == Sorted(rows)
              end == IF offset + limit < Len(all) THEN offset + limit ELSE Len(all)
          IN /\ walk' = [Answer(SubSeq(all, offset + 1, end), end < Len(all))
                           EXCEPT !.digest = rows, !.offset = end]
             /\ Began

-----------------------------------------------------------------------------
(* The event stream.                                                       *)

EventsAfter(cursor) == {r \in rows : r[1] > cursor}

Batch(cursor) ==
  FirstOf(Sorted(EventsAfter(cursor)), MaxLimit)

\* An event of a cursor is looked up by its id, so it has to be retained.
Retained(cursor) == cursor = 0 \/ <<cursor, 1>> \in rows

\* The client connects, again too, after the last event it received.
Events ==
  /\ kind = "stream" /\ stream.pc = "off"
  /\ LET last == IF stream.received = <<>> THEN 0 ELSE Last(stream.received)[1]
     IN /\ Retained(last)
        /\ stream' = [stream EXCEPT !.pc = "on", !.pending = Batch(last), !.cursor = last]
  /\ UNCHANGED <<kind, rows, hidden, scheduled, changes, counter, walk, steady>>

\* An event leaves Core; the connection may break before it arrives.
Send(arrives) ==
  /\ stream.pc = "on" /\ stream.pending # <<>>
  /\ stream' = [pc |-> IF arrives THEN "on" ELSE "off",
                pending |-> IF arrives THEN Tail(stream.pending) ELSE <<>>,
                cursor |-> Head(stream.pending)[1],
                received |-> IF arrives THEN stream.received \o <<Head(stream.pending)>>
                             ELSE stream.received]
  /\ UNCHANGED <<kind, rows, hidden, scheduled, changes, counter, walk, steady>>

Poll ==
  /\ stream.pc = "on" /\ stream.pending = <<>> /\ Retained(stream.cursor)
  /\ stream' = [stream EXCEPT !.pending = Batch(stream.cursor)]
  /\ UNCHANGED <<kind, rows, hidden, scheduled, changes, counter, walk, steady>>

Keys == (1..MaxKey) \X (1..MaxKey)
PageNext ==
  \/ \E r \in Keys : AddRow(r) \/ RemoveRow(r) \/ Schedule(r) \/ ChangeStatus(r)
  \/ \E r \in Keys, v \in 1..MaxKey : UpdateRow(r, v)
  \/ \E mine \in BOOLEAN : AppendEvent(mine)
  \/ \E upto \in 1..MaxKey : ApplyRetention(upto)
  \/ \E n \in 1..MaxLimit :
       \/ ListWorkflowPage(n) \/ ListExecutionPage(n) \/ InspectExecution(n)
       \/ ListTriggerPage(n) \/ ExecutionEventPage(n)
       \/ PaginateIntegrationItems(n) \/ ManagementMcpListTools(n)
  \/ Events \/ Poll \/ \E arrives \in BOOLEAN : Send(arrives)

PageSpec == PageInit /\ [][PageNext]_pageVars

-----------------------------------------------------------------------------
\* A walk that ends has shown every row that was there all the time, none
\* twice, in the order of the collection; metadata and tools exactly as they
\* were on the first page; of the history nothing younger than its first page.
WalkFaithful ==
  walk.pc = "done" =>
    /\ steady \subseteq Range(walk.seen)
    /\ \A i, j \in 1..Len(walk.seen) : i < j => Precedes(walk.seen[i], walk.seen[j])
    /\ kind \in Digested => walk.seen = Sorted(walk.digest)
    /\ kind = "events" => \A r \in Range(walk.seen) : r[1] <= walk.high

\* A client that reconnects after the last event it received gets the events in
\* order, none twice, and misses none.
StreamGapless ==
  LET got == stream.received IN
  /\ \A i, j \in 1..Len(got) : i < j => got[i][1] < got[j][1]
  /\ got # <<>> => \A r \in rows : r[1] < Last(got)[1] => r \in Range(got)

\* Clients that page or subscribe while the collection changes miss nothing
\* that stays and see nothing twice.
PagesSound == WalkFaithful /\ StreamGapless
=============================================================================
