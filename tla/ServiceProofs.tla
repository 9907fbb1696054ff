---------------------------- MODULE ServiceProofs ----------------------------
(***************************************************************************)
(* Proofs about ServiceOperations: for any number of commands, each of     *)
(* which may die anywhere, the journal covers what helpers may still do,   *)
(* and what a command reports is true.                                     *)
(***************************************************************************)
EXTENDS ServiceOperations, TLAPS

Working == {"locked", "look", "look2", "judge", "decide", "mutate", "spawn", "own", "owned",
            "authorize", "send", "await", "reap", "close", "close2", "close3"}
Passed == Working \ {"locked"}
Looking == {"look", "look2", "judge"}
Closing == {"close", "close2", "close3"}

\* The steps a manager knows.
StepsOf(m) ==
  CASE m = "systemd" -> {"Publish", "Reload", "Enable", "Start", "Stop", "Disable", "Delete"}
    [] m = "launchd" -> {"Publish", "Start", "Stop", "Delete"}
    [] m = "scm" -> {"Register", "Description", "FailurePolicy", "Start", "Stop", "Delete"}

\* Whoever is ready or further holds the helper lock; no helper is authorized
\* before it is ready; its task is one of the manager's steps.
HelperKnows(c) ==
  /\ helper[c] \in {"ready", "look", "act"} => helperLock = c
  /\ told[c] = "authorize" => helper[c] \notin {"born", "checked"}
  /\ helper[c] \in {"checked", "ready", "look", "act"} => task[c] # None
  /\ task[c] # None => task[c].step \in StepsOf(manager)

\* A command at work holds the service lock.  Once it has passed the helper
\* lock, no helper of another command acts or will be told to.
CommandKnows(c) ==
  LET at == cmd[c].at IN
  /\ at \in Working => lock = c
  /\ at \in {"idle", "locked"} => helper[c] = "none"
  /\ at \in Looking \cup Closing \cup {"decide", "mutate", "spawn"} => ~Alive(c)
  /\ at = "own" => told[c] = "nothing" /\ helper[c] \in {"born", "bad"}
  /\ at \in {"owned", "authorize", "send"} => told[c] = "prepare"
  /\ at \in {"authorize", "send", "await"} => helper[c] \notin {"born", "checked"}
  /\ at \in Passed => \A d \in Commands \ {c} :
       helper[d] \notin {"look", "act"} /\ (helper[d] = "ready" => told[d] # "authorize")

Mine(c) ==
  /\ attempt.last # None /\ attempt.last.id = c /\ attempt.last.action = cmd[c].action
  /\ attempt.last.step = cmd[c].step /\ attempt.last.expected = cmd[c].want

\* What the journal says at each place of a command.
JournalAt(c) ==
  LET at == cmd[c].at
      j  == attempt.last
  IN
  /\ at # "refused"
  /\ at \in {"idle", "locked", "decide"} => cmd[c].step = 1
  /\ at \in Looking \cup Closing /\ cmd[c].aim = "preflight" => cmd[c].step = 1
  /\ at = "decide" => j = None
  /\ at = "mutate" =>
       \/ cmd[c].step = 1 /\ j = None
       \/ /\ j # None /\ j.id = c /\ j.action = cmd[c].action /\ j.expected = cmd[c].want
          /\ j.status = "ObservedComplete" /\ cmd[c].step = j.step + 1
  /\ at \in {"spawn", "own"} => Mine(c) /\ j.status = "Prepared"
  /\ at \in {"owned", "authorize"} => Mine(c) /\ j.status = "Prepared" /\ j.pid
  /\ at \in {"send", "await"} => Mine(c) /\ j.status = "Authorized" /\ j.pid
  /\ at = "reap" => /\ Mine(c) /\ j.status \in {"Prepared", "Authorized"}
                    /\ ~cmd[c].failing => j.status = "Authorized"
  /\ at \in Looking /\ cmd[c].aim = "between" =>
       Mine(c) /\ j.status = "Authorized" /\ cmd[c].step < Len(Steps(cmd[c].action))
  /\ at \in Looking /\ cmd[c].aim \in {"confirm", "ready", "stopped"} =>
       j = None \/ j.status = "Authorized"
  /\ at = "close" =>
       j = None \/ j.status \in {"Authorized", "ObservedComplete", "OutcomeUnknown"}
  /\ at = "close2" => j # None /\ j.status = "ObservedComplete"

Journaled(c) ==
  helper[c] \in {"look", "act"} =>
    /\ attempt.last # None
    /\ attempt.last.id = c /\ attempt.last.pid
    /\ attempt.last.status \in {"Authorized", "OutcomeUnknown"}
    /\ Task(attempt.last) = task[c]

JournalFits ==
  ~attempt.lost
  /\ (attempt.last # None => attempt.last.step <= Len(Steps(attempt.last.action)))

CommandInv(c) == HelperKnows(c) /\ CommandKnows(c) /\ JournalAt(c) /\ Journaled(c)
ServiceInv == TypeOK /\ JournalFits /\ \A c \in Commands : CommandInv(c)

LEMMA StepsFacts ==
  ASSUME manager \in Managers, NEW a \in Actions
  PROVE  /\ Len(Steps(a)) \in 1 .. 3
         /\ \A i \in 1 .. 3 : i <= Len(Steps(a)) => Steps(a)[i] \in StepsOf(manager)
         /\ StepsOf(manager) \subseteq NativeSteps
  <1>1. CASE manager = "systemd"
    BY <1>1 DEF Steps, StepsOf, Actions, NativeSteps
  <1>2. CASE manager = "launchd"
    BY <1>2 DEF Steps, StepsOf, Actions, NativeSteps
  <1>3. CASE manager = "scm"
    BY <1>3 DEF Steps, StepsOf, Actions, NativeSteps
  <1> QED BY <1>1, <1>2, <1>3 DEF Managers

LEMMA RequestsTyped ==
  ASSUME NEW n \in Natives
  PROVE  /\ RequestStart(n) \subseteq Natives /\ RequestStop(n) \subseteq Natives
         /\ Publish(n) \subseteq Natives
         /\ \A d \in {"ours", "other"} : Delete(n, d) \subseteq Natives
  <1>1. /\ RequestStart(n) \subseteq Natives /\ RequestStop(n) \subseteq Natives
        /\ Publish(n) \subseteq Natives
    BY DEF RequestStart, RequestStop, Publish, Natives, States
  <1>2. \A b \in BOOLEAN : [n EXCEPT !.unit = "none", !.stale = b] \in Natives
    BY DEF Natives
  <1>3. ASSUME NEW d \in {"ours", "other"} PROVE Delete(n, d) \subseteq Natives
    BY <1>2 DEF Delete
  <1> QED BY <1>1, <1>3

LEMMA EffectsTyped ==
  ASSUME manager \in Managers, NEW n \in Natives, NEW s \in StepsOf(manager),
         NEW d \in {"ours", "other"}
  PROVE  Effects(n, s, d) \subseteq Natives
  <1>0. /\ n \in Natives /\ [n EXCEPT !.stale = FALSE] \in Natives
        /\ [n EXCEPT !.enabled = TRUE] \in Natives /\ [n EXCEPT !.enabled = FALSE] \in Natives
    BY DEF Natives
  <1>1. CASE manager = "systemd"
    <2>1. Effects(n, s, d) = SystemdStep(n, s, d)
      BY <1>1 DEF Effects
    <2>2. s \in {"Publish", "Reload", "Enable", "Start", "Stop", "Disable", "Delete"}
      BY <1>1 DEF StepsOf
    <2> QED BY <1>0, <2>1, <2>2, RequestsTyped DEF SystemdStep
  <1>2. CASE manager = "launchd"
    <2>1. Effects(n, s, d) = LaunchdStep(n, s, d)
      BY <1>2 DEF Effects
    <2>2. s \in {"Publish", "Start", "Stop", "Delete"}
      BY <1>2 DEF StepsOf
    <2> QED BY <1>0, <2>1, <2>2, RequestsTyped DEF LaunchdStep
  <1>3. CASE manager = "scm"
    <2>1. Effects(n, s, d) = ScmStep(n, s, d)
      BY <1>3 DEF Effects
    <2>2. s \in {"Register", "Description", "FailurePolicy", "Start", "Stop", "Delete"}
      BY <1>3 DEF StepsOf
    <2> QED BY <1>0, <2>1, <2>2, RequestsTyped DEF ScmStep
  <1> QED BY <1>1, <1>2, <1>3 DEF Managers

LEMMA MovesTyped == ASSUME NEW n \in Natives PROVE Moves(n) \subseteq Natives
  <1>1. StoppingMoves(n) \subseteq Natives
    BY DEF StoppingMoves, Natives, States
  <1>2. StartingMoves(n) \subseteq Natives
    BY ZenonT(40) DEF StartingMoves, Natives, States
  <1>3. RunningMoves(n) \subseteq Natives
    <2>1. \A s \in {"Failed", "Starting"} :
            [n EXCEPT !.core = "stopped", !.state = s] \in Natives
      BY DEF Natives, States
    <2>2. [n EXCEPT !.core = "unknown"] \in Natives
      BY DEF Natives
    <2> QED BY <2>1, <2>2 DEF RunningMoves
  <1>4. /\ [n EXCEPT !.state = "Starting"] \in Natives
        /\ [n EXCEPT !.state = "Stopping"] \in Natives
        /\ [n EXCEPT !.job = "none", !.state = "Stopped"] \in Natives
    BY DEF Natives, States
  <1>5. n.job \in {"none", "start", "stop"} /\ n.state \in States
    BY DEF Natives
  <1> QED BY <1>1, <1>2, <1>3, <1>4, <1>5 DEF Moves, States

LEMMA ObservationsTyped ==
  ASSUME manager \in Managers, NEW n \in Natives
  PROVE  /\ Blank \in Observations /\ SeeManager(n) \in Observations
         /\ \A o \in Observations : SeeRest(o, n) \in Observations
  <1>1. Blank \in Observations
    BY DEF Blank, Observations, States
  <1>2. Pending(n) \in BOOLEAN
    <2>1. (n.job # "none") \in BOOLEAN /\ (n.state \in {"Starting", "Stopping"}) \in BOOLEAN
      OBVIOUS
    <2>2. CASE manager = "systemd"
      BY <2>1, <2>2, Zenon DEF Pending
    <2>3. CASE manager # "systemd"
      BY <2>1, <2>3, Zenon DEF Pending
    <2> QED BY <2>2, <2>3
  <1>3. SeeManager(n) \in Observations
    BY <1>1, <1>2 DEF SeeManager, Observations, Natives
  <1>4. ASSUME NEW o \in Observations PROVE SeeRest(o, n) \in Observations
    <2>1. (manager = "systemd" => n.enabled) \in BOOLEAN
      OBVIOUS
    <2>2. "Stopped" \in States
      BY DEF States
    <2> QED BY <1>1, <2>1, <2>2 DEF SeeRest, Observations, Natives
  <1> QED BY <1>1, <1>3, <1>4

\* What every command starts from.
LEMMA ServiceFacts ==
  ASSUME ServiceInv, NEW c \in Commands
  PROVE  /\ TypeOK /\ CommandInv(c) /\ manager \in Managers /\ native \in Natives
         /\ op[c] \in Ops /\ cmd \in [Commands -> CommandStates] /\ cmd[c] \in CommandStates
         /\ attempt.last \in Journals \cup {None} /\ attempt.torn \in BOOLEAN /\ ~attempt.lost
         /\ attempt \in [last : Journals \cup {None}, torn : BOOLEAN, lost : BOOLEAN]
         /\ cmd[c].step <= Len(Steps(cmd[c].action)) /\ None \notin Journals
         /\ attempt.last # None => /\ attempt.last \in Journals
                                   /\ attempt.last.step <= Len(Steps(attempt.last.action))
  BY JournalsAssumption DEF ServiceInv, TypeOK, JournalFits

LEMMA FreshCommand ==
  ASSUME manager \in Managers, NEW o \in Ops
  PROVE  /\ NewCommand(o) \in CommandStates /\ NewCommand(o).at = "idle"
         /\ NewCommand(o).step = 1
         /\ NewCommand(o).step <= Len(Steps(NewCommand(o).action))
  <1>1. Blank \in Observations
    BY DEF Blank, Observations, States
  <1>2. First(o) \in Actions
    BY DEF First, Ops, Actions
  <1>3. /\ NewCommand(o) \in CommandStates /\ NewCommand(o).step = 1
        /\ NewCommand(o).action = First(o) /\ NewCommand(o).at = "idle"
    BY <1>1, <1>2 DEF NewCommand, CommandStates, Places, Aims
  <1>4. 1 <= Len(Steps(First(o)))
    BY <1>2, StepsFacts
  <1> QED BY <1>3, <1>4

LEMMA NewCommandTyped ==
  ASSUME manager \in Managers, NEW o \in Ops, NEW p \in Places
  PROVE  LET k == [NewCommand(o) EXCEPT !.at = p] IN
         /\ k \in CommandStates /\ k.at = p /\ k.step = 1 /\ k.step <= Len(Steps(k.action))
  <1> DEFINE k == [NewCommand(o) EXCEPT !.at = p]
  <1>1. k \in CommandStates /\ k.at = p /\ k.step = 1 /\ k.action = NewCommand(o).action
    BY FreshCommand DEF CommandStates
  <1> HIDE DEF k
  <1>2. k.step <= Len(Steps(k.action))
    BY <1>1, FreshCommand
  <1> QED BY <1>1, <1>2 DEF k

\* A step of a command: nobody else is at work while it writes.
LEMMA CommandStep ==
  ASSUME ServiceInv, NEW c \in Commands, NEW k \in CommandStates,
         cmd' = [cmd EXCEPT ![c] = k], k.step <= Len(Steps(k.action)),
         UNCHANGED <<manager, native, op, helperLock>>,
         lock' \in Commands \cup {None}, \A d \in Commands \ {c} : lock = d => lock' = d,
         cmd[c].at \in Working \/ UNCHANGED <<attempt, helper, task, told, doomed>>,
         cmd[c].at \in Passed \/ UNCHANGED attempt,
         attempt' \in [last : Journals \cup {None}, torn : BOOLEAN, lost : BOOLEAN],
         JournalFits', helper' \in [Commands -> HelperPlaces],
         told' \in [Commands -> {"nothing", "prepare", "authorize"}], UNCHANGED task,
         \A d \in Commands \ {c} : helper'[d] = helper[d] /\ told'[d] = told[d],
         doomed' \subseteq Commands, CommandInv(c)'
  PROVE  ServiceInv'
  <1>0. cmd'[c] = k /\ \A d \in Commands \ {c} : cmd'[d] = cmd[d]
    BY ServiceFacts
  <1>1. TypeOK'
    <2>1. cmd' \in [Commands -> CommandStates]
      BY ServiceFacts
    <2>2. \A a : Steps(a)' = Steps(a)
      BY DEF Steps
    <2>3. \A d \in Commands : cmd'[d].step <= Len(Steps(cmd'[d].action))
      BY <1>0, ServiceFacts
    <2>4. \A d \in Commands : (cmd[d].step <= Len(Steps(cmd[d].action)))'
      BY <2>2, <2>3
    <2> QED BY <2>1, <2>4 DEF ServiceInv, TypeOK
  <1>2. ASSUME NEW d \in Commands \ {c} PROVE CommandInv(d)'
    <2>0. CommandInv(d) /\ CommandInv(c)
      BY DEF ServiceInv
    <2>1. HelperKnows(d)'
      BY <2>0 DEF CommandInv, HelperKnows, StepsOf
    <2>2. cmd[c].at \in Working => cmd[d].at \notin Working
      BY <2>0 DEF CommandInv, CommandKnows
    <2>3. CASE UNCHANGED <<attempt, helper, told>>
      <3>1. CommandKnows(d)'
        BY <1>0, <2>0, <2>3 DEF CommandInv, CommandKnows, Alive
      <3>2. JournalAt(d)'
        BY ZenonT(40), <1>0, <2>0, <2>3 DEF CommandInv, JournalAt, Mine, Steps
      <3>3. Journaled(d)'
        BY <2>0, <2>3 DEF CommandInv, Journaled, Task, Steps
      <3> QED BY <2>1, <3>1, <3>2, <3>3 DEF CommandInv
    <2>4. CASE cmd[c].at \in Working
      <3>0. cmd[d].at \notin Working /\ cmd'[d] = cmd[d]
        BY <1>0, <2>2, <2>4
      <3>1. CommandKnows(d)'
        BY <2>0, <3>0 DEF CommandInv, CommandKnows, Alive, Working, Passed, Looking, Closing
      <3>2. JournalAt(d)'
        BY <2>0, <3>0 DEF CommandInv, JournalAt, Working, Looking, Closing
      <3>3. Journaled(d)'
        <4>1. CASE cmd[c].at \in Passed
          BY <2>0, <4>1 DEF CommandInv, CommandKnows, Journaled
        <4>2. CASE UNCHANGED attempt
          BY <2>0, <4>2 DEF CommandInv, Journaled, Task, Steps
        <4> QED BY <4>1, <4>2
      <3> QED BY <2>1, <3>1, <3>2, <3>3 DEF CommandInv
    <2> QED BY <2>3, <2>4
  <1> QED BY <1>1, <1>2 DEF ServiceInv

LEMMA SameSteps == manager' = manager => \A a : Steps(a)' = Steps(a)
  BY DEF Steps

\* The command goes on; the journal and the helpers stay.
LEMMA MoveKeeps ==
  ASSUME ServiceInv, NEW c \in Commands, NEW k \in CommandStates,
         cmd' = [cmd EXCEPT ![c] = k], k.step <= Len(Steps(k.action)),
         UNCHANGED <<manager, native, op, attempt, helpers>>,
         lock' \in Commands \cup {None}, \A d \in Commands \ {c} : lock = d => lock' = d,
         CommandKnows(c)', JournalAt(c)'
  PROVE  ServiceInv'
  <1>1. CommandInv(c)
    BY ServiceFacts
  <1>2. HelperKnows(c)' /\ Journaled(c)'
    BY <1>1 DEF CommandInv, HelperKnows, StepsOf, Journaled, Task, Steps, helpers
  <1>3. JournalFits'
    BY SameSteps DEF ServiceInv, JournalFits
  <1>4. UNCHANGED <<helper, task, told, doomed, helperLock>>
    BY DEF helpers
  <1> QED BY <1>2, <1>3, <1>4, CommandStep DEF CommandInv, ServiceInv, TypeOK

\* The command ends, perhaps with a last snapshot.
LEMMA EndKeeps ==
  ASSUME ServiceInv, NEW c \in Commands, NEW p \in Finished \ {"refused"}, End(c, p),
         UNCHANGED <<manager, native, op, helpers>>,
         UNCHANGED attempt \/ cmd[c].at \in Passed,
         attempt' \in [last : Journals \cup {None}, torn : BOOLEAN, lost : BOOLEAN],
         JournalFits', Journaled(c)'
  PROVE  ServiceInv'
  <1> DEFINE k == [NewCommand(op[c]) EXCEPT !.at = p]
  <1>1. /\ k \in CommandStates /\ k.at = p /\ k.step <= Len(Steps(k.action))
    <2>1. manager \in Managers /\ op[c] \in Ops /\ p \in Places
      BY ServiceFacts DEF Finished, Places
    <2> QED BY <2>1, NewCommandTyped
  <1>2. /\ cmd' = [cmd EXCEPT ![c] = k] /\ lock' \in Commands \cup {None}
        /\ \A d \in Commands \ {c} : lock = d => lock' = d
    BY DEF End, ServiceInv, TypeOK
  <1> HIDE DEF k
  <1>3. cmd'[c] = k
    BY <1>2, ServiceFacts
  <1>4. HelperKnows(c)'
    BY ServiceFacts DEF CommandInv, HelperKnows, StepsOf, helpers
  <1>5. CommandKnows(c)' /\ JournalAt(c)'
    BY <1>1, <1>3 DEF CommandKnows, JournalAt, Finished, Working, Passed, Looking, Closing
  <1>6. UNCHANGED <<helper, task, told, doomed, helperLock>>
        /\ (cmd[c].at \in Working \/ UNCHANGED <<attempt, helper, task, told, doomed>>)
    BY DEF helpers, Passed
  <1> QED BY <1>1, <1>2, <1>4, <1>5, <1>6, CommandStep DEF CommandInv, ServiceInv, TypeOK

LEMMA EndOnlyKeeps ==
  ASSUME ServiceInv, NEW c \in Commands, NEW p \in Finished \ {"refused"}, End(c, p),
         UNCHANGED <<manager, native, op, attempt, helpers>>
  PROVE  ServiceInv'
  <1>1. JournalFits' /\ Journaled(c)'
    BY SameSteps, ServiceFacts
       DEF ServiceInv, JournalFits, CommandInv, Journaled, Task, Steps, helpers
  <1> QED BY <1>1, EndKeeps DEF ServiceInv, TypeOK

\* A snapshot is written.
LEMMA WriteFacts ==
  ASSUME ServiceInv, NEW j \in Journals, j.step <= Len(Steps(j.action)), WriteAttempt(j),
         manager' = manager
  PROVE  /\ attempt' \in [last : Journals \cup {None}, torn : BOOLEAN, lost : BOOLEAN]
         /\ JournalFits' /\ attempt'.last = j /\ attempt'.last # None
  <1>1. /\ attempt' = [last |-> j, torn |-> FALSE, lost |-> attempt.lost] /\ ~attempt.lost
        /\ attempt.lost \in BOOLEAN
    BY DEF WriteAttempt, ServiceInv, TypeOK, JournalFits
  <1>2. /\ attempt' \in [last : Journals \cup {None}, torn : BOOLEAN, lost : BOOLEAN]
        /\ attempt'.last = j /\ ~attempt'.lost
    BY <1>1
  <1> QED BY <1>2, SameSteps, JournalsAssumption DEF JournalFits

LEMMA RemoveFacts ==
  ASSUME ServiceInv, RemoveAttempt
  PROVE  /\ attempt' \in [last : Journals \cup {None}, torn : BOOLEAN, lost : BOOLEAN]
         /\ JournalFits' /\ attempt'.last = None
  BY DEF RemoveAttempt, ServiceInv, TypeOK, JournalFits

\* The command writes a snapshot, or removes the journal, while none of its
\* helpers is at work on it, and goes on.
LEMMA WriteKeeps ==
  ASSUME ServiceInv, NEW c \in Commands, cmd[c].at \in Passed, NEW k \in CommandStates,
         cmd' = [cmd EXCEPT ![c] = k], k.step <= Len(Steps(k.action)),
         UNCHANGED <<manager, native, op, lock, helperLock, helper, task, doomed>>,
         told' \in [Commands -> {"nothing", "prepare", "authorize"}],
         \A d \in Commands \ {c} : told'[d] = told[d],
         told'[c] = "authorize" => helper[c] \notin {"born", "checked"},
         attempt' \in [last : Journals \cup {None}, torn : BOOLEAN, lost : BOOLEAN],
         JournalFits', helper[c] \notin {"look", "act"} \/ UNCHANGED attempt,
         CommandKnows(c)', JournalAt(c)'
  PROVE  ServiceInv'
  <1>0. HelperKnows(c) /\ Journaled(c)
    BY ServiceFacts DEF CommandInv
  <1>1. HelperKnows(c)' /\ Journaled(c)'
    <2>1. HelperKnows(c)'
      BY <1>0 DEF HelperKnows, StepsOf
    <2>2. Journaled(c)'
      BY <1>0 DEF Journaled, Task, Steps
    <2> QED BY <2>1, <2>2
  <1>2. /\ lock' \in Commands \cup {None} /\ helper' \in [Commands -> HelperPlaces]
        /\ doomed' \subseteq Commands /\ cmd[c].at \in Working
        /\ \A d \in Commands \ {c} : helper'[d] = helper[d]
    BY DEF ServiceInv, TypeOK, Passed
  <1> QED BY <1>1, <1>2, CommandStep DEF CommandInv

\* Fields of a command after a step.
LEMMA GotoFacts ==
  ASSUME ServiceInv, NEW c \in Commands, NEW p \in Places
  PROVE  LET k == [cmd[c] EXCEPT !.at = p] IN
         /\ k \in CommandStates /\ k.at = p /\ k.aim = cmd[c].aim /\ k.action = cmd[c].action
         /\ k.step = cmd[c].step /\ k.want = cmd[c].want /\ k.seen = cmd[c].seen
         /\ k.failing = cmd[c].failing /\ k.step <= Len(Steps(k.action))
         /\ Goto(c, p) => cmd' = [cmd EXCEPT ![c] = k] /\ cmd'[c] = k
  <1> DEFINE k == [cmd[c] EXCEPT !.at = p]
  <1>1. /\ k \in CommandStates /\ k.at = p /\ k.aim = cmd[c].aim /\ k.action = cmd[c].action
        /\ k.step = cmd[c].step /\ k.want = cmd[c].want /\ k.seen = cmd[c].seen
        /\ k.failing = cmd[c].failing
    BY ServiceFacts DEF CommandStates
  <1>2. k.step <= Len(Steps(k.action))
    BY <1>1, ServiceFacts
  <1>3. Goto(c, p) => cmd' = [cmd EXCEPT ![c] = k] /\ cmd'[c] = k
    BY ServiceFacts DEF Goto
  <1> QED BY <1>1, <1>2, <1>3

LEMMA LookFacts ==
  ASSUME ServiceInv, NEW c \in Commands, NEW a \in Aims
  PROVE  LET k == [cmd[c] EXCEPT !.at = "look", !.aim = a, !.seen = Blank] IN
         /\ k \in CommandStates /\ k.at = "look" /\ k.aim = a /\ k.action = cmd[c].action
         /\ k.step = cmd[c].step /\ k.want = cmd[c].want
         /\ k.failing = cmd[c].failing /\ k.step <= Len(Steps(k.action))
         /\ Look(c, a) => cmd' = [cmd EXCEPT ![c] = k] /\ cmd'[c] = k
  <1> DEFINE k == [cmd[c] EXCEPT !.at = "look", !.aim = a, !.seen = Blank]
  <1>0. Blank \in Observations
    BY ObservationsTyped, ServiceFacts
  <1>1. /\ k \in CommandStates /\ k.at = "look" /\ k.aim = a /\ k.action = cmd[c].action
        /\ k.step = cmd[c].step /\ k.want = cmd[c].want
        /\ k.failing = cmd[c].failing
    BY <1>0, ServiceFacts DEF CommandStates, Places
  <1>2. k.step <= Len(Steps(k.action))
    BY <1>1, ServiceFacts
  <1>3. Look(c, a) => cmd' = [cmd EXCEPT ![c] = k] /\ cmd'[c] = k
    BY ServiceFacts DEF Look
  <1> QED BY <1>1, <1>2, <1>3

LEMMA AcquireKeeps ==
  ASSUME ServiceInv, NEW c \in Commands, AcquireLock(c) \/ PassHelperLock(c)
  PROVE  ServiceInv'
  <1>0. CommandInv(c) /\ UNCHANGED <<manager, native, op, attempt, helpers>>
    BY ServiceFacts DEF AcquireLock, PassHelperLock
  <1>h. UNCHANGED <<helperLock, helper, task, told, doomed>>
    BY <1>0 DEF helpers
  <1>1. CASE AcquireLock(c)
    <2> DEFINE k == [cmd[c] EXCEPT !.at = "locked"]
    <2>1. cmd[c].at = "idle" /\ lock = None /\ lock' = c /\ Goto(c, "locked")
      BY <1>1 DEF AcquireLock
    <2>2. /\ k \in CommandStates /\ k.at = "locked" /\ k.step = cmd[c].step
          /\ k.step <= Len(Steps(k.action)) /\ cmd' = [cmd EXCEPT ![c] = k] /\ cmd'[c] = k
      <3>1. "locked" \in Places
        BY DEF Places
      <3> QED BY <2>1, <3>1, GotoFacts
    <2> HIDE DEF k
    <2>3. CommandKnows(c)' /\ JournalAt(c)'
      BY <1>0, <1>h, <2>1, <2>2
         DEF CommandInv, CommandKnows, JournalAt, Passed, Looking, Closing
    <2> QED BY <1>0, <2>1, <2>2, <2>3, MoveKeeps, CommandsAssumption
  <1>2. CASE PassHelperLock(c)
    <2> DEFINE k == [cmd[c] EXCEPT !.at = "look", !.aim = "preflight", !.seen = Blank]
    <2>1. cmd[c].at = "locked" /\ lock' = lock /\ helperLock = None /\ Look(c, "preflight")
      BY <1>2 DEF PassHelperLock
    <2>2. /\ k \in CommandStates /\ k.at = "look" /\ k.aim = "preflight"
          /\ k.step = cmd[c].step
          /\ k.step <= Len(Steps(k.action)) /\ cmd' = [cmd EXCEPT ![c] = k] /\ cmd'[c] = k
      BY ZenonT(40), <2>1, LookFacts DEF Aims
    <2> HIDE DEF k
    <2>3. \A d \in Commands : helper[d] \notin {"ready", "look", "act"}
      BY <2>1, CommandsAssumption DEF ServiceInv, CommandInv, HelperKnows
    <2>4. CommandKnows(c)' /\ JournalAt(c)'
      BY <1>0, <1>h, <2>1, <2>2, <2>3
         DEF CommandInv, CommandKnows, JournalAt, Working, Passed, Looking, Closing, Alive
    <2>5. lock' \in Commands \cup {None}
      BY <2>1 DEF ServiceInv, TypeOK
    <2> QED BY <1>0, <2>1, <2>2, <2>4, <2>5, MoveKeeps
  <1> QED BY <1>1, <1>2

LEMMA LookKeeps ==
  ASSUME ServiceInv, NEW c \in Commands, Expire(c) \/ LookManager(c) \/ LookCore(c)
  PROVE  ServiceInv'
  <1>0. /\ CommandInv(c) /\ UNCHANGED <<manager, native, op, attempt, helpers>>
        /\ cmd[c] \in CommandStates /\ lock \in Commands \cup {None}
    BY ServiceFacts DEF Expire, LookManager, LookCore, ServiceInv, TypeOK
  <1>h. UNCHANGED <<helperLock, helper, task, told, doomed>>
    BY <1>0 DEF helpers
  <1>1. CASE End(c, "failed")
    BY <1>0, <1>1, EndOnlyKeeps DEF Finished
  <1>2. ASSUME NEW p \in {"look2", "judge"}, NEW o \in Observations, lock' = lock,
               cmd[c].at \in {"look", "look2"},
               cmd' = [cmd EXCEPT ![c].at = p, ![c].seen = o]
        PROVE  ServiceInv'
    <2> DEFINE k == [cmd[c] EXCEPT !.at = p, !.seen = o]
    <2>1. /\ k \in CommandStates /\ k.at = p /\ k.aim = cmd[c].aim /\ k.step = cmd[c].step
          /\ k.action = cmd[c].action /\ k.want = cmd[c].want
          /\ cmd' = [cmd EXCEPT ![c] = k] /\ cmd'[c] = k
      BY <1>0, <1>2, ServiceFacts DEF CommandStates, Places
    <2>2. k.step <= Len(Steps(k.action))
      BY <2>1, ServiceFacts
    <2> HIDE DEF k
    <2>3. CommandKnows(c)'
      BY <1>0, <1>h, <1>2, <2>1
         DEF CommandInv, CommandKnows, Working, Passed, Looking, Closing, Alive
    <2>4. JournalAt(c)'
      BY <1>0, <1>2, <2>1, SameSteps
         DEF CommandInv, JournalAt, Mine, Looking, Closing
    <2> QED BY <1>0, <1>2, <2>1, <2>2, <2>3, <2>4, MoveKeeps
  <1>3. CASE LookManager(c)
    BY <1>2, <1>3, ObservationsTyped, ServiceFacts DEF LookManager
  <1>4. CASE LookCore(c)
    <2>1. SeeRest(cmd[c].seen, native) \in Observations
      BY <1>0, ObservationsTyped, ServiceFacts DEF CommandStates
    <2> QED BY <1>1, <1>2, <1>4, <2>1 DEF LookCore
  <1> QED BY <1>1, <1>3, <1>4 DEF Expire

LEMMA ReconcileKeeps ==
  ASSUME ServiceInv, NEW c \in Commands, Reconcile(c)
  PROVE  ServiceInv'
  <1>0. /\ CommandInv(c) /\ UNCHANGED <<manager, native, op, helpers>>
        /\ cmd[c] \in CommandStates /\ lock \in Commands \cup {None} /\ cmd[c].at = "judge"
        /\ cmd[c].aim = "preflight" /\ attempt.last \in Journals \cup {None}
    BY ServiceFacts DEF Reconcile, ServiceInv, TypeOK
  <1>h. /\ UNCHANGED <<helperLock, helper, task, told, doomed>>
        /\ helper[c] \notin {"look", "act"} /\ cmd[c].at \in Passed
        /\ told \in [Commands -> {"nothing", "prepare", "authorize"}]
        /\ attempt \in [last : Journals \cup {None}, torn : BOOLEAN, lost : BOOLEAN]
        /\ told[c] = "authorize" => helper[c] \notin {"born", "checked"}
    BY <1>0 DEF helpers, CommandInv, CommandKnows, HelperKnows, Alive, Looking, Passed,
           Working, ServiceInv, TypeOK
  <1>f. JournalFits /\ (attempt' = attempt => JournalFits')
    BY <1>0, SameSteps DEF ServiceInv, JournalFits
  <1>1. CASE End(c, "failed") /\ UNCHANGED attempt
    BY <1>0, <1>1, EndOnlyKeeps DEF Finished
  <1>2. ASSUME NEW p \in {"decide", "close"}, Goto(c, p), lock' = lock,
               attempt' \in [last : Journals \cup {None}, torn : BOOLEAN, lost : BOOLEAN],
               JournalFits', p = "decide" => attempt'.last = None,
               p = "close" => \/ attempt'.last = None
                              \/ attempt'.last.status \in
                                   {"Authorized", "ObservedComplete", "OutcomeUnknown"}
        PROVE  ServiceInv'
    <2> DEFINE k == [cmd[c] EXCEPT !.at = p]
    <2>1. /\ k \in CommandStates /\ k.at = p /\ k.aim = cmd[c].aim /\ k.step = cmd[c].step
          /\ k.action = cmd[c].action /\ k.want = cmd[c].want
          /\ k.step <= Len(Steps(k.action))
          /\ cmd' = [cmd EXCEPT ![c] = k] /\ cmd'[c] = k
      <3>1. p \in Places
        BY DEF Places
      <3> QED BY <1>2, <3>1, GotoFacts
    <2> HIDE DEF k
    <2>3. CommandKnows(c)'
      BY <1>0, <1>h, <1>2, <2>1
         DEF CommandInv, CommandKnows, Working, Passed, Looking, Closing, Alive
    <2>4. JournalAt(c)'
      BY <1>0, <1>2, <2>1 DEF CommandInv, JournalAt, Looking, Closing
    <2> QED BY <1>0, <1>h, <1>2, <2>1, <2>3, <2>4, WriteKeeps
  <1>3. CASE attempt.last = None /\ Goto(c, "decide") /\ UNCHANGED <<lock, attempt>>
    BY <1>2, <1>3, <1>f, <1>h
  <1>4. CASE RemoveAttempt /\ Goto(c, "decide") /\ UNCHANGED lock
    BY <1>2, <1>4, RemoveFacts
  <1>5. CASE /\ attempt.last # None /\ attempt.last.status \notin {"Prepared", "Reconciled"}
             /\ Goto(c, "close") /\ UNCHANGED <<lock, attempt>>
    <2>1. attempt.last.status \in Statuses
      BY <1>0, <1>5 DEF Journals
    <2> QED BY <1>2, <1>5, <1>f, <1>h, <2>1 DEF Statuses
  <1>6. CASE /\ attempt.last # None
             /\ WriteAttempt([attempt.last EXCEPT !.status = "OutcomeUnknown"])
             /\ End(c, "failed")
    <2> DEFINE j == [attempt.last EXCEPT !.status = "OutcomeUnknown"]
    <2>1. /\ j \in Journals /\ j.step = attempt.last.step /\ j.action = attempt.last.action
      BY <1>0, <1>6 DEF Journals, Statuses
    <2>2. j.step <= Len(Steps(j.action))
      BY <2>1, <1>6, ServiceFacts
    <2> HIDE DEF j
    <2>3. /\ attempt' \in [last : Journals \cup {None}, torn : BOOLEAN, lost : BOOLEAN]
          /\ JournalFits'
      BY <1>0, <1>6, <2>1, <2>2, WriteFacts DEF j
    <2>4. Journaled(c)'
      BY <1>h DEF Journaled
    <2> QED BY <1>0, <1>6, <1>h, <2>3, <2>4, EndKeeps DEF Finished
  <1> QED BY <1>0, <1>1, <1>3, <1>4, <1>5, <1>6 DEF Reconcile

LEMMA DecideKeeps ==
  ASSUME ServiceInv, NEW c \in Commands, Decide(c)
  PROVE  ServiceInv'
  <1>0. /\ CommandInv(c) /\ UNCHANGED <<manager, native, op, attempt, helpers>>
        /\ cmd[c] \in CommandStates /\ lock \in Commands \cup {None} /\ cmd[c].at = "decide"
        /\ attempt.last = None /\ cmd[c].step = 1 /\ op[c] \in Ops /\ manager \in Managers
    BY ServiceFacts DEF Decide, ServiceInv, TypeOK, CommandInv, JournalAt
  <1>h. UNCHANGED <<helperLock, helper, task, told, doomed>>
    BY <1>0 DEF helpers
  <1>1. CASE End(c, "failed") \/ End(c, "noop")
    BY <1>0, <1>1, EndOnlyKeeps DEF Finished
  <1>2. CASE ~(End(c, "failed") \/ End(c, "noop"))
    <2> DEFINE o == cmd[c].seen
               d == IF op[c] = "install" THEN "ours" ELSE o.unit
               a == IF op[c] = "uninstall" /\ ~Down(o) THEN "Stop" ELSE First(op[c])
               p == IF op[c] = "start" /\ o.state = "Starting" THEN "look" ELSE "mutate"
               m == IF op[c] = "start" /\ o.state = "Starting" THEN "ready" ELSE "preflight"
               k == [cmd[c] EXCEPT !.seen = Blank, !.want = d, !.action = a, !.at = p,
                                   !.aim = m]
    <2>1. /\ ~Refuses(o, c) /\ ~Satisfied(o, c) /\ lock' = lock
          /\ cmd' = [cmd EXCEPT ![c].seen = Blank, ![c].want = d, ![c].action = a,
                 ![c].at = IF op[c] = "start" /\ o.state = "Starting"
                             THEN "look" ELSE "mutate",
                 ![c].aim = IF op[c] = "start" /\ o.state = "Starting"
                             THEN "ready" ELSE "preflight"]
      BY <1>2 DEF Decide
    <2>2. d \in {"ours", "other"}
      <3>1. o.unit \in {"none", "ours", "other"}
        BY <1>0 DEF CommandStates, Observations
      <3>2. op[c] # "install" => o.unit # "none"
        BY <1>0, <2>1 DEF Refuses, Satisfied, Ops
      <3> QED BY <3>1, <3>2
    <2>3. a \in Actions /\ p \in Places /\ m \in Aims /\ Blank \in Observations
      <3>1. First(op[c]) \in Actions
        BY <1>0 DEF First, Ops, Actions
      <3>2. Blank \in Observations
        BY ObservationsTyped, ServiceFacts
      <3> QED BY <3>1, <3>2 DEF Actions, Places, Aims
    <2>4. (p = "look" /\ m = "ready") \/ (p = "mutate" /\ m = "preflight")
      OBVIOUS
    <2> HIDE DEF d, a, p, m
    <2>5. /\ k \in CommandStates /\ k.at = p /\ k.aim = m /\ k.step = 1 /\ k.action = a
      BY <1>0, <2>2, <2>3 DEF CommandStates
    <2>6. k.step <= Len(Steps(k.action))
      <3>1. manager \in Managers
        BY <1>0
      <3>2. \A b \in Actions : 1 <= Len(Steps(b))
        BY <3>1, StepsFacts
      <3> QED BY <2>3, <2>5, <3>2
    <2>7. cmd' = [cmd EXCEPT ![c] = k]
      BY <2>1, ServiceFacts DEF p, m
    <2> HIDE DEF k
    <2>8. cmd'[c] = k
      BY <2>7, ServiceFacts
    <2>9. CommandKnows(c)'
      BY <1>0, <1>h, <2>1, <2>4, <2>5, <2>8
         DEF CommandInv, CommandKnows, Working, Passed, Looking, Closing, Alive
    <2>10. JournalAt(c)'
      BY <1>0, <2>4, <2>5, <2>8 DEF JournalAt, Looking, Closing
    <2> QED BY <1>0, <2>1, <2>5, <2>6, <2>7, <2>9, <2>10, MoveKeeps
  <1> QED BY <1>1, <1>2

\* A snapshot the journal accepts, and the command goes on.
LEMMA RecordKeeps ==
  ASSUME ServiceInv, NEW c \in Commands, cmd[c].at \in Passed, NEW p \in Places,
         NEW j \in Journals, j.step <= Len(Steps(j.action)), Accepted(j), Record(c, j, p),
         UNCHANGED <<manager, native, op, helperLock, helper, task, doomed>>,
         told' \in [Commands -> {"nothing", "prepare", "authorize"}],
         \A d \in Commands \ {c} : told'[d] = told[d],
         told'[c] = "authorize" => helper[c] \notin {"born", "checked"},
         helper[c] \notin {"look", "act"},
         /\ lock' = lock /\ attempt'.last = j /\ attempt'.last # None /\ cmd'[c].at = p
         /\ cmd'[c].aim = cmd[c].aim /\ cmd'[c].action = cmd[c].action
         /\ cmd'[c].step = cmd[c].step /\ cmd'[c].want = cmd[c].want
         /\ cmd'[c].failing = cmd[c].failing
         => CommandKnows(c)' /\ JournalAt(c)'
  PROVE  ServiceInv'
  <1> DEFINE k == [cmd[c] EXCEPT !.at = p]
  <1>1. WriteAttempt(j) /\ Goto(c, p) /\ lock' = lock
    BY DEF Record
  <1>2. /\ k \in CommandStates /\ k.at = p /\ k.aim = cmd[c].aim /\ k.step = cmd[c].step
        /\ k.action = cmd[c].action /\ k.want = cmd[c].want /\ k.failing = cmd[c].failing
        /\ k.step <= Len(Steps(k.action))
        /\ cmd' = [cmd EXCEPT ![c] = k] /\ cmd'[c] = k
    BY <1>1, GotoFacts
  <1> HIDE DEF k
  <1>3. /\ attempt' \in [last : Journals \cup {None}, torn : BOOLEAN, lost : BOOLEAN]
        /\ JournalFits' /\ attempt'.last = j /\ attempt'.last # None
    BY <1>1, WriteFacts
  <1>4. CommandKnows(c)' /\ JournalAt(c)'
    BY <1>1, <1>2, <1>3
  <1> QED BY <1>1, <1>2, <1>3, <1>4, WriteKeeps

\* A command at work, its journal and its helper.
LEMMA WorkFacts ==
  ASSUME ServiceInv, NEW c \in Commands, cmd[c].at \in Passed
  PROVE  /\ CommandInv(c) /\ HelperKnows(c) /\ CommandKnows(c) /\ JournalAt(c) /\ Journaled(c)
         /\ lock = c /\ lock \in Commands \cup {None}
         /\ helper \in [Commands -> HelperPlaces]
         /\ told \in [Commands -> {"nothing", "prepare", "authorize"}]
         /\ doomed \subseteq Commands /\ task \in [Commands -> Tasks \cup {None}]
         /\ told[c] = "authorize" => helper[c] \notin {"born", "checked"}
  BY ServiceFacts DEF ServiceInv, TypeOK, CommandInv, HelperKnows, CommandKnows, Passed

LEMMA WritePreparedKeeps ==
  ASSUME ServiceInv, NEW c \in Commands, WritePrepared(c)
  PROVE  ServiceInv'
  <1> DEFINE j == [id |-> c, action |-> cmd[c].action, step |-> cmd[c].step,
                   expected |-> cmd[c].want, pid |-> FALSE, status |-> "Prepared",
                   observed |-> FALSE]
  <1>1. cmd[c].at = "mutate" /\ cmd[c].at \in Passed
    BY DEF WritePrepared, Passed, Working
  <1>2. /\ Record(c, j, "spawn") /\ UNCHANGED <<manager, native, op, helperLock, helper, task,
                                                told, doomed>>
    BY DEF WritePrepared, helpers
  <1>3. /\ j \in Journals /\ j.id = c /\ j.action = cmd[c].action /\ j.step = cmd[c].step
        /\ j.expected = cmd[c].want /\ ~j.pid /\ j.status = "Prepared"
    BY ServiceFacts DEF Journals, CommandStates, Statuses
  <1>4. j.step <= Len(Steps(j.action))
    BY <1>3, ServiceFacts
  <1> HIDE DEF j
  <1>5. Accepted(j)
    BY <1>1, <1>3, WorkFacts DEF JournalAt, Accepted, ValidSnapshot, ValidNextStep
  <1>6. "spawn" \in Places
    BY DEF Places
  <1>7. helper[c] \notin {"look", "act"}
    BY <1>1, WorkFacts DEF CommandKnows, Alive
  <1>8. ASSUME lock' = lock, attempt'.last = j, attempt'.last # None, cmd'[c].at = "spawn",
               cmd'[c].action = cmd[c].action,
               cmd'[c].step = cmd[c].step, cmd'[c].want = cmd[c].want
        PROVE  CommandKnows(c)' /\ JournalAt(c)'
    <2>1. CommandKnows(c)'
      BY <1>1, <1>2, <1>8, WorkFacts
         DEF CommandKnows, Alive, Working, Passed, Looking, Closing
    <2>2. JournalAt(c)'
      BY <1>3, <1>8 DEF JournalAt, Mine, Looking, Closing
    <2> QED BY <2>1, <2>2
  <1> QED BY <1>1, <1>2, <1>3, <1>4, <1>5, <1>6, <1>7, <1>8, WorkFacts, RecordKeeps

LEMMA SpawnKeeps ==
  ASSUME ServiceInv, NEW c \in Commands, SpawnHelper(c)
  PROVE  ServiceInv'
  <1> DEFINE k == [cmd[c] EXCEPT !.at = "own"]
  <1>1. /\ cmd[c].at = "spawn" /\ cmd[c].at \in Passed /\ cmd[c].at \in Working
        /\ Goto(c, "own") /\ helper' = [helper EXCEPT ![c] = "born"]
        /\ told' = [told EXCEPT ![c] = "nothing"] /\ doomed' = doomed \ {c}
        /\ UNCHANGED <<manager, native, op, lock, attempt, helperLock, task>>
    BY DEF SpawnHelper, Passed, Working
  <1>p. "own" \in Places
    BY DEF Places
  <1>2. /\ k \in CommandStates /\ k.at = "own" /\ k.aim = cmd[c].aim /\ k.step = cmd[c].step
        /\ k.action = cmd[c].action /\ k.want = cmd[c].want /\ k.failing = cmd[c].failing
        /\ k.step <= Len(Steps(k.action))
        /\ cmd' = [cmd EXCEPT ![c] = k] /\ cmd'[c] = k
    BY <1>1, <1>p, GotoFacts
  <1> HIDE DEF k
  <1>3. /\ helper' \in [Commands -> HelperPlaces] /\ helper'[c] = "born"
        /\ told' \in [Commands -> {"nothing", "prepare", "authorize"}] /\ told'[c] = "nothing"
        /\ \A d \in Commands \ {c} : helper'[d] = helper[d] /\ told'[d] = told[d]
        /\ doomed' \subseteq Commands
    BY <1>1, WorkFacts DEF HelperPlaces
  <1>4. HelperKnows(c)' /\ Journaled(c)'
    BY <1>1, <1>3, WorkFacts DEF HelperKnows, StepsOf, Journaled
  <1>5. CommandKnows(c)'
    BY <1>1, <1>2, <1>3, WorkFacts DEF CommandKnows, Alive, Working, Passed, Looking, Closing
  <1>6. JournalAt(c)'
    BY <1>1, <1>2, WorkFacts DEF JournalAt, Mine, Looking, Closing
  <1>7. JournalFits' /\ lock' \in Commands \cup {None}
        /\ attempt' \in [last : Journals \cup {None}, torn : BOOLEAN, lost : BOOLEAN]
    BY <1>1, SameSteps, WorkFacts DEF JournalFits, ServiceInv, TypeOK
  <1> QED BY <1>1, <1>2, <1>3, <1>4, <1>5, <1>6, <1>7, CommandStep DEF CommandInv

LEMMA OwnKeeps ==
  ASSUME ServiceInv, NEW c \in Commands, OwnHelper(c) \/ Authorize(c)
  PROVE  ServiceInv'
  <1>1. /\ cmd[c].at \in {"own", "authorize"} /\ cmd[c].at \in Passed
        /\ UNCHANGED <<manager, native, op, helperLock, helper, task, doomed>>
    BY DEF OwnHelper, Authorize, Passed, Working, helpers
  <1>2. /\ Mine(c) /\ attempt.last.status = "Prepared" /\ attempt.last \in Journals
        /\ cmd[c].at = "authorize" => attempt.last.pid
    BY <1>1, WorkFacts, ServiceFacts DEF JournalAt, Mine
  <1>3. helper[c] \notin {"look", "act"}
    BY <1>1, <1>2, WorkFacts DEF Journaled
  <1>4. CASE OwnHelper(c)
    <2> DEFINE j == [attempt.last EXCEPT !.pid = TRUE]
    <2>1. /\ cmd[c].at = "own" /\ Record(c, j, "owned") /\ "owned" \in Places
          /\ told' = [told EXCEPT ![c] = "prepare"]
      BY <1>4 DEF OwnHelper, Places
    <2>2. /\ j \in Journals /\ j.pid /\ j.id = attempt.last.id /\ j.status = "Prepared"
          /\ j.action = attempt.last.action /\ j.step = attempt.last.step
          /\ j.expected = attempt.last.expected
      BY <1>2 DEF Journals
    <2> HIDE DEF j
    <2>3. j.step <= Len(Steps(j.action))
      BY <1>2, <2>2, ServiceFacts DEF Mine
    <2>4. Accepted(j)
      BY <1>2, <2>2 DEF Accepted, ValidSnapshot, ValidTransition
    <2>5. /\ told' \in [Commands -> {"nothing", "prepare", "authorize"}]
          /\ told'[c] = "prepare" /\ \A d \in Commands \ {c} : told'[d] = told[d]
      BY <1>1, <2>1, WorkFacts
    <2>6. ASSUME lock' = lock, attempt'.last = j, attempt'.last # None, cmd'[c].at = "owned",
                 cmd'[c].action = cmd[c].action,
                 cmd'[c].step = cmd[c].step, cmd'[c].want = cmd[c].want
          PROVE  CommandKnows(c)' /\ JournalAt(c)'
      <3>1. CommandKnows(c)'
        BY <1>1, <2>1, <2>5, <2>6, WorkFacts
           DEF CommandKnows, Alive, Working, Passed, Looking, Closing
      <3>2. JournalAt(c)'
        BY <1>2, <2>2, <2>6 DEF JournalAt, Mine, Looking, Closing
      <3> QED BY <3>1, <3>2
    <2> QED BY <1>1, <1>3, <2>1, <2>2, <2>3, <2>4, <2>5, <2>6, RecordKeeps
  <1>5. CASE Authorize(c)
    <2> DEFINE j == [attempt.last EXCEPT !.status = "Authorized"]
    <2>1. /\ cmd[c].at = "authorize" /\ Record(c, j, "send") /\ "send" \in Places
          /\ told' = told
      BY <1>5 DEF Authorize, Places, helpers
    <2>2. /\ j \in Journals /\ j.pid /\ j.id = attempt.last.id /\ j.status = "Authorized"
          /\ j.action = attempt.last.action /\ j.step = attempt.last.step
          /\ j.expected = attempt.last.expected
      BY <1>2, <2>1 DEF Journals, Statuses
    <2> HIDE DEF j
    <2>3. j.step <= Len(Steps(j.action))
      BY <1>2, <2>2, ServiceFacts DEF Mine
    <2>4. Accepted(j)
      BY <1>2, <2>2 DEF Accepted, ValidSnapshot, ValidTransition
    <2>5. /\ told' \in [Commands -> {"nothing", "prepare", "authorize"}]
          /\ told'[c] = "authorize" => helper[c] \notin {"born", "checked"}
      BY <1>1, <2>1, WorkFacts
    <2>6. ASSUME lock' = lock, attempt'.last = j, attempt'.last # None, cmd'[c].at = "send",
                 cmd'[c].action = cmd[c].action,
                 cmd'[c].step = cmd[c].step, cmd'[c].want = cmd[c].want
          PROVE  CommandKnows(c)' /\ JournalAt(c)'
      <3>1. CommandKnows(c)'
        BY <1>1, <2>1, <2>6, WorkFacts
           DEF CommandKnows, Alive, Working, Passed, Looking, Closing
      <3>2. JournalAt(c)'
        BY <1>2, <2>2, <2>6 DEF JournalAt, Mine, Looking, Closing
      <3> QED BY <3>1, <3>2
    <2> QED BY <1>1, <1>3, <2>1, <2>2, <2>3, <2>4, <2>5, <2>6, RecordKeeps
  <1> QED BY <1>4, <1>5

LEMMA TellKeeps ==
  ASSUME ServiceInv, NEW c \in Commands,
         HearReady(c) \/ SendAuthorize(c) \/ HearDone(c) \/ Abort(c)
  PROVE  ServiceInv'
  <1>1. /\ cmd[c].at \in {"own", "owned", "authorize", "send", "await"}
        /\ cmd[c].at \in Passed /\ cmd[c] \in CommandStates
        /\ UNCHANGED <<manager, native, op, lock, attempt, helperLock, helper, task>>
    BY ServiceFacts DEF HearReady, SendAuthorize, HearDone, Abort, Passed, Working, helpers
  <1>2. /\ attempt' \in [last : Journals \cup {None}, torn : BOOLEAN, lost : BOOLEAN]
        /\ JournalFits'
    BY <1>1, SameSteps DEF ServiceInv, TypeOK, JournalFits
  <1>3. ASSUME NEW p \in Places, Goto(c, p), doomed' = doomed, told' = told,
               \/ p = "authorize" /\ cmd[c].at = "owned" /\ helper[c] = "ready"
               \/ p = "reap" /\ cmd[c].at = "await"
        PROVE  ServiceInv'
    <2> DEFINE k == [cmd[c] EXCEPT !.at = p]
    <2>1. /\ k \in CommandStates /\ k.at = p /\ k.step = cmd[c].step
          /\ k.action = cmd[c].action /\ k.want = cmd[c].want
          /\ k.step <= Len(Steps(k.action))
          /\ cmd' = [cmd EXCEPT ![c] = k] /\ cmd'[c] = k
      BY <1>3, GotoFacts
    <2> HIDE DEF k
    <2>2. CommandKnows(c)'
      BY <1>1, <1>3, <2>1, WorkFacts
         DEF CommandKnows, Alive, Working, Passed, Looking, Closing
    <2>3. JournalAt(c)'
      BY <1>1, <1>3, <2>1, WorkFacts DEF JournalAt, Mine, Looking, Closing
    <2> QED BY <1>1, <1>2, <1>3, <2>1, <2>2, <2>3, WorkFacts, WriteKeeps
  <1>4. CASE HearReady(c) \/ HearDone(c)
    <2>1. {"authorize", "reap"} \subseteq Places
      BY DEF Places
    <2> QED BY <1>3, <1>4, <2>1 DEF HearReady, HearDone, helpers
  <1>5. CASE SendAuthorize(c)
    <2> DEFINE k == [cmd[c] EXCEPT !.at = "await"]
    <2>0. cmd[c].at = "send" /\ told' = [told EXCEPT ![c] = "authorize"] /\ doomed' = doomed
          /\ Goto(c, "await") /\ "await" \in Places
      BY <1>5 DEF SendAuthorize, Places
    <2>1. /\ k \in CommandStates /\ k.at = "await" /\ k.step = cmd[c].step
          /\ k.action = cmd[c].action /\ k.want = cmd[c].want
          /\ k.step <= Len(Steps(k.action))
          /\ cmd' = [cmd EXCEPT ![c] = k] /\ cmd'[c] = k
      BY <2>0, GotoFacts
    <2> HIDE DEF k
    <2>2. /\ told' \in [Commands -> {"nothing", "prepare", "authorize"}]
          /\ told'[c] = "authorize" /\ \A d \in Commands \ {c} : told'[d] = told[d]
      BY <1>1, <2>0, WorkFacts
    <2>3. CommandKnows(c)' /\ helper[c] \notin {"born", "checked"}
      BY <1>1, <2>0, <2>1, <2>2, WorkFacts
         DEF CommandKnows, Alive, Working, Passed, Looking, Closing
    <2>4. JournalAt(c)'
      BY <1>1, <2>0, <2>1, WorkFacts DEF JournalAt, Mine, Looking, Closing
    <2> QED BY <1>1, <1>2, <2>0, <2>1, <2>2, <2>3, <2>4, WriteKeeps
  <1>6. CASE Abort(c)
    <2> DEFINE k == [cmd[c] EXCEPT !.at = "reap", !.failing = TRUE]
    <2>1. /\ k \in CommandStates /\ k.at = "reap" /\ k.step = cmd[c].step
          /\ k.action = cmd[c].action /\ k.want = cmd[c].want /\ k.failing
          /\ cmd' = [cmd EXCEPT ![c] = k] /\ cmd'[c] = k
      BY <1>1, <1>6, ServiceFacts DEF Abort, CommandStates, Places
    <2>2. k.step <= Len(Steps(k.action))
      BY <2>1, ServiceFacts
    <2> HIDE DEF k
    <2>3. told' = told /\ doomed' = doomed \cup {c}
      BY <1>6 DEF Abort
    <2>4. CommandKnows(c)'
      BY <1>1, <2>1, <2>3, WorkFacts
         DEF CommandKnows, Alive, Working, Passed, Looking, Closing
    <2>5. JournalAt(c)'
      BY <1>1, <2>1, WorkFacts DEF JournalAt, Mine, Looking, Closing
    <2>6. HelperKnows(c)' /\ Journaled(c)'
      BY <1>1, <2>3, WorkFacts DEF HelperKnows, StepsOf, Journaled, Task, Steps
    <2> QED BY <1>1, <1>2, <2>1, <2>2, <2>3, <2>4, <2>5, <2>6, WorkFacts, CommandStep
            DEF CommandInv, Passed
  <1> QED BY <1>4, <1>5, <1>6

\* A snapshot the journal accepts, and the command ends.
LEMMA WriteAndEnd ==
  ASSUME ServiceInv, NEW c \in Commands, cmd[c].at \in Passed, NEW j \in Journals,
         j.step <= Len(Steps(j.action)), WriteAttempt(j), NEW p \in Finished \ {"refused"},
         End(c, p), UNCHANGED <<manager, native, op, helpers>>,
         helper[c] \in {"look", "act"} =>
           /\ j.id = c /\ j.pid /\ j.status \in {"Authorized", "OutcomeUnknown"}
           /\ j.step = attempt.last.step /\ j.action = attempt.last.action
           /\ j.expected = attempt.last.expected
  PROVE  ServiceInv'
  <1>1. /\ attempt' \in [last : Journals \cup {None}, torn : BOOLEAN, lost : BOOLEAN]
        /\ JournalFits' /\ attempt'.last = j /\ attempt'.last # None
    BY WriteFacts
  <1>2. Journaled(c)'
    <2>1. Journaled(c) /\ helper' = helper /\ task' = task
      BY WorkFacts DEF helpers
    <2> QED BY <1>1, <2>1 DEF Journaled, Task, Steps
  <1> QED BY <1>1, <1>2, EndKeeps

LEMMA ReapKeeps ==
  ASSUME ServiceInv, NEW c \in Commands, ReapHelper(c) \/ RetainHelper(c)
  PROVE  ServiceInv'
  <1>1. /\ cmd[c].at = "reap" /\ cmd[c].at \in Passed /\ cmd[c] \in CommandStates
        /\ UNCHANGED <<manager, native, op, helpers>>
        /\ UNCHANGED <<helperLock, helper, task, told, doomed>>
    BY ServiceFacts DEF ReapHelper, RetainHelper, Passed, Working, helpers
  <1>2. /\ Mine(c) /\ attempt.last \in Journals
        /\ attempt.last.status \in {"Prepared", "Authorized"}
        /\ ~cmd[c].failing => attempt.last.status = "Authorized"
        /\ attempt.last.step <= Len(Steps(attempt.last.action))
    BY <1>1, WorkFacts, ServiceFacts DEF JournalAt, Mine
  <1>3. ASSUME NEW reaped \in BOOLEAN, NEW failing \in BOOLEAN
        PROVE  LET j == AfterHelper(attempt.last, reaped, failing) IN
               /\ j \in Journals /\ j.id = c /\ j.action = attempt.last.action
               /\ j.step = attempt.last.step /\ j.expected = attempt.last.expected
               /\ j.status = IF failing /\ attempt.last.status = "Authorized"
                             THEN "OutcomeUnknown" ELSE attempt.last.status
               /\ ~reaped => j.pid = attempt.last.pid
               /\ j.step <= Len(Steps(j.action)) /\ Accepted(j)
    <2> DEFINE j == AfterHelper(attempt.last, reaped, failing)
    <2>0. (attempt.last.pid /\ ~reaped) \in BOOLEAN /\ attempt.last.pid \in BOOLEAN
      BY <1>2 DEF Journals
    <2>1. /\ j \in Journals /\ j.id = attempt.last.id /\ j.action = attempt.last.action
          /\ j.step = attempt.last.step /\ j.expected = attempt.last.expected
          /\ j.status = IF failing /\ attempt.last.status = "Authorized"
                        THEN "OutcomeUnknown" ELSE attempt.last.status
          /\ j.pid = (attempt.last.pid /\ ~reaped)
      BY <1>2, <2>0 DEF Journals, Statuses, AfterHelper
    <2> HIDE DEF j
    <2>2. Accepted(j)
      BY <1>2, <2>1 DEF Accepted, ValidSnapshot, ValidTransition
    <2>3. j.step <= Len(Steps(j.action))
      BY <1>2, <2>1
    <2>4. ~reaped => j.pid = attempt.last.pid
      BY <2>0, <2>1
    <2> QED BY <1>2, <2>1, <2>2, <2>3, <2>4 DEF Mine, j
  <1>4. CASE RetainHelper(c)
    <2> DEFINE j == AfterHelper(attempt.last, FALSE, TRUE)
    <2>1. /\ j \in Journals /\ j.id = c /\ j.action = attempt.last.action
          /\ j.step = attempt.last.step /\ j.expected = attempt.last.expected
          /\ attempt.last.status = "Authorized" => j.status = "OutcomeUnknown"
          /\ j.pid = attempt.last.pid
          /\ j.step <= Len(Steps(j.action)) /\ Accepted(j)
      BY <1>3
    <2> HIDE DEF j
    <2>2. WriteAttempt(j) /\ End(c, "failed")
      BY <1>4, <2>1 DEF RetainHelper, j
    <2>3. helper[c] \in {"look", "act"} =>
            attempt.last.pid /\ attempt.last.status = "Authorized"
      BY <1>1, <1>2, WorkFacts DEF Journaled
    <2> QED BY <1>1, <2>1, <2>2, <2>3, WriteAndEnd DEF Finished
  <1>5. CASE ReapHelper(c)
    <2> DEFINE j == AfterHelper(attempt.last, TRUE, cmd[c].failing)
    <2>0. helper[c] \in {"ok", "bad"} /\ cmd[c].failing \in BOOLEAN
      BY <1>1, <1>5 DEF ReapHelper, CommandStates
    <2>1. /\ j \in Journals /\ j.id = c /\ j.action = attempt.last.action
          /\ j.step = attempt.last.step /\ j.expected = attempt.last.expected
          /\ ~cmd[c].failing => j.status = "Authorized"
          /\ j.step <= Len(Steps(j.action)) /\ Accepted(j)
      BY <1>2, <1>3, <2>0
    <2> HIDE DEF j
    <2>2. /\ WriteAttempt(j)
          /\ IF cmd[c].failing THEN End(c, "failed") ELSE Look(c, AfterStep(c)) /\ lock' = lock
      BY <1>5, <2>1 DEF ReapHelper, j
    <2>3. CASE cmd[c].failing
      BY <1>1, <2>0, <2>1, <2>2, <2>3, WriteAndEnd DEF Finished
    <2>4. CASE ~cmd[c].failing
      <3> DEFINE a == AfterStep(c)
                 k == [cmd[c] EXCEPT !.at = "look", !.aim = a, !.seen = Blank]
      <3>1. /\ a \in {"between", "confirm", "ready", "stopped"}
            /\ a = "between" => cmd[c].step < Len(Steps(cmd[c].action))
        BY <1>1 DEF AfterStep, CommandStates, Actions
      <3>2. a \in Aims
        BY <3>1 DEF Aims
      <3> HIDE DEF a
      <3>3. /\ k \in CommandStates /\ k.at = "look" /\ k.aim = a /\ k.action = cmd[c].action
            /\ k.step = cmd[c].step /\ k.want = cmd[c].want
            /\ k.step <= Len(Steps(k.action))
            /\ cmd' = [cmd EXCEPT ![c] = k] /\ cmd'[c] = k
        BY <2>2, <2>4, <3>2, LookFacts DEF a
      <3> HIDE DEF k
      <3>4. /\ attempt' \in [last : Journals \cup {None}, torn : BOOLEAN, lost : BOOLEAN]
            /\ JournalFits' /\ attempt'.last = j /\ attempt'.last # None
        BY <1>1, <2>1, <2>2, WriteFacts
      <3>5. lock' = lock /\ j.status = "Authorized"
        BY <2>1, <2>2, <2>4
      <3>6. CommandKnows(c)'
        BY <1>1, <2>0, <3>3, <3>5, WorkFacts
           DEF CommandKnows, Alive, Working, Passed, Looking, Closing
      <3>7. JournalAt(c)'
        <4>1. a = "between" => (cmd[c].step < Len(Steps(cmd[c].action)))'
          BY <1>1, <3>1, <3>3, SameSteps
        <4> QED BY <1>2, <2>1, <3>1, <3>3, <3>4, <3>5, <4>1
                DEF JournalAt, Mine, Looking, Closing
      <3> QED BY <1>1, <2>0, <3>3, <3>4, <3>5, <3>6, <3>7, WorkFacts, WriteKeeps
    <2> QED BY <2>3, <2>4
  <1> QED BY <1>4, <1>5

LEMMA StepObservedKeeps ==
  ASSUME ServiceInv, NEW c \in Commands, StepObserved(c)
  PROVE  ServiceInv'
  <1> DEFINE j == [attempt.last EXCEPT !.status = "ObservedComplete", !.observed = TRUE]
             k == [cmd[c] EXCEPT !.at = "mutate", !.seen = Blank, !.step = cmd[c].step + 1]
  <1>1. /\ cmd[c].at = "judge" /\ cmd[c].aim = "between" /\ cmd[c].at \in Passed
        /\ cmd[c] \in CommandStates /\ UNCHANGED <<manager, native, op>>
        /\ UNCHANGED <<helperLock, helper, task, told, doomed>>
    BY ServiceFacts DEF StepObserved, Passed, Working, helpers
  <1>2. /\ Mine(c) /\ attempt.last \in Journals /\ attempt.last.status = "Authorized"
        /\ cmd[c].step < Len(Steps(cmd[c].action))
        /\ attempt.last.step <= Len(Steps(attempt.last.action))
    BY <1>1, WorkFacts, ServiceFacts DEF JournalAt, Mine, Looking
  <1>3. /\ j \in Journals /\ j.id = attempt.last.id /\ j.action = attempt.last.action
        /\ j.step = attempt.last.step /\ j.expected = attempt.last.expected
        /\ j.status = "ObservedComplete"
    BY <1>2 DEF Journals, Statuses
  <1>s. cmd[c].step + 1 \in 1 .. 3 /\ cmd[c].step + 1 <= Len(Steps(cmd[c].action))
    <2>1. cmd[c].step \in 1 .. 3 /\ cmd[c].action \in Actions /\ manager \in Managers
      BY <1>1, ServiceFacts DEF CommandStates
    <2>2. Len(Steps(cmd[c].action)) \in 1 .. 3
      BY <2>1, StepsFacts
    <2>3. \A s, l \in 1 .. 3 : s < l => s + 1 \in 1 .. 3 /\ s + 1 <= l
      OBVIOUS
    <2> QED BY <1>2, <2>1, <2>2, <2>3
  <1> HIDE DEF j
  <1>4. Accepted(j) /\ j.step <= Len(Steps(j.action))
    BY <1>2, <1>3 DEF Accepted, ValidSnapshot, ValidTransition
  <1>5. /\ WriteAttempt(j) /\ lock' = lock
        /\ cmd' = [cmd EXCEPT ![c].at = "mutate", ![c].seen = Blank,
                              ![c].step = cmd[c].step + 1]
    BY <1>4 DEF StepObserved, j
  <1>6. /\ k \in CommandStates /\ k.at = "mutate" /\ k.step = cmd[c].step + 1
        /\ k.action = cmd[c].action /\ k.want = cmd[c].want
    <2>1. Blank \in Observations
      BY ObservationsTyped, ServiceFacts
    <2> QED BY <1>1, <1>s, <2>1 DEF CommandStates, Places
  <1>7. cmd' = [cmd EXCEPT ![c] = k] /\ cmd'[c] = k
    BY <1>5, ServiceFacts
  <1> HIDE DEF k
  <1>8. k.step <= Len(Steps(k.action))
    BY <1>s, <1>6
  <1>9. /\ attempt' \in [last : Journals \cup {None}, torn : BOOLEAN, lost : BOOLEAN]
        /\ JournalFits' /\ attempt'.last = j /\ attempt'.last # None
    BY <1>1, <1>3, <1>4, <1>5, WriteFacts
  <1>10. CommandKnows(c)' /\ helper[c] \notin {"look", "act"}
    BY <1>1, <1>5, <1>6, <1>7, WorkFacts
       DEF CommandKnows, Alive, Working, Passed, Looking, Closing
  <1>11. JournalAt(c)'
    BY <1>2, <1>3, <1>6, <1>7, <1>9 DEF JournalAt, Mine, Looking, Closing
  <1> QED BY <1>1, <1>5, <1>6, <1>7, <1>8, <1>9, <1>10, <1>11, WorkFacts, WriteKeeps

LEMMA WaitKeeps ==
  ASSUME ServiceInv, NEW c \in Commands, Confirm(c) \/ WaitForReady(c) \/ WaitForStopped(c)
  PROVE  ServiceInv'
  <1>1. /\ cmd[c].at = "judge" /\ cmd[c].aim \in {"confirm", "ready", "stopped"}
        /\ cmd[c].at \in Passed /\ cmd[c] \in CommandStates
        /\ UNCHANGED <<manager, native, op, helpers>>
        /\ UNCHANGED <<helperLock, helper, task, told, doomed>>
    BY ServiceFacts DEF Confirm, WaitForReady, WaitForStopped, Passed, Working, helpers
  <1>2. /\ \/ attempt.last = None
           \/ attempt.last \in Journals /\ attempt.last.status = "Authorized"
        /\ ~Alive(c) /\ helper[c] \notin {"look", "act"}
    BY <1>1, WorkFacts, ServiceFacts DEF JournalAt, CommandKnows, Alive, Looking
  <1>t. lock \in Commands \cup {None}
    BY <1>1, WorkFacts
  <1>3. CASE GiveUp(c)
    BY <1>1, <1>3, EndOnlyKeeps DEF GiveUp, Finished
  <1>4. CASE Again(c)
    <2>0. PICK a \in Aims : a = cmd[c].aim
      BY <1>1 DEF CommandStates
    <2> DEFINE k == [cmd[c] EXCEPT !.at = "look", !.aim = a, !.seen = Blank]
    <2>1. Look(c, a) /\ UNCHANGED <<lock, attempt>>
      BY <1>4, <2>0 DEF Again
    <2>2. /\ k \in CommandStates /\ k.at = "look" /\ k.aim = cmd[c].aim
          /\ k.step <= Len(Steps(k.action))
          /\ cmd' = [cmd EXCEPT ![c] = k] /\ cmd'[c] = k
      BY <2>0, <2>1, LookFacts
    <2> HIDE DEF k
    <2>3. CommandKnows(c)'
      BY <1>1, <2>1, <2>2, WorkFacts
         DEF CommandKnows, Alive, Working, Passed, Looking, Closing
    <2>4. JournalAt(c)'
      BY <1>1, <1>2, <2>1, <2>2 DEF JournalAt, Looking, Closing
    <2> QED BY <1>1, <1>t, <2>1, <2>2, <2>3, <2>4, MoveKeeps
  <1>5. ASSUME NEW f \in BOOLEAN, UNCHANGED <<lock, attempt>>,
               cmd' = [cmd EXCEPT ![c].at = "close", ![c].failing = f]
        PROVE  ServiceInv'
    <2> DEFINE k == [cmd[c] EXCEPT !.at = "close", !.failing = f]
    <2>1. /\ k \in CommandStates /\ k.at = "close" /\ k.aim = cmd[c].aim
          /\ k.step = cmd[c].step /\ k.action = cmd[c].action
          /\ cmd' = [cmd EXCEPT ![c] = k] /\ cmd'[c] = k
      BY <1>1, <1>5, ServiceFacts DEF CommandStates, Places
    <2>2. k.step <= Len(Steps(k.action))
      BY <2>1, ServiceFacts
    <2> HIDE DEF k
    <2>3. CommandKnows(c)'
      BY <1>1, <1>2, <1>5, <2>1, WorkFacts
         DEF CommandKnows, Alive, Working, Passed, Looking, Closing
    <2>4. JournalAt(c)'
      BY <1>1, <1>2, <1>5, <2>1 DEF JournalAt, Looking, Closing
    <2> QED BY <1>1, <1>t, <1>5, <2>1, <2>2, <2>3, <2>4, MoveKeeps
  <1>6. CASE CloseAttempt(c)
    <2>1. cmd' = [cmd EXCEPT ![c].at = "close", ![c].failing = cmd[c].failing]
      BY <1>1, <1>6, ServiceFacts DEF CloseAttempt, Goto, CommandStates
    <2> QED BY <1>1, <1>5, <1>6, <2>1 DEF CloseAttempt, CommandStates
  <1>7. CASE RecordFailed(c, cmd[c].seen)
    <2>1. CASE attempt.last = None
      BY <1>3, <1>7, <2>1 DEF RecordFailed
    <2>2. CASE /\ UNCHANGED <<lock, attempt>>
               /\ cmd' = [cmd EXCEPT ![c].at = "close", ![c].failing = TRUE]
      BY <1>5, <2>2
    <2>3. CASE attempt.last # None /\ ~(/\ UNCHANGED <<lock, attempt>>
               /\ cmd' = [cmd EXCEPT ![c].at = "close", ![c].failing = TRUE])
      <3> DEFINE j == [attempt.last EXCEPT !.status = "OutcomeUnknown", !.observed = TRUE]
      <3>1. /\ j \in Journals /\ j.id = attempt.last.id /\ j.action = attempt.last.action
            /\ j.step = attempt.last.step /\ j.expected = attempt.last.expected
            /\ j.status = "OutcomeUnknown"
        BY <1>2, <2>3 DEF Journals, Statuses
      <3> HIDE DEF j
      <3>2. Accepted(j)
        BY <1>2, <2>3, <3>1 DEF Accepted, ValidSnapshot, ValidTransition
      <3>3. j.step <= Len(Steps(j.action))
        BY <2>3, <3>1, ServiceFacts
      <3>4. WriteAttempt(j) /\ End(c, "failed")
        BY <1>7, <2>3, <3>2 DEF RecordFailed, j
      <3> QED BY <1>1, <1>2, <3>1, <3>3, <3>4, WriteAndEnd DEF Finished
    <2> QED BY <2>1, <2>2, <2>3
  <1> QED BY <1>3, <1>4, <1>6, <1>7 DEF Confirm, WaitForReady, WaitForStopped

\* complete_attempt is over and the journal gone.
LEMMA ClosedKeeps ==
  ASSUME ServiceInv, NEW c \in Commands, cmd[c].at \in Closing, Closed(c),
         UNCHANGED <<manager, native, op, helpers>>,
         attempt' \in [last : Journals \cup {None}, torn : BOOLEAN, lost : BOOLEAN],
         JournalFits', attempt'.last = None
  PROVE  ServiceInv'
  <1>1. /\ cmd[c].at \in Passed /\ cmd[c] \in CommandStates
        /\ UNCHANGED <<helperLock, helper, task, told, doomed>>
        /\ manager \in Managers /\ op[c] \in Ops
    BY ServiceFacts DEF Passed, Working, Closing, helpers
  <1>2. ~Alive(c) /\ helper[c] \notin {"look", "act"}
    BY <1>1, WorkFacts DEF CommandKnows, Alive
  <1>3. CASE End(c, "failed") \/ End(c, "success")
    <2>1. Journaled(c)'
      BY <1>1, <1>2 DEF Journaled
    <2> QED BY <1>1, <1>3, <2>1, EndKeeps DEF Finished
  <1>4. CASE cmd[c].aim = "preflight" /\ Goto(c, "decide") /\ lock' = lock
    <2> DEFINE k == [cmd[c] EXCEPT !.at = "decide"]
    <2>0. "decide" \in Places
      BY DEF Places
    <2>1. /\ k \in CommandStates /\ k.at = "decide" /\ k.step = cmd[c].step
          /\ k.step <= Len(Steps(k.action))
          /\ cmd' = [cmd EXCEPT ![c] = k] /\ cmd'[c] = k
      BY <1>4, <2>0, GotoFacts
    <2> HIDE DEF k
    <2>2. CommandKnows(c)'
      BY <1>1, <1>2, <1>4, <2>1, WorkFacts
         DEF CommandKnows, Alive, Working, Passed, Looking, Closing
    <2>3. cmd[c].step = 1
      BY <1>1, <1>4, WorkFacts DEF JournalAt
    <2>4. JournalAt(c)'
      BY <2>1, <2>3 DEF JournalAt, Looking, Closing
    <2> QED BY <1>1, <1>2, <1>4, <2>1, <2>2, <2>4, WorkFacts, WriteKeeps
  <1>5. CASE /\ cmd' = [cmd EXCEPT ![c].at = "mutate", ![c].action = "Remove",
                                   ![c].step = 1, ![c].seen = Blank]
             /\ lock' = lock
    <2> DEFINE k == [cmd[c] EXCEPT !.at = "mutate", !.action = "Remove", !.step = 1,
                                   !.seen = Blank]
    <2>1. /\ k \in CommandStates /\ k.at = "mutate" /\ k.step = 1 /\ k.action = "Remove"
          /\ cmd' = [cmd EXCEPT ![c] = k] /\ cmd'[c] = k
      <3>1. Blank \in Observations
        BY ObservationsTyped, ServiceFacts
      <3>2. "mutate" \in Places /\ "Remove" \in Actions /\ 1 \in 1 .. 3
        BY DEF Places, Actions
      <3>3. k \in CommandStates /\ k.at = "mutate" /\ k.step = 1 /\ k.action = "Remove"
        BY <1>1, <3>1, <3>2 DEF CommandStates
      <3>4. cmd' = [cmd EXCEPT ![c] = k]
        BY <1>5, ServiceFacts
      <3> HIDE DEF k
      <3> QED BY <3>3, <3>4, ServiceFacts
    <2> HIDE DEF k
    <2>2. k.step <= Len(Steps(k.action))
      <3>1. "Remove" \in Actions
        BY DEF Actions
      <3>2. manager \in Managers
        BY <1>1
      <3>3. \A b \in Actions : 1 <= Len(Steps(b))
        BY SMTT(30), <3>2, StepsFacts
      <3> QED BY <2>1, <3>1, <3>3
    <2>3. CommandKnows(c)'
      BY <1>1, <1>2, <1>5, <2>1, WorkFacts
         DEF CommandKnows, Alive, Working, Passed, Looking, Closing
    <2>4. JournalAt(c)'
      BY <2>1 DEF JournalAt, Looking, Closing
    <2> QED BY <1>1, <1>2, <1>5, <2>1, <2>2, <2>3, <2>4, WorkFacts, WriteKeeps
  <1> QED BY <1>3, <1>4, <1>5 DEF Closed

LEMMA CloseKeeps ==
  ASSUME ServiceInv, NEW c \in Commands,
         WriteComplete(c) \/ WriteReconciled(c) \/ CloseJournal(c)
  PROVE  ServiceInv'
  <1>1. /\ cmd[c].at \in Closing /\ cmd[c].at \in Passed
        /\ UNCHANGED <<manager, native, op, helpers>>
        /\ UNCHANGED <<helperLock, helper, task, told, doomed>>
    BY DEF WriteComplete, WriteReconciled, CloseJournal, Closing, Passed, Working, helpers
  <1>2. ~Alive(c) /\ helper[c] \notin {"look", "act"}
    BY <1>1, WorkFacts DEF CommandKnows, Alive
  <1>3. CASE CloseJournal(c)
    BY <1>1, <1>3, RemoveFacts, ClosedKeeps DEF CloseJournal
  <1>4. CASE attempt.last = None /\ Closed(c) /\ UNCHANGED attempt
    <2>1. JournalFits'
      BY <1>1, <1>4, SameSteps DEF ServiceInv, JournalFits
    <2> QED BY <1>1, <1>4, <2>1, ClosedKeeps DEF ServiceInv, TypeOK
  <1>5. ASSUME NEW j \in Journals, NEW p \in {"close2", "close3"}, Record(c, j, p),
               attempt.last # None, j.id = attempt.last.id, j.action = attempt.last.action,
               j.step = attempt.last.step, j.expected = attempt.last.expected,
               ValidTransition(attempt.last.status, j.status),
               p = "close2" => j.status = "ObservedComplete"
        PROVE  ServiceInv'
    <2>1. Accepted(j) /\ p \in Places
      BY <1>5 DEF Accepted, ValidSnapshot, Places
    <2>2. j.step <= Len(Steps(j.action))
      BY <1>5, ServiceFacts
    <2>3. ASSUME lock' = lock, attempt'.last = j, attempt'.last # None, cmd'[c].at = p,
                 cmd'[c].aim = cmd[c].aim, cmd'[c].step = cmd[c].step
          PROVE  CommandKnows(c)' /\ JournalAt(c)'
      <3>1. CommandKnows(c)'
        BY <1>1, <1>2, <2>3, WorkFacts
           DEF CommandKnows, Alive, Working, Passed, Looking, Closing
      <3>2. cmd[c].aim = "preflight" => cmd[c].step = 1
        BY <1>1, WorkFacts DEF JournalAt
      <3>3. JournalAt(c)'
        BY <1>5, <2>3, <3>2 DEF JournalAt, Looking, Closing
      <3> QED BY <3>1, <3>3
    <2> QED BY <1>1, <1>2, <1>5, <2>1, <2>2, <2>3, WorkFacts, RecordKeeps
  <1>6. CASE WriteReconciled(c)
    <2> DEFINE j == [attempt.last EXCEPT !.status = "Reconciled"]
    <2>1. /\ attempt.last # None /\ attempt.last.status = "ObservedComplete"
          /\ attempt.last \in Journals /\ Record(c, j, "close3")
      BY <1>1, <1>6, WorkFacts, ServiceFacts DEF WriteReconciled, JournalAt
    <2>2. /\ j \in Journals /\ j.id = attempt.last.id /\ j.action = attempt.last.action
          /\ j.step = attempt.last.step /\ j.expected = attempt.last.expected
          /\ j.status = "Reconciled"
      BY <2>1 DEF Journals, Statuses
    <2> HIDE DEF j
    <2> QED BY <1>5, <2>1, <2>2 DEF ValidTransition
  <1>7. CASE WriteComplete(c) /\ attempt.last # None
    <2> DEFINE j == [attempt.last EXCEPT !.status = "ObservedComplete", !.observed = TRUE]
    <2>1. /\ attempt.last # None /\ attempt.last \in Journals /\ Record(c, j, "close2")
          /\ attempt.last.status \in {"Authorized", "ObservedComplete", "OutcomeUnknown"}
      BY <1>1, <1>7, WorkFacts, ServiceFacts DEF WriteComplete, JournalAt
    <2>2. /\ j \in Journals /\ j.id = attempt.last.id /\ j.action = attempt.last.action
          /\ j.step = attempt.last.step /\ j.expected = attempt.last.expected
          /\ j.status = "ObservedComplete"
      BY <2>1 DEF Journals, Statuses
    <2> HIDE DEF j
    <2> QED BY <1>5, <2>1, <2>2 DEF ValidTransition
  <1> QED BY <1>3, <1>4, <1>6, <1>7 DEF WriteComplete

LEMMA CrashKeeps == ASSUME ServiceInv, NEW c \in Commands, Crash(c) PROVE ServiceInv'
  <1>1. /\ End(c, "crashed") /\ UNCHANGED <<manager, native, op, helpers>>
    BY DEF Crash
  <1>2. CASE UNCHANGED attempt
    BY <1>1, <1>2, EndOnlyKeeps DEF Finished
  <1>3. CASE /\ cmd[c].at \in {"own", "authorize", "reap", "close", "close2"}
             /\ attempt' = [attempt EXCEPT !.torn = TRUE]
    <2>1. /\ attempt' \in [last : Journals \cup {None}, torn : BOOLEAN, lost : BOOLEAN]
          /\ attempt'.last = attempt.last /\ attempt'.lost = attempt.lost
      BY <1>3 DEF ServiceInv, TypeOK
    <2>2. JournalFits'
      BY <1>1, <2>1, SameSteps DEF ServiceInv, JournalFits
    <2>3. cmd[c].at \in Passed
      BY <1>3 DEF Passed, Working
    <2>4. Journaled(c)'
      BY ZenonT(40), <1>1, <2>1, <2>3, WorkFacts DEF Journaled, Task, Steps, helpers
    <2> QED BY <1>1, <2>1, <2>2, <2>3, <2>4, EndKeeps DEF Finished
  <1> QED BY <1>2, <1>3 DEF Crash

\* A step of the helper of c.
LEMMA HelperStep ==
  ASSUME ServiceInv, NEW c \in Commands, NEW h \in HelperPlaces \ {"none", "born"}, Alive(c),
         helper' = [helper EXCEPT ![c] = h], UNCHANGED <<manager, op, lock, attempt, cmd, told,
                                                         doomed>>,
         native' \in Natives, task' \in [Commands -> Tasks \cup {None}],
         \A d \in Commands \ {c} : task'[d] = task[d],
         helperLock' \in Commands \cup {None},
         \A d \in Commands \ {c} : helperLock = d => helperLock' = d,
         h \in {"ready", "look", "act"} => helperLock' = c,
         h = "checked" => helper[c] = "born" /\ told[c] # "nothing",
         h = "ready" => helper[c] = "checked", h = "ok" => helper[c] \in {"look", "act"},
         h \in {"look", "act"} => told[c] = "authorize" \/ helper[c] = "look",
         h \in {"look", "act"} => helper[c] \in {"ready", "look"},
         HelperKnows(c)', Journaled(c)'
  PROVE  ServiceInv'
  <1>0. helper'[c] = h /\ \A d \in Commands \ {c} : helper'[d] = helper[d]
    BY DEF ServiceInv, TypeOK
  <1>1. TypeOK'
    <2>1. \A d \in Commands : (cmd[d].step <= Len(Steps(cmd[d].action)))'
      BY SameSteps, ServiceFacts
    <2>2. helper' \in [Commands -> HelperPlaces]
      BY DEF ServiceInv, TypeOK
    <2> QED BY <2>1, <2>2 DEF ServiceInv, TypeOK
  <1>2. JournalFits'
    BY SameSteps DEF ServiceInv, JournalFits
  <1>3. JournalAt(c)'
    BY ServiceFacts, SameSteps DEF CommandInv, JournalAt, Mine
  <1>4. HelperKnows(c) /\ CommandKnows(c)
    BY ServiceFacts DEF CommandInv
  <1>5. CommandKnows(c)'
    BY <1>0, <1>4 DEF CommandKnows, HelperKnows, Alive, HelperPlaces
  <1>6. ASSUME NEW d \in Commands \ {c} PROVE CommandInv(d)'
    <2>0. HelperKnows(d) /\ CommandKnows(d) /\ JournalAt(d) /\ Journaled(d)
      BY DEF ServiceInv, CommandInv
    <2>1. HelperKnows(d)'
      BY <1>0, <2>0 DEF HelperKnows, StepsOf
    <2>2. JournalAt(d)'
      BY <2>0, SameSteps DEF JournalAt, Mine
    <2>3. Journaled(d)'
      BY <1>0, <2>0 DEF Journaled, Task, Steps
    <2>4. cmd[d].at \in Passed =>
            h \notin {"look", "act"} /\ (h = "ready" => told[c] # "authorize")
      BY <1>4, <2>0 DEF CommandKnows, HelperKnows
    <2>5. CommandKnows(d)'
      BY <1>0, <2>0, <2>4 DEF CommandKnows, Alive
    <2> QED BY <2>1, <2>2, <2>3, <2>5 DEF CommandInv
  <1> QED BY <1>1, <1>2, <1>3, <1>5, <1>6 DEF ServiceInv, CommandInv

LEMMA HelperFacts ==
  ASSUME ServiceInv, NEW c \in Commands
  PROVE  /\ HelperKnows(c) /\ CommandKnows(c) /\ JournalAt(c) /\ Journaled(c)
         /\ manager \in Managers /\ native \in Natives
         /\ task \in [Commands -> Tasks \cup {None}] /\ task[c] \in Tasks \cup {None}
         /\ helper \in [Commands -> HelperPlaces]
         /\ helperLock \in Commands \cup {None} /\ None \notin Tasks /\ c # None
         /\ attempt.last # None => Task(attempt.last) \in Tasks
         /\ attempt.last # None => Task(attempt.last).step \in StepsOf(manager)
  <1>1. ASSUME attempt.last # None
        PROVE  Task(attempt.last) \in Tasks /\ Task(attempt.last).step \in StepsOf(manager)
    <2>1. /\ attempt.last.action \in Actions /\ attempt.last.step \in 1 .. 3
          /\ attempt.last.step <= Len(Steps(attempt.last.action))
          /\ attempt.last.expected \in {"ours", "other"} /\ manager \in Managers
      BY <1>1, ServiceFacts DEF Journals
    <2>2. /\ Steps(attempt.last.action)[attempt.last.step] \in StepsOf(manager)
          /\ StepsOf(manager) \subseteq NativeSteps
      BY <2>1, StepsFacts
    <2> QED BY <2>1, <2>2 DEF Task, Tasks
  <1> QED BY <1>1, ServiceFacts, JournalsAssumption, CommandsAssumption
          DEF ServiceInv, TypeOK, CommandInv

\* The helper ends, with or without an effect on the manager.
LEMMA HelperEndKeeps ==
  ASSUME ServiceInv, NEW c \in Commands, NEW h \in {"ok", "bad"}, HelperEnd(c, h), Alive(c),
         h = "ok" => helper[c] \in {"look", "act"}, native' \in Natives,
         UNCHANGED <<manager, op, lock, attempt, cmd, task, told, doomed>>
  PROVE  ServiceInv'
  <1>1. /\ helper' = [helper EXCEPT ![c] = h] /\ helper'[c] = h
        /\ helperLock' \in Commands \cup {None}
        /\ \A d \in Commands \ {c} : helperLock = d => helperLock' = d
        /\ h \in HelperPlaces \ {"none", "born"}
    BY HelperFacts DEF HelperEnd, HelperPlaces
  <1>2. HelperKnows(c)' /\ Journaled(c)'
    BY <1>1, HelperFacts DEF HelperKnows, StepsOf, Journaled
  <1> QED BY <1>1, <1>2, HelperFacts, HelperStep

LEMMA HearPrepareKeeps ==
  ASSUME ServiceInv, NEW c \in Commands, HearPrepare(c) PROVE ServiceInv'
  <1>1. /\ helper[c] = "born" /\ told[c] # "nothing" /\ Alive(c) /\ native' \in Natives
        /\ UNCHANGED <<manager, native, op, lock, attempt, cmd, told, doomed>>
    BY HelperFacts DEF HearPrepare, Alive
  <1>2. CASE HelperEnd(c, "bad") /\ UNCHANGED task
    BY <1>1, <1>2, HelperEndKeeps
  <1>3. CASE /\ Own(c, "Prepared") /\ helper' = [helper EXCEPT ![c] = "checked"]
             /\ task' = [task EXCEPT ![c] = Task(attempt.last)] /\ UNCHANGED helperLock
    <2>1. /\ task' \in [Commands -> Tasks \cup {None}] /\ task'[c] = Task(attempt.last)
          /\ \A d \in Commands \ {c} : task'[d] = task[d]
          /\ task'[c].step \in StepsOf(manager) /\ task'[c] # None
      BY <1>3, HelperFacts DEF Own
    <2>2. helper'[c] = "checked" /\ "checked" \in HelperPlaces \ {"none", "born"}
      BY <1>3, HelperFacts DEF HelperPlaces
    <2>3. HelperKnows(c)' /\ Journaled(c)'
      BY <1>1, <2>1, <2>2, HelperFacts DEF HelperKnows, StepsOf, Journaled
    <2> QED BY <1>1, <1>3, <2>1, <2>2, <2>3, HelperFacts, HelperStep
  <1> QED BY <1>2, <1>3 DEF HearPrepare

LEMMA TakeLockKeeps ==
  ASSUME ServiceInv, NEW c \in Commands, TakeHelperLock(c) PROVE ServiceInv'
  <1>1. /\ helper[c] = "checked" /\ helperLock = None /\ helperLock' = c /\ Alive(c)
        /\ helper' = [helper EXCEPT ![c] = "ready"] /\ native' \in Natives
        /\ UNCHANGED <<manager, native, op, lock, attempt, cmd, task, told, doomed>>
    BY HelperFacts DEF TakeHelperLock, Alive
  <1>2. helper'[c] = "ready" /\ "ready" \in HelperPlaces \ {"none", "born"}
    BY <1>1, HelperFacts DEF HelperPlaces
  <1>3. HelperKnows(c)' /\ Journaled(c)'
    BY <1>1, <1>2, HelperFacts DEF HelperKnows, StepsOf, Journaled
  <1> QED BY <1>1, <1>2, <1>3, HelperFacts, HelperStep, CommandsAssumption

LEMMA HearAuthorizeKeeps ==
  ASSUME ServiceInv, NEW c \in Commands, HearAuthorize(c) PROVE ServiceInv'
  <1>1. /\ helper[c] = "ready" /\ told[c] = "authorize" /\ Alive(c) /\ native' \in Natives
        /\ UNCHANGED <<manager, native, op, lock, attempt, cmd, task, told, doomed>>
    BY HelperFacts DEF HearAuthorize, Alive
  <1>2. CASE HelperEnd(c, "bad")
    BY <1>1, <1>2, HelperEndKeeps
  <1>3. CASE /\ Own(c, "Authorized") /\ Task(attempt.last) = task[c]
             /\ helper' = [helper EXCEPT ![c] = "look"] /\ UNCHANGED helperLock
    <2>1. helper'[c] = "look" /\ "look" \in HelperPlaces \ {"none", "born"}
      BY <1>3, HelperFacts DEF HelperPlaces
    <2>2. HelperKnows(c)' /\ helperLock = c
      BY <1>1, <1>3, <2>1, HelperFacts DEF HelperKnows, StepsOf
    <2>3. Journaled(c)'
      BY <1>1, <1>3, <2>1 DEF Journaled, Own, Task, Steps
    <2> QED BY <1>1, <1>3, <2>1, <2>2, <2>3, HelperFacts, HelperStep
  <1> QED BY <1>2, <1>3 DEF HearAuthorize

LEMMA HelperLookKeeps ==
  ASSUME ServiceInv, NEW c \in Commands, HelperLook(c) PROVE ServiceInv'
  <1>1. /\ helper[c] = "look" /\ Alive(c) /\ native' \in Natives
        /\ UNCHANGED <<manager, native, op, lock, attempt, cmd, task, told, doomed>>
    BY HelperFacts DEF HelperLook, Alive
  <1>2. CASE HelperEnd(c, "bad") \/ HelperEnd(c, "ok")
    BY <1>1, <1>2, HelperEndKeeps
  <1>3. CASE helper' = [helper EXCEPT ![c] = "act"] /\ UNCHANGED helperLock
    <2>1. helper'[c] = "act" /\ "act" \in HelperPlaces \ {"none", "born"}
      BY <1>3, HelperFacts DEF HelperPlaces
    <2>2. HelperKnows(c)' /\ helperLock = c
      BY <1>1, <1>3, <2>1, HelperFacts DEF HelperKnows, StepsOf
    <2>3. Journaled(c)'
      BY <1>1, <1>3, <2>1, HelperFacts DEF Journaled, Task, Steps
    <2> QED BY <1>1, <1>3, <2>1, <2>2, <2>3, HelperFacts, HelperStep
  <1> QED BY <1>2, <1>3 DEF HelperLook

LEMMA HelperActKeeps ==
  ASSUME ServiceInv, NEW c \in Commands, HelperAct(c) PROVE ServiceInv'
  <1>1. /\ helper[c] = "act" /\ Alive(c)
        /\ (HelperEnd(c, "ok") \/ HelperEnd(c, "bad"))
        /\ UNCHANGED <<manager, op, lock, attempt, cmd, task, told, doomed>>
    BY DEF HelperAct, Alive
  <1>2. native' \in Natives
    <2>1. CASE native' = native
      BY <2>1, HelperFacts
    <2>2. CASE native' \in Effects(native, task[c].step, task[c].expected)
      <3>1. task[c] # None /\ task[c].step \in StepsOf(manager) /\ task[c] \in Tasks
        BY <1>1, HelperFacts DEF HelperKnows
      <3>2. task[c].expected \in {"ours", "other"}
        BY <3>1 DEF Tasks
      <3> QED BY <2>2, <3>1, <3>2, HelperFacts, EffectsTyped
    <2> QED BY <2>1, <2>2 DEF HelperAct
  <1> QED BY <1>1, <1>2, HelperEndKeeps

LEMMA HelperActsKeeps ==
  ASSUME ServiceInv, NEW c \in Commands, HelperActs(c) PROVE ServiceInv'
  <1>1. CASE HearNothing(c) \/ HelperDies(c)
    <2>1. /\ HelperEnd(c, "bad") /\ Alive(c) /\ native' \in Natives
          /\ UNCHANGED <<manager, op, lock, attempt, cmd, task, told, doomed>>
      BY <1>1, HelperFacts DEF HearNothing, HelperDies, Alive
    <2> QED BY <2>1, HelperEndKeeps
  <1> QED BY <1>1, HearPrepareKeeps, TakeLockKeeps, HearAuthorizeKeeps, HelperLookKeeps,
             HelperActKeeps
          DEF HelperActs

\* The manager moves; nobody's place depends on it.
LEMMA NativeKeeps ==
  ASSUME ServiceInv, native' \in Natives,
         UNCHANGED <<manager, op, lock, attempt, cmd, helpers>>
  PROVE  ServiceInv'
  <1>1. UNCHANGED <<helperLock, helper, task, told, doomed>>
    BY DEF helpers
  <1>2. TypeOK'
    <2>1. \A d \in Commands : (cmd[d].step <= Len(Steps(cmd[d].action)))'
      BY SameSteps, ServiceFacts
    <2> QED BY <1>1, <2>1 DEF ServiceInv, TypeOK
  <1>3. JournalFits'
    BY SameSteps DEF ServiceInv, JournalFits
  <1>4. ASSUME NEW c \in Commands PROVE CommandInv(c)'
    <2>0. HelperKnows(c) /\ CommandKnows(c) /\ JournalAt(c) /\ Journaled(c)
      BY HelperFacts
    <2>1. HelperKnows(c)' /\ CommandKnows(c)'
      BY <1>1, <2>0 DEF HelperKnows, StepsOf, CommandKnows, Alive
    <2>2. JournalAt(c)'
      BY <2>0, SameSteps DEF JournalAt, Mine
    <2>3. Journaled(c)'
      BY <1>1, <2>0 DEF Journaled, Task, Steps
    <2> QED BY <2>1, <2>2, <2>3 DEF CommandInv
  <1> QED BY <1>2, <1>3, <1>4 DEF ServiceInv

LEMMA ServiceStep == ServiceInv /\ [Next]_vars => ServiceInv'
  <1> SUFFICES ASSUME ServiceInv, [Next]_vars PROVE ServiceInv'
    OBVIOUS
  <1>0. native \in Natives
    BY DEF ServiceInv, TypeOK
  <1>1. ASSUME NEW c \in Commands, CommandActs(c) PROVE ServiceInv'
    <2>1. CASE AcquireLock(c) \/ PassHelperLock(c)
      BY <2>1, AcquireKeeps
    <2>2. CASE Expire(c) \/ LookManager(c) \/ LookCore(c)
      BY <2>2, LookKeeps
    <2>3. CASE Reconcile(c) \/ Decide(c)
      BY <2>3, ReconcileKeeps, DecideKeeps
    <2>4. CASE WritePrepared(c) \/ SpawnHelper(c)
      BY <2>4, WritePreparedKeeps, SpawnKeeps
    <2>5. CASE OwnHelper(c) \/ Authorize(c)
      BY <2>5, OwnKeeps
    <2>6. CASE HearReady(c) \/ SendAuthorize(c) \/ HearDone(c) \/ Abort(c)
      BY <2>6, TellKeeps
    <2>7. CASE ReapHelper(c) \/ RetainHelper(c) \/ StepObserved(c)
      BY <2>7, ReapKeeps, StepObservedKeeps
    <2>8. CASE Confirm(c) \/ WaitForReady(c) \/ WaitForStopped(c)
      BY <2>8, WaitKeeps
    <2>9. CASE WriteComplete(c) \/ WriteReconciled(c) \/ CloseJournal(c)
      BY <2>9, CloseKeeps
    <2> QED BY <1>1, <2>1, <2>2, <2>3, <2>4, <2>5, <2>6, <2>7, <2>8, <2>9 DEF CommandActs
  <1>2. CASE ManagerMoves
    BY <1>0, <1>2, MovesTyped, NativeKeeps DEF ManagerMoves
  <1>3. CASE ForeignCore
    <2>1. native' \in Natives
      BY <1>0, <1>3 DEF ForeignCore, Natives
    <2> QED BY <1>3, <2>1, NativeKeeps DEF ForeignCore
  <1>4. CASE UNCHANGED vars
    BY <1>0, <1>4, NativeKeeps DEF vars
  <1> QED BY <1>1, <1>2, <1>3, <1>4, HelperActsKeeps, CrashKeeps DEF Next

LEMMA ServiceInit == Init => ServiceInv
  <1> SUFFICES ASSUME Init PROVE ServiceInv
    OBVIOUS
  <1>0. /\ manager \in Managers /\ native \in Natives /\ op \in [Commands -> Ops]
        /\ attempt = [last |-> None, torn |-> FALSE, lost |-> FALSE]
        /\ helper = [c \in Commands |-> "none"] /\ told = [c \in Commands |-> "nothing"]
        /\ task = [c \in Commands |-> None] /\ doomed = {} /\ lock = None /\ helperLock = None
        /\ cmd = [c \in Commands |-> NewCommand(op[c])]
    BY DEF Init, QuietNatives
  <1>1. ASSUME NEW c \in Commands
        PROVE  /\ cmd[c] \in CommandStates /\ cmd[c].at = "idle" /\ cmd[c].step = 1
               /\ cmd[c].step <= Len(Steps(cmd[c].action))
    <2>1. op[c] \in Ops /\ cmd[c] = NewCommand(op[c])
      BY <1>0
    <2> QED BY <1>0, <2>1, FreshCommand
  <1>2. TypeOK
    <2>1. cmd \in [Commands -> CommandStates]
      BY <1>0, <1>1
    <2> QED BY <1>0, <1>1, <2>1 DEF TypeOK, HelperPlaces
  <1>3. JournalFits
    BY <1>0 DEF JournalFits
  <1>4. ASSUME NEW c \in Commands PROVE CommandInv(c)
    <2>1. HelperKnows(c) /\ Journaled(c)
      BY <1>0 DEF HelperKnows, Journaled
    <2>2. CommandKnows(c) /\ JournalAt(c)
      BY <1>0, <1>1, <1>4 DEF CommandKnows, JournalAt, Working, Passed, Looking, Closing
    <2> QED BY <2>1, <2>2 DEF CommandInv
  <1> QED BY <1>2, <1>3, <1>4 DEF ServiceInv

\* JournalSound: for any number of commands and every manager, a helper that
\* may still change the manager is in the journal with its step and its pid,
\* and the journal accepts and can read what commands write, whatever dies.
THEOREM JournalIsSound == Spec => []JournalSound
  <1>1. ServiceInv => JournalSound
    BY DEF ServiceInv, JournalSound, EffectJournaled, JournalReadable, JournalFits,
           CommandInv, Journaled, JournalAt
  <1>2. Spec => []ServiceInv
    BY ServiceInit, ServiceStep, PTL DEF Spec
  <1> QED BY <1>1, <1>2, PTL

(***************************************************************************)
(* What commands report.                                                   *)
(***************************************************************************)
QuietManager == native.state = "Stopped" /\ native.job = "none"
Watching == {"judge", "close", "close2", "close3"}

\* A command does what it was asked for, and observes to the end of its action.
Asked(c) ==
  LET k == cmd[c] IN
  /\ k.action = First(op[c]) \/ (op[c] = "uninstall" /\ k.action = "Stop")
  /\ op[c] = "install" => k.want = "ours"
  /\ k.at \in Looking \cup Closing =>
       /\ k.aim = "confirm" => k.action \in {"Install", "Remove"}
       /\ k.aim = "ready" => k.action = "Start"
       /\ k.aim = "stopped" => k.action = "Stop"
  /\ k.at \in Closing => k.aim \in {"preflight", "confirm", "ready", "stopped"}

\* What of an observation is still true although the two halves of it, the
\* judgement and the closing of the journal are of different moments.
SeenHolds(c) ==
  LET k == cmd[c] IN
  /\ k.at = "look2" /\ ~k.seen.pending /\ k.seen.state = "Stopped" => QuietManager
  /\ k.at \in Watching =>
       /\ k.seen.unit = native.unit
       /\ k.seen.unit # "none" /\ k.seen.boot => (manager = "systemd" => native.enabled)
       /\ k.seen.unit # "none" /\ ~k.seen.pending /\ k.seen.state = "Stopped" =>
            QuietManager

\* The journal of a command that goes well is closed over the state it waited for.
Judged(c) ==
  LET k == cmd[c] IN
  k.at \in Closing /\ ~k.failing =>
    /\ k.aim = "confirm" => OperationSatisfied(k.action, k.want, k.seen)
    /\ k.aim \in {"ready", "stopped"} => Expected(k.want, k.seen)
    /\ k.aim = "stopped" => Down(k.seen) /\ ~k.seen.pending

\* Between the look of a helper and its call the service it removes stays down.
Removing(c) ==
  helper[c] = "act" /\ task[c].step = "Delete" =>
    QuietManager /\ native.core \in {"stopped", "foreign"}

JobsOfSystemd == manager # "systemd" => native.job = "none"
WatchInv(c) == Asked(c) /\ SeenHolds(c) /\ Judged(c)
OutcomeInv == /\ JobsOfSystemd
              /\ \A c \in Commands : WatchInv(c) /\ Removing(c)

LEMMA WatchFacts ==
  ASSUME ServiceInv, OutcomeInv, NEW c \in Commands
  PROVE  /\ WatchInv(c) /\ Asked(c) /\ SeenHolds(c) /\ Judged(c) /\ Removing(c)
         /\ cmd \in [Commands -> CommandStates] /\ cmd[c] \in CommandStates
         /\ cmd[c].action \in Actions /\ cmd[c].aim \in Aims /\ cmd[c].seen \in Observations
         /\ cmd[c].want \in {"ours", "other"} /\ op[c] \in Ops
  BY ServiceFacts DEF OutcomeInv, WatchInv, CommandStates

\* A step of one command: what the others have seen is still true.
LEMMA WatchStep ==
  ASSUME ServiceInv, OutcomeInv, NEW c \in Commands,
         UNCHANGED <<manager, native, op, task>>,
         \A d \in Commands \ {c} : cmd'[d] = cmd[d],
         \A d \in Commands : helper'[d] = "act" => helper[d] = "act",
         WatchInv(c)'
  PROVE  OutcomeInv'
  <1>1. JobsOfSystemd'
    BY DEF OutcomeInv, JobsOfSystemd
  <1>2. ASSUME NEW d \in Commands PROVE Removing(d)'
    BY DEF OutcomeInv, Removing, QuietManager
  <1>3. ASSUME NEW d \in Commands \ {c} PROVE WatchInv(d)'
    <2>0. /\ Asked(d) /\ SeenHolds(d) /\ Judged(d) /\ cmd'[d] = cmd[d]
      BY DEF OutcomeInv, WatchInv
    <2>1. Asked(d)' /\ SeenHolds(d)'
      BY <2>0 DEF Asked, First, SeenHolds, QuietManager
    <2>2. Judged(d)'
      BY <2>0
         DEF Judged, OperationSatisfied, Expected, Down, CoreAbsent, CoreReady
    <2> QED BY <2>1, <2>2 DEF WatchInv
  <1> QED BY <1>1, <1>2, <1>3 DEF OutcomeInv

\* A command ends.
LEMMA EndWatched ==
  ASSUME ServiceInv, OutcomeInv, NEW c \in Commands, NEW p \in Finished, End(c, p),
         UNCHANGED op
  PROVE  WatchInv(c)' /\ \A d \in Commands \ {c} : cmd'[d] = cmd[d]
  <1>1. /\ cmd'[c] = [NewCommand(op[c]) EXCEPT !.at = p]
        /\ \A d \in Commands \ {c} : cmd'[d] = cmd[d]
    BY WatchFacts DEF End
  <1>2. /\ cmd'[c].at = p /\ cmd'[c].action = First(op[c]) /\ cmd'[c].want = "ours"
        /\ p \notin Looking \cup Closing \cup Watching \cup {"look2"}
    BY <1>1 DEF NewCommand, Finished, Looking, Closing, Watching
  <1>3. First(op[c])' = First(op[c])
    BY DEF First
  <1> QED BY <1>1, <1>2, <1>3 DEF WatchInv, Asked, SeenHolds, Judged, Closing, Watching

\* A command goes on to a place where it does not rely on an observation.
LEMMA PlainWatched ==
  ASSUME ServiceInv, OutcomeInv, NEW c \in Commands, UNCHANGED op,
         cmd'[c].at \notin Looking \cup Closing,
         cmd'[c].action = cmd[c].action \/ cmd'[c].action = First(op[c]),
         cmd'[c].want = cmd[c].want
  PROVE  WatchInv(c)'
  <1>1. First(op[c])' = First(op[c])
    BY DEF First
  <1>2. cmd'[c].at \notin Watching \cup {"look2"}
    BY DEF Watching, Looking, Closing
  <1> QED BY <1>1, <1>2, WatchFacts DEF WatchInv, Asked, SeenHolds, Judged

LEMMA GotoWatched ==
  ASSUME ServiceInv, OutcomeInv, NEW c \in Commands, NEW p \in Places, Goto(c, p),
         UNCHANGED <<manager, native, op>>,
         p \in Looking \cup Closing =>
           p \in Closing /\ cmd[c].at \in Closing
  PROVE  WatchInv(c)' /\ \A d \in Commands \ {c} : cmd'[d] = cmd[d]
  <1>1. /\ cmd'[c].at = p /\ cmd'[c].aim = cmd[c].aim /\ cmd'[c].action = cmd[c].action
        /\ cmd'[c].want = cmd[c].want /\ cmd'[c].seen = cmd[c].seen
        /\ cmd'[c].failing = cmd[c].failing
        /\ \A d \in Commands \ {c} : cmd'[d] = cmd[d]
    BY WatchFacts DEF Goto, CommandStates
  <1>2. CASE p \notin Looking \cup Closing
    BY <1>1, <1>2, PlainWatched
  <1>3. CASE p \in Closing /\ cmd[c].at \in Closing
    <2>1. Asked(c)'
      BY <1>1, <1>3, WatchFacts DEF Asked, First
    <2>2. SeenHolds(c)'
      BY <1>1, <1>3, WatchFacts DEF SeenHolds, QuietManager, Watching, Closing
    <2>3. Judged(c)'
      BY ZenonT(40), <1>1, <1>3, WatchFacts
         DEF Judged, OperationSatisfied, Expected, Down, CoreAbsent, CoreReady
    <2> QED BY <1>1, <2>1, <2>2, <2>3 DEF WatchInv
  <1> QED BY <1>2, <1>3

LEMMA LookWatched ==
  ASSUME ServiceInv, OutcomeInv, NEW c \in Commands, NEW aim \in Aims, Look(c, aim),
         UNCHANGED <<manager, native, op>>,
         aim = "confirm" => cmd[c].action \in {"Install", "Remove"},
         aim = "ready" => cmd[c].action = "Start",
         aim = "stopped" => cmd[c].action = "Stop"
  PROVE  WatchInv(c)' /\ \A d \in Commands \ {c} : cmd'[d] = cmd[d]
  <1>1. /\ cmd'[c].at = "look" /\ cmd'[c].aim = aim /\ cmd'[c].action = cmd[c].action
        /\ cmd'[c].want = cmd[c].want
        /\ \A d \in Commands \ {c} : cmd'[d] = cmd[d]
    BY WatchFacts DEF Look, CommandStates
  <1> QED BY ZenonT(40), <1>1, WatchFacts
          DEF WatchInv, Asked, First, SeenHolds, Judged, Closing, Watching

LEMMA RecordWatched ==
  ASSUME ServiceInv, OutcomeInv, NEW c \in Commands, NEW p \in Places, NEW j,
         Record(c, j, p), UNCHANGED <<manager, native, op>>,
         p \in Looking \cup Closing => p \in Closing /\ cmd[c].at \in Closing
  PROVE  WatchInv(c)' /\ \A d \in Commands \ {c} : cmd'[d] = cmd[d]
  <1>1. CASE Goto(c, p)
    BY <1>1, GotoWatched
  <1>2. CASE End(c, "refused")
    BY <1>2, EndWatched DEF Finished
  <1> QED BY <1>1, <1>2 DEF Record

\* The journal is closed over a judged observation.
LEMMA CloseWatched ==
  ASSUME ServiceInv, OutcomeInv, NEW c \in Commands, cmd[c].at = "judge",
         UNCHANGED <<manager, native, op>>,
         \/ Goto(c, "close")
         \/ cmd' = [cmd EXCEPT ![c].at = "close", ![c].failing = TRUE],
         cmd[c].aim \in {"preflight", "confirm", "ready", "stopped"},
         ~cmd'[c].failing =>
           /\ cmd[c].aim = "confirm" =>
                OperationSatisfied(cmd[c].action, cmd[c].want, cmd[c].seen)
           /\ cmd[c].aim \in {"ready", "stopped"} => Expected(cmd[c].want, cmd[c].seen)
           /\ cmd[c].aim = "stopped" => Down(cmd[c].seen) /\ ~cmd[c].seen.pending
  PROVE  WatchInv(c)' /\ \A d \in Commands \ {c} : cmd'[d] = cmd[d]
  <1>1. /\ cmd'[c].at = "close" /\ cmd'[c].aim = cmd[c].aim
        /\ cmd'[c].action = cmd[c].action
        /\ cmd'[c].want = cmd[c].want /\ cmd'[c].seen = cmd[c].seen
        /\ \A d \in Commands \ {c} : cmd'[d] = cmd[d]
    BY WatchFacts DEF Goto, CommandStates
  <1>2. Asked(c)'
    <2>1. cmd[c].at \in Looking \cup Closing
      BY DEF Looking
    <2>2. First(op[c])' = First(op[c])
      BY DEF First
    <2>3. Asked(c)
      BY WatchFacts
    <2> QED BY <1>1, <2>1, <2>2, <2>3 DEF Asked
  <1>3. SeenHolds(c)'
    BY <1>1, WatchFacts DEF SeenHolds, QuietManager, Watching
  <1>4. Judged(c)'
    BY <1>1 DEF Judged, Closing, OperationSatisfied, Expected, Down, CoreAbsent, CoreReady
  <1> QED BY <1>1, <1>2, <1>3, <1>4 DEF WatchInv

\* The first half of an observation: a stopped service without a job stays so.
LEMMA LookManagerWatched ==
  ASSUME ServiceInv, OutcomeInv, NEW c \in Commands, LookManager(c) PROVE OutcomeInv'
  <1>1. /\ cmd'[c].at = "look2" /\ cmd'[c].aim = cmd[c].aim /\ cmd'[c].action = cmd[c].action
        /\ cmd'[c].want = cmd[c].want /\ cmd'[c].seen = SeeManager(native)
        /\ \A d \in Commands \ {c} : cmd'[d] = cmd[d]
    BY WatchFacts DEF LookManager, CommandStates
  <1>2. /\ UNCHANGED <<manager, native, op, task, helper>> /\ cmd[c].at = "look"
    BY DEF LookManager, helpers
  <1>3. /\ SeeManager(native).state = native.state
        /\ SeeManager(native).pending = Pending(native)
    BY DEF SeeManager, Blank
  <1>4. ~Pending(native) => (manager = "systemd" => native.job = "none")
    BY DEF Pending
  <1>5. ~Pending(native) /\ native.state = "Stopped" => QuietManager
    BY <1>4 DEF QuietManager, OutcomeInv, JobsOfSystemd
  <1>6. SeenHolds(c)'
    BY <1>1, <1>2, <1>3, <1>5 DEF SeenHolds, QuietManager, Watching
  <1>7. Asked(c)' /\ Judged(c)'
    BY ZenonT(40), <1>1, <1>2, WatchFacts DEF Asked, First, Judged, Looking, Closing
  <1> QED BY <1>1, <1>2, <1>6, <1>7, WatchStep DEF WatchInv

\* The second half: the unit and its state at boot are those of the manager.
LEMMA LookCoreWatched ==
  ASSUME ServiceInv, OutcomeInv, NEW c \in Commands, LookCore(c) PROVE OutcomeInv'
  <1> DEFINE o == SeeRest(cmd[c].seen, native)
  <1>1. UNCHANGED <<manager, native, op, task, helper>> /\ cmd[c].at = "look2"
    BY DEF LookCore, helpers
  <1>2. CASE End(c, "failed")
    BY <1>1, <1>2, EndWatched, WatchStep DEF Finished
  <1>3. CASE cmd' = [cmd EXCEPT ![c].at = "judge", ![c].seen = o]
    <2>1. /\ cmd'[c].at = "judge" /\ cmd'[c].aim = cmd[c].aim
          /\ cmd'[c].action = cmd[c].action
          /\ cmd'[c].want = cmd[c].want /\ cmd'[c].seen = o
          /\ \A d \in Commands \ {c} : cmd'[d] = cmd[d]
      BY <1>3, WatchFacts DEF CommandStates
    <2>2. CASE native.unit = "none"
      <3>1. o.unit = "none"
        BY <2>2 DEF SeeRest, Blank
      <3> HIDE DEF o
      <3>2. SeenHolds(c)'
        BY <1>1, <2>1, <2>2, <3>1 DEF SeenHolds
      <3>3. Asked(c)' /\ Judged(c)'
        BY ZenonT(40), <1>1, <2>1, WatchFacts DEF Asked, First, Judged, Looking, Closing
      <3> QED BY <1>1, <2>1, <3>2, <3>3, WatchStep DEF WatchInv
    <2>3. CASE native.unit # "none"
      <3>1. o = [cmd[c].seen EXCEPT !.unit = native.unit,
                   !.boot = (manager = "systemd" => native.enabled),
                   !.stale = FALSE, !.core = native.core]
        BY <2>3 DEF SeeRest
      <3>2. /\ o.unit = native.unit /\ o.pending = cmd[c].seen.pending
            /\ o.state = cmd[c].seen.state
            /\ o.boot = (manager = "systemd" => native.enabled)
        BY <3>1, WatchFacts DEF Observations
      <3> HIDE DEF o
      <3>3. SeenHolds(c)'
        <4>1. ~o.pending /\ o.state = "Stopped" => QuietManager
          BY <1>1, <3>2, WatchFacts DEF SeenHolds
        <4> QED BY <1>1, <2>1, <3>2, <4>1 DEF SeenHolds, QuietManager
      <3>4. Asked(c)' /\ Judged(c)'
        BY ZenonT(40), <1>1, <2>1, WatchFacts DEF Asked, First, Judged, Looking, Closing
      <3> QED BY <1>1, <2>1, <3>3, <3>4, WatchStep DEF WatchInv
    <2> QED BY <2>2, <2>3
  <1> QED BY <1>2, <1>3 DEF LookCore

LEMMA ReconcileWatched ==
  ASSUME ServiceInv, OutcomeInv, NEW c \in Commands, Reconcile(c) PROVE OutcomeInv'
  <1>1. /\ UNCHANGED <<manager, native, op, task, helper>>
        /\ cmd[c].at = "judge" /\ cmd[c].aim = "preflight"
    BY DEF Reconcile, helpers
  <1>2. CASE Goto(c, "decide")
    <2>1. "decide" \in Places /\ "decide" \notin Looking \cup Closing
      BY DEF Places, Looking, Closing
    <2> QED BY <1>1, <1>2, <2>1, GotoWatched, WatchStep
  <1>3. CASE End(c, "failed")
    BY <1>1, <1>3, EndWatched, WatchStep DEF Finished
  <1>4. CASE Goto(c, "close")
    BY <1>1, <1>4, CloseWatched, WatchStep DEF Judged, Closing
  <1> QED BY <1>2, <1>3, <1>4 DEF Reconcile

LEMMA DecideWatched ==
  ASSUME ServiceInv, OutcomeInv, NEW c \in Commands, Decide(c) PROVE OutcomeInv'
  <1> DEFINE o == cmd[c].seen
             d == IF op[c] = "install" THEN "ours" ELSE o.unit
             a == IF op[c] = "uninstall" /\ ~Down(o) THEN "Stop" ELSE First(op[c])
             joins == op[c] = "start" /\ o.state = "Starting"
             p == IF joins THEN "look" ELSE "mutate"
             w == IF joins THEN "ready" ELSE "preflight"
  <1>1. UNCHANGED <<manager, native, op, task, helper>>
    BY DEF Decide, helpers
  <1>2. CASE End(c, "failed") \/ End(c, "noop")
    BY <1>1, <1>2, EndWatched, WatchStep DEF Finished
  <1>3. CASE cmd' = [cmd EXCEPT ![c].seen = Blank, ![c].want = d, ![c].action = a,
                       ![c].at = p, ![c].aim = w]
    <2>1. /\ cmd'[c].at = p /\ cmd'[c].aim = w /\ cmd'[c].action = a /\ cmd'[c].want = d
          /\ \A e \in Commands \ {c} : cmd'[e] = cmd[e]
      <3> HIDE DEF d, a, p, w
      <3> QED BY <1>3, WatchFacts DEF CommandStates
    <2>2. /\ a = First(op[c]) \/ (op[c] = "uninstall" /\ a = "Stop")
          /\ op[c] = "install" => d = "ours"
          /\ p \notin Closing \cup Watching \cup {"look2"}
          /\ p \in Looking => w = "ready" /\ a = "Start"
          /\ p \notin Looking => w = "preflight"
      BY DEF First, Looking, Closing, Watching
    <2> HIDE DEF d, a, p, w
    <2>3. WatchInv(c)'
      BY <1>1, <2>1, <2>2
         DEF WatchInv, Asked, First, SeenHolds, Judged, Looking, Closing, Watching
    <2> QED BY <1>1, <2>1, <2>3, WatchStep
  <1> QED BY <1>2, <1>3 DEF Decide

\* The steps of a mutation rely on no observation.
LEMMA MutateWatched ==
  ASSUME ServiceInv, OutcomeInv, NEW c \in Commands,
         \/ WritePrepared(c) \/ SpawnHelper(c) \/ OwnHelper(c) \/ HearReady(c)
         \/ Authorize(c) \/ SendAuthorize(c) \/ HearDone(c)
  PROVE  OutcomeInv'
  <1>1. /\ UNCHANGED <<manager, native, op, task>>
        /\ \A d \in Commands : helper'[d] = "act" => helper[d] = "act"
    <2>1. CASE SpawnHelper(c)
      BY <2>1, HelperFacts DEF SpawnHelper
    <2>2. CASE ~SpawnHelper(c)
      BY <2>2 DEF WritePrepared, OwnHelper, HearReady, Authorize, SendAuthorize, HearDone,
                  helpers
    <2> QED BY <2>1, <2>2
  <1>2. \A p \in {"spawn", "own", "owned", "authorize", "send", "await", "reap"} :
          p \in Places /\ p \notin Looking \cup Closing
    BY DEF Places, Looking, Closing
  <1>3. \/ \E p \in {"spawn", "owned", "send"} : \E j : Record(c, j, p)
        \/ \E p \in {"own", "authorize", "await", "reap"} : Goto(c, p)
    <2>1. CASE WritePrepared(c) \/ OwnHelper(c) \/ Authorize(c)
      BY <2>1, Zenon DEF WritePrepared, OwnHelper, Authorize
    <2>2. CASE SpawnHelper(c) \/ HearReady(c) \/ SendAuthorize(c) \/ HearDone(c)
      BY <2>2 DEF SpawnHelper, HearReady, SendAuthorize, HearDone
    <2> QED BY <2>1, <2>2
  <1>4. WatchInv(c)' /\ \A d \in Commands \ {c} : cmd'[d] = cmd[d]
    <2>1. CASE \E p \in {"spawn", "owned", "send"} : \E j : Record(c, j, p)
      <3>1. PICK p \in {"spawn", "owned", "send"} : \E j : Record(c, j, p)
        BY <2>1
      <3>2. PICK j : Record(c, j, p)
        BY <3>1
      <3>3. p \in Places /\ p \notin Looking \cup Closing
        BY <1>2
      <3> QED BY <1>1, <3>2, <3>3, RecordWatched
    <2>2. CASE \E p \in {"own", "authorize", "await", "reap"} : Goto(c, p)
      <3>1. PICK p \in {"own", "authorize", "await", "reap"} : Goto(c, p)
        BY <2>2
      <3>2. p \in Places /\ p \notin Looking \cup Closing
        BY <1>2
      <3> QED BY <1>1, <3>1, <3>2, GotoWatched
    <2> QED BY <1>3, <2>1, <2>2
  <1> QED BY <1>1, <1>4, WatchStep

LEMMA AbortWatched ==
  ASSUME ServiceInv, OutcomeInv, NEW c \in Commands, Abort(c) PROVE OutcomeInv'
  <1>1. /\ cmd'[c].at = "reap" /\ cmd'[c].action = cmd[c].action
        /\ cmd'[c].want = cmd[c].want
        /\ \A d \in Commands \ {c} : cmd'[d] = cmd[d]
        /\ UNCHANGED <<manager, native, op, task, helper>>
    BY WatchFacts DEF Abort, CommandStates
  <1>2. cmd'[c].at \notin Looking \cup Closing
    BY <1>1 DEF Looking, Closing
  <1> QED BY <1>1, <1>2, PlainWatched, WatchStep

\* A step of the mutation is over: the aim of what follows is that of the action.
LEMMA ReapWatched ==
  ASSUME ServiceInv, OutcomeInv, NEW c \in Commands,
         ReapHelper(c) \/ RetainHelper(c) \/ StepObserved(c)
  PROVE  OutcomeInv'
  <1>1. UNCHANGED <<manager, native, op, task, helper>>
    BY DEF ReapHelper, RetainHelper, StepObserved, helpers
  <1>2. CASE End(c, "failed") \/ End(c, "refused")
    BY <1>1, <1>2, EndWatched, WatchStep DEF Finished
  <1>3. CASE Look(c, AfterStep(c))
    <2>1. /\ AfterStep(c) \in Aims
          /\ AfterStep(c) = "confirm" => cmd[c].action \in {"Install", "Remove"}
          /\ AfterStep(c) = "ready" => cmd[c].action = "Start"
          /\ AfterStep(c) = "stopped" => cmd[c].action = "Stop"
      BY WatchFacts DEF AfterStep, Aims, Actions
    <2> QED BY <1>1, <1>3, <2>1, LookWatched, WatchStep
  <1>4. CASE cmd' = [cmd EXCEPT ![c].at = "mutate", ![c].seen = Blank,
                                ![c].step = cmd[c].step + 1]
    <2>1. /\ cmd'[c].at = "mutate" /\ cmd'[c].action = cmd[c].action
          /\ cmd'[c].want = cmd[c].want
          /\ \A d \in Commands \ {c} : cmd'[d] = cmd[d]
      BY <1>4, WatchFacts DEF CommandStates
    <2>2. cmd'[c].at \notin Looking \cup Closing
      BY <2>1 DEF Looking, Closing
    <2> QED BY <1>1, <2>1, <2>2, PlainWatched, WatchStep
  <1> QED BY <1>2, <1>3, <1>4 DEF ReapHelper, RetainHelper, StepObserved

\* The judgement of what was observed.
LEMMA JudgeWatched ==
  ASSUME ServiceInv, OutcomeInv, NEW c \in Commands,
         Confirm(c) \/ WaitForReady(c) \/ WaitForStopped(c)
  PROVE  OutcomeInv'
  <1>1. /\ UNCHANGED <<manager, native, op, task, helper>> /\ cmd[c].at = "judge"
        /\ cmd[c].aim \in {"confirm", "ready", "stopped"}
    BY DEF Confirm, WaitForReady, WaitForStopped, helpers
  <1>2. CASE End(c, "failed") \/ End(c, "refused")
    BY <1>1, <1>2, EndWatched, WatchStep DEF Finished
  <1>3. CASE Look(c, cmd[c].aim)
    <2>1. /\ cmd[c].at \in Looking \cup Closing /\ cmd[c].aim \in Aims /\ Asked(c)
      BY <1>1, WatchFacts DEF Looking
    <2> QED BY <1>1, <1>3, <2>1, LookWatched, WatchStep DEF Asked
  <1>4. CASE cmd' = [cmd EXCEPT ![c].at = "close", ![c].failing = TRUE]
    <2>1. cmd'[c].failing
      BY <1>4, WatchFacts DEF CommandStates
    <2> QED BY <1>1, <1>4, <2>1, CloseWatched, WatchStep
  <1>5. CASE /\ Goto(c, "close")
             /\ cmd[c].aim = "confirm" =>
                  OperationSatisfied(cmd[c].action, cmd[c].want, cmd[c].seen)
             /\ cmd[c].aim \in {"ready", "stopped"} => Expected(cmd[c].want, cmd[c].seen)
             /\ cmd[c].aim = "stopped" => Down(cmd[c].seen) /\ ~cmd[c].seen.pending
    BY <1>1, <1>5, CloseWatched, WatchStep
  <1>6. RecordFailed(c, cmd[c].seen) =>
          \/ End(c, "failed") \/ End(c, "refused")
          \/ cmd' = [cmd EXCEPT ![c].at = "close", ![c].failing = TRUE]
    BY DEF RecordFailed, GiveUp
  <1>7. CASE Confirm(c)
    BY <1>2, <1>3, <1>4, <1>5, <1>6, <1>7 DEF Confirm, Again, CloseAttempt
  <1>8. CASE WaitForReady(c)
    BY <1>2, <1>3, <1>4, <1>5, <1>6, <1>8 DEF WaitForReady, Again, CloseAttempt, GiveUp
  <1>9. CASE WaitForStopped(c)
    BY <1>2, <1>3, <1>5, <1>9 DEF WaitForStopped, Again, CloseAttempt, GiveUp
  <1> QED BY <1>7, <1>8, <1>9

\* The journal is closed.
LEMMA ClosingWatched ==
  ASSUME ServiceInv, OutcomeInv, NEW c \in Commands,
         WriteComplete(c) \/ WriteReconciled(c) \/ CloseJournal(c)
  PROVE  OutcomeInv'
  <1>1. /\ UNCHANGED <<manager, native, op, task, helper>> /\ cmd[c].at \in Closing
    BY DEF WriteComplete, WriteReconciled, CloseJournal, Closing, helpers
  <1>2. CASE \E p \in {"close2", "close3"} : \E j : Record(c, j, p)
    <2>1. PICK p \in {"close2", "close3"} : \E j : Record(c, j, p)
      BY <1>2
    <2>2. PICK j : Record(c, j, p)
      BY <2>1
    <2>3. p \in Places /\ p \in Closing
      BY DEF Places, Closing
    <2> QED BY <1>1, <2>2, <2>3, RecordWatched, WatchStep
  <1>3. CASE Closed(c)
    <2>1. CASE End(c, "failed") \/ End(c, "success")
      BY <1>1, <2>1, EndWatched, WatchStep DEF Finished
    <2>2. CASE Goto(c, "decide")
      <3>1. "decide" \in Places /\ "decide" \notin Looking \cup Closing
        BY DEF Places, Looking, Closing
      <3> QED BY <1>1, <2>2, <3>1, GotoWatched, WatchStep
    <2>3. CASE op[c] = "uninstall"
               /\ cmd' = [cmd EXCEPT ![c].at = "mutate", ![c].action = "Remove",
                                     ![c].step = 1, ![c].seen = Blank]
      <3>1. /\ cmd'[c].at = "mutate" /\ cmd'[c].action = "Remove"
            /\ cmd'[c].want = cmd[c].want
            /\ \A d \in Commands \ {c} : cmd'[d] = cmd[d]
        BY <2>3, WatchFacts DEF CommandStates
      <3>2. cmd'[c].at \notin Looking \cup Closing /\ First(op[c]) = "Remove"
        BY <2>3, <3>1 DEF Looking, Closing, First
      <3> QED BY <1>1, <3>1, <3>2, PlainWatched, WatchStep
    <2> QED BY <1>3, <2>1, <2>2, <2>3 DEF Closed
  <1> QED BY <1>2, <1>3, Zenon DEF WriteComplete, WriteReconciled, CloseJournal

\* A registration goes by Delete alone, and only systemd has jobs.
LEMMA EffectsKeep ==
  ASSUME manager \in Managers, NEW n \in Natives, NEW s \in StepsOf(manager),
         NEW d \in {"ours", "other"}, NEW m \in Effects(n, s, d)
  PROVE  /\ n.unit # "none" /\ m.unit = "none" => s = "Delete"
         /\ manager # "systemd" /\ n.job = "none" => m.job = "none"
  <1>1. \A k \in RequestStart(n) \cup RequestStop(n) :
          k.unit = n.unit /\ (manager # "systemd" /\ n.job = "none" => k.job = "none")
    BY DEF RequestStart, RequestStop, Natives
  <1>2. \A k \in Publish(n) : k.unit # "none" /\ k.job = n.job
    BY DEF Publish, Natives
  <1>3. \A k \in Delete(n, d) : k.job = n.job
    BY DEF Delete, Natives
  <1>4. CASE manager = "systemd"
    <2>1. m \in SystemdStep(n, s, d)
      BY <1>4 DEF Effects
    <2>2. s \in {"Publish", "Reload", "Enable", "Start", "Stop", "Disable", "Delete"}
      BY <1>4 DEF StepsOf
    <2> QED BY <1>1, <1>2, <1>3, <1>4, <2>1, <2>2 DEF SystemdStep, Natives
  <1>5. CASE manager = "launchd"
    <2>1. m \in LaunchdStep(n, s, d)
      BY <1>5 DEF Effects
    <2>2. s \in {"Publish", "Start", "Stop", "Delete"}
      BY <1>5 DEF StepsOf
    <2> QED BY <1>1, <1>2, <1>3, <2>1, <2>2 DEF LaunchdStep
  <1>6. CASE manager = "scm"
    <2>1. m \in ScmStep(n, s, d)
      BY <1>6 DEF Effects
    <2>2. s \in {"Register", "Description", "FailurePolicy", "Start", "Stop", "Delete"}
      BY <1>6 DEF StepsOf
    <2> QED BY <1>1, <1>2, <1>3, <2>1, <2>2 DEF ScmStep
  <1> QED BY <1>4, <1>5, <1>6 DEF Managers

\* The manager keeps the registration, and a stopped service without a job.
LEMMA MovesKeep ==
  ASSUME NEW n \in Natives, NEW m \in Moves(n)
  PROVE  /\ m.unit = n.unit /\ m.enabled = n.enabled
         /\ n.job = "none" => m.job = "none"
         /\ ~(n.state = "Stopped" /\ n.job = "none")
  <1>1. \A k \in StoppingMoves(n) : /\ k.unit = n.unit /\ k.enabled = n.enabled
                                    /\ n.job = "none" => k.job = "none"
    BY DEF StoppingMoves, Natives
  <1>2. \A k \in StartingMoves(n) : /\ k.unit = n.unit /\ k.enabled = n.enabled
                                    /\ n.job = "none" => k.job = "none"
    BY DEF StartingMoves, Natives
  <1>3. \A k \in RunningMoves(n) : /\ k.unit = n.unit /\ k.enabled = n.enabled
                                   /\ n.job = "none" => k.job = "none"
    BY DEF RunningMoves, Natives
  <1>4. n.job \in {"none", "start", "stop"} /\ n.state \in States
    BY DEF Natives
  <1>5. \A k \in {[n EXCEPT !.state = "Starting"], [n EXCEPT !.state = "Stopping"],
                  [n EXCEPT !.job = "none", !.state = "Stopped"]} :
          /\ k.unit = n.unit /\ k.enabled = n.enabled
          /\ n.job = "none" => k.job = "none"
    BY DEF Natives
  <1> QED BY <1>1, <1>2, <1>3, <1>4, <1>5 DEF Moves, States

\* While a command relies on what it has seen, no helper acts.
LEMMA NobodyActs ==
  ASSUME ServiceInv, NEW c \in Commands, cmd[c].at \in Watching \cup {"look2"},
         NEW d \in Commands
  PROVE  helper[d] # "act"
  <1>1. cmd[c].at \in Passed /\ cmd[c].at \in Looking \cup Closing
    BY DEF Watching, Passed, Working, Looking, Closing
  <1> QED BY <1>1, HelperFacts DEF CommandKnows, Alive

\* The manager or a foreign Core moves.
LEMMA MovesWatched ==
  ASSUME ServiceInv, OutcomeInv, ManagerMoves \/ ForeignCore PROVE OutcomeInv'
  <1>1. /\ UNCHANGED <<manager, op, cmd, helper, task>> /\ native \in Natives
    BY DEF ManagerMoves, ForeignCore, helpers, ServiceInv, TypeOK
  <1>2. /\ native'.unit = native.unit /\ native'.enabled = native.enabled
        /\ native.job = "none" => native'.job = "none"
        /\ QuietManager => /\ native'.state = "Stopped" /\ native'.job = "none"
                           /\ native.core \in {"stopped", "foreign"} =>
                                native'.core \in {"stopped", "foreign"}
    <2>1. CASE ManagerMoves
      BY <1>1, <2>1, MovesKeep DEF ManagerMoves, QuietManager
    <2>2. CASE ForeignCore
      BY <1>1, <2>2 DEF ForeignCore, QuietManager, Natives
    <2> QED BY <2>1, <2>2
  <1>3. JobsOfSystemd'
    BY <1>1, <1>2 DEF OutcomeInv, JobsOfSystemd
  <1>4. ASSUME NEW c \in Commands PROVE WatchInv(c)' /\ Removing(c)'
    <2>0. Asked(c) /\ SeenHolds(c) /\ Judged(c) /\ Removing(c)
      BY DEF OutcomeInv, WatchInv
    <2>1. Asked(c)'
      BY <1>1, <2>0 DEF Asked, First
    <2>2. SeenHolds(c)'
      BY <1>1, <1>2, <2>0 DEF SeenHolds, QuietManager
    <2>3. Judged(c)'
      BY <1>1, <2>0 DEF Judged, OperationSatisfied, Expected, Down, CoreAbsent, CoreReady
    <2>4. Removing(c)'
      BY <1>1, <1>2, <2>0 DEF Removing, QuietManager
    <2> QED BY <2>1, <2>2, <2>3, <2>4 DEF WatchInv
  <1> QED BY <1>3, <1>4 DEF OutcomeInv

\* A helper that does not touch the manager.
LEMMA HelperWatched ==
  ASSUME ServiceInv, OutcomeInv, NEW c \in Commands,
         UNCHANGED <<manager, native, op, cmd>>,
         \A d \in Commands \ {c} : helper'[d] = helper[d] /\ task'[d] = task[d],
         Removing(c)'
  PROVE  OutcomeInv'
  <1>1. JobsOfSystemd'
    BY DEF OutcomeInv, JobsOfSystemd
  <1>2. ASSUME NEW d \in Commands PROVE WatchInv(d)'
    <2>0. Asked(d) /\ SeenHolds(d) /\ Judged(d)
      BY DEF OutcomeInv, WatchInv
    <2>1. Asked(d)' /\ SeenHolds(d)'
      BY <2>0 DEF Asked, First, SeenHolds, QuietManager
    <2>2. Judged(d)'
      BY <2>0 DEF Judged, OperationSatisfied, Expected, Down, CoreAbsent, CoreReady
    <2> QED BY <2>1, <2>2 DEF WatchInv
  <1>3. ASSUME NEW d \in Commands \ {c} PROVE Removing(d)'
    <2>1. Removing(d)
      BY DEF OutcomeInv
    <2> QED BY <2>1 DEF Removing, QuietManager
  <1> QED BY <1>1, <1>2, <1>3 DEF OutcomeInv

LEMMA HelperLookWatched ==
  ASSUME ServiceInv, OutcomeInv, NEW c \in Commands, HelperLook(c) PROVE OutcomeInv'
  <1> DEFINE o == SeeRest(SeeManager(native), native)
  <1>1. /\ UNCHANGED <<manager, native, op, cmd, task>> /\ helper[c] = "look"
        /\ \A d \in Commands \ {c} : helper'[d] = helper[d] /\ task'[d] = task[d]
    BY HelperFacts DEF HelperLook, HelperEnd
  <1>2. CASE HelperEnd(c, "bad") \/ HelperEnd(c, "ok")
    <2>1. helper'[c] # "act"
      BY <1>2, HelperFacts DEF HelperEnd
    <2> QED BY <1>1, <2>1, HelperWatched DEF Removing
  <1>3. CASE StepAllowed(task[c].step, task[c].expected, o)
    <2>1. CASE task[c].step # "Delete"
      BY <1>1, <2>1, HelperWatched DEF Removing
    <2>2. CASE task[c].step = "Delete"
      <3>1. /\ Expected(task[c].expected, o) /\ ~o.pending /\ Down(o)
        BY <1>3, <2>2 DEF StepAllowed
      <3>2. task[c].expected \in {"ours", "other"} /\ native \in Natives
            /\ manager \in Managers
        BY <1>1, HelperFacts DEF HelperKnows, Tasks
      <3>3. SeeManager(native) \in Observations
        BY <3>2, ObservationsTyped
      <3>4. native.unit # "none"
        <4>1. native.unit = "none" => o.unit = "none"
          BY DEF SeeRest, Blank
        <4> QED BY <3>1, <3>2, <4>1 DEF Expected
      <3>5. /\ SeeManager(native).state = native.state
            /\ SeeManager(native).pending = Pending(native)
        BY DEF SeeManager, Blank
      <3>6. /\ o.state = native.state /\ o.pending = Pending(native) /\ o.core = native.core
        BY <3>3, <3>4, <3>5 DEF SeeRest, Observations
      <3>7. QuietManager /\ native.core \in {"stopped", "foreign"}
        <4>1. native.state = "Stopped" /\ native.core = "stopped" /\ ~Pending(native)
          BY <3>1, <3>6 DEF Down, CoreAbsent
        <4>2. native.job = "none"
          BY <4>1 DEF Pending, OutcomeInv, JobsOfSystemd
        <4> QED BY <4>1, <4>2 DEF QuietManager
      <3> QED BY <1>1, <3>7, HelperWatched DEF Removing, QuietManager
    <2> QED BY <2>1, <2>2
  <1> QED BY <1>2, <1>3 DEF HelperLook

\* The call: nobody has looked, and no other helper is about to act.
LEMMA HelperActWatched ==
  ASSUME ServiceInv, OutcomeInv, NEW c \in Commands, HelperAct(c)
  PROVE  /\ OutcomeInv'
         /\ native.unit # "none" /\ native'.unit = "none" =>
              native.state = "Stopped" /\ native.core \in {"stopped", "foreign"}
  <1>1. /\ helper[c] = "act" /\ UNCHANGED <<manager, op, cmd, task>>
        /\ HelperEnd(c, "ok") \/ HelperEnd(c, "bad")
        /\ native' = native \/ native' \in Effects(native, task[c].step, task[c].expected)
    BY DEF HelperAct
  <1>2. /\ task[c] \in Tasks /\ task[c].step \in StepsOf(manager)
        /\ task[c].expected \in {"ours", "other"}
        /\ native \in Natives /\ manager \in Managers /\ helperLock = c
    BY <1>1, HelperFacts DEF HelperKnows, Tasks
  <1>3. \A d \in Commands : helper'[d] # "act"
    BY <1>1, <1>2, HelperFacts DEF HelperEnd, HelperKnows
  <1>4. /\ native.unit # "none" /\ native'.unit = "none" => task[c].step = "Delete"
        /\ manager # "systemd" /\ native.job = "none" => native'.job = "none"
    BY <1>1, <1>2, EffectsKeep
  <1>5. ASSUME NEW d \in Commands PROVE WatchInv(d)' /\ Removing(d)'
    <2>0. Asked(d) /\ Judged(d)
      BY DEF OutcomeInv, WatchInv
    <2>1. cmd[d].at \notin Watching \cup {"look2"}
      BY <1>1, NobodyActs
    <2>2. Asked(d)' /\ SeenHolds(d)'
      BY <1>1, <2>0, <2>1 DEF Asked, First, SeenHolds
    <2>3. Judged(d)'
      BY <1>1, <2>1 DEF Judged, Closing, Watching
    <2> QED BY <1>3, <2>2, <2>3 DEF WatchInv, Removing
  <1>6. JobsOfSystemd'
    BY <1>1, <1>4 DEF OutcomeInv, JobsOfSystemd
  <1>7. Removing(c)
    BY DEF OutcomeInv
  <1> QED BY <1>1, <1>4, <1>5, <1>6, <1>7 DEF OutcomeInv, Removing, QuietManager

LEMMA HelperActsWatched ==
  ASSUME ServiceInv, OutcomeInv, NEW c \in Commands, HelperActs(c) PROVE OutcomeInv'
  <1>1. CASE \/ HearPrepare(c) \/ TakeHelperLock(c) \/ HearAuthorize(c)
             \/ HearNothing(c) \/ HelperDies(c)
    <2>1. /\ UNCHANGED <<manager, native, op, cmd>> /\ helper'[c] # "act"
          /\ \A d \in Commands \ {c} : helper'[d] = helper[d] /\ task'[d] = task[d]
      BY <1>1, HelperFacts
         DEF HearPrepare, TakeHelperLock, HearAuthorize, HearNothing, HelperDies, HelperEnd
    <2> QED BY <2>1, HelperWatched DEF Removing
  <1> QED BY <1>1, HelperLookWatched, HelperActWatched DEF HelperActs

LEMMA CommandActsWatched ==
  ASSUME ServiceInv, OutcomeInv, NEW c \in Commands, CommandActs(c) \/ Crash(c)
  PROVE  OutcomeInv'
  <1>1. CASE AcquireLock(c)
    <2>1. "locked" \in Places /\ "locked" \notin Looking \cup Closing
      BY DEF Places, Looking, Closing
    <2> QED BY <1>1, <2>1, GotoWatched, WatchStep DEF AcquireLock, helpers
  <1>2. CASE PassHelperLock(c)
    <2>1. "preflight" \in Aims
      BY DEF Aims
    <2> QED BY <1>2, <2>1, LookWatched, WatchStep DEF PassHelperLock, helpers
  <1>3. CASE Expire(c) \/ Crash(c)
    <2>1. /\ UNCHANGED <<manager, native, op, task, helper>>
          /\ End(c, "failed") \/ End(c, "crashed")
      BY <1>3 DEF Expire, Crash, helpers
    <2> QED BY <2>1, EndWatched, WatchStep DEF Finished
  <1>4. CASE LookManager(c) \/ LookCore(c) \/ Reconcile(c) \/ Decide(c)
    BY <1>4, LookManagerWatched, LookCoreWatched, ReconcileWatched, DecideWatched
  <1>5. CASE \/ WritePrepared(c) \/ SpawnHelper(c) \/ OwnHelper(c) \/ HearReady(c)
             \/ Authorize(c) \/ SendAuthorize(c) \/ HearDone(c) \/ Abort(c)
    BY <1>5, MutateWatched, AbortWatched
  <1>6. CASE ReapHelper(c) \/ RetainHelper(c) \/ StepObserved(c)
    BY <1>6, ReapWatched
  <1>7. CASE Confirm(c) \/ WaitForReady(c) \/ WaitForStopped(c)
    BY <1>7, JudgeWatched
  <1>8. CASE WriteComplete(c) \/ WriteReconciled(c) \/ CloseJournal(c)
    BY <1>8, ClosingWatched
  <1> QED BY <1>1, <1>2, <1>3, <1>4, <1>5, <1>6, <1>7, <1>8 DEF CommandActs

LEMMA OutcomeStep == ServiceInv /\ OutcomeInv /\ [Next]_vars => OutcomeInv'
  <1> SUFFICES ASSUME ServiceInv, OutcomeInv, [Next]_vars PROVE OutcomeInv'
    OBVIOUS
  <1>1. CASE UNCHANGED vars
    <2>1. UNCHANGED <<manager, native, op, cmd, helper, task>>
      BY <1>1 DEF vars, helpers
    <2>2. JobsOfSystemd'
      BY <2>1 DEF OutcomeInv, JobsOfSystemd
    <2>3. ASSUME NEW d \in Commands PROVE WatchInv(d)' /\ Removing(d)'
      <3>0. Asked(d) /\ SeenHolds(d) /\ Judged(d) /\ Removing(d)
        BY DEF OutcomeInv, WatchInv
      <3>1. Asked(d)' /\ SeenHolds(d)' /\ Removing(d)'
        BY <2>1, <3>0 DEF Asked, First, SeenHolds, QuietManager, Removing
      <3>2. Judged(d)'
        BY <2>1, <3>0
           DEF Judged, OperationSatisfied, Expected, Down, CoreAbsent, CoreReady
      <3> QED BY <3>1, <3>2 DEF WatchInv
    <2> QED BY <2>2, <2>3 DEF OutcomeInv
  <1> QED BY <1>1, CommandActsWatched, HelperActsWatched, MovesWatched DEF Next

LEMMA OutcomeInit == Init => OutcomeInv
  <1> SUFFICES ASSUME Init PROVE OutcomeInv
    OBVIOUS
  <1>1. native \in Natives /\ native.job = "none"
    BY DEF Init, QuietNatives
  <1>2. ASSUME NEW c \in Commands PROVE WatchInv(c) /\ Removing(c)
    <2>1. cmd[c] = NewCommand(op[c]) /\ helper[c] = "none"
      BY DEF Init
    <2>2. cmd[c].at = "idle" /\ cmd[c].action = First(op[c]) /\ cmd[c].want = "ours"
      BY <2>1 DEF NewCommand
    <2> QED BY <2>1, <2>2
            DEF WatchInv, Asked, SeenHolds, Judged, Removing, Looking, Closing, Watching
  <1> QED BY <1>1, <1>2 DEF OutcomeInv, JobsOfSystemd

\* Only a helper that removes the definition drops a registration.
LEMMA RemovedOnlyStopped ==
  ASSUME ServiceInv, OutcomeInv, [Next]_vars PROVE RemovedStopped
  <1>1. CASE native' = native
    BY <1>1 DEF RemovedStopped
  <1>2. CASE ManagerMoves \/ ForeignCore
    <2>1. native \in Natives
      BY DEF ServiceInv, TypeOK
    <2>2. native'.unit = native.unit
      BY <1>2, <2>1, MovesKeep DEF ManagerMoves, ForeignCore, Natives
    <2> QED BY <2>2 DEF RemovedStopped
  <1>3. ASSUME NEW c \in Commands, HelperAct(c) PROVE RemovedStopped
    BY <1>3, HelperActWatched DEF RemovedStopped
  <1>4. ASSUME NEW c \in Commands, HelperActs(c), ~HelperAct(c) PROVE native' = native
    BY <1>4 DEF HelperActs, HearPrepare, TakeHelperLock, HearAuthorize, HearNothing,
                HelperLook, HelperDies
  <1>5. ASSUME NEW c \in Commands, CommandActs(c) \/ Crash(c) PROVE native' = native
    BY <1>5 DEF CommandActs, Crash, AcquireLock, PassHelperLock, Expire, LookManager,
       LookCore, Reconcile, Decide, WritePrepared, SpawnHelper, OwnHelper, HearReady,
       Authorize, SendAuthorize, HearDone, Abort, ReapHelper, RetainHelper, StepObserved,
       Confirm, WaitForReady, WaitForStopped, WriteComplete, WriteReconciled, CloseJournal
  <1> QED BY <1>1, <1>2, <1>3, <1>4, <1>5 DEF Next, vars

\* Where a step takes its command.
LEMMA PlaceAfter ==
  ASSUME ServiceInv, NEW c \in Commands
  PROVE  /\ \A p : End(c, p) => cmd'[c].at = p /\ \A d \in Commands \ {c} : cmd'[d] = cmd[d]
         /\ \A p : Goto(c, p) => cmd'[c].at = p /\ \A d \in Commands \ {c} : cmd'[d] = cmd[d]
         /\ \A a : Look(c, a) =>
              cmd'[c].at = "look" /\ \A d \in Commands \ {c} : cmd'[d] = cmd[d]
         /\ \A j, p : Record(c, j, p) =>
              /\ cmd'[c].at \in {p, "refused"}
              /\ \A d \in Commands \ {c} : cmd'[d] = cmd[d]
  <1>1. cmd \in [Commands -> CommandStates] /\ cmd[c] \in CommandStates
    BY ServiceFacts
  <1>2. \A p : End(c, p) => cmd'[c].at = p /\ \A d \in Commands \ {c} : cmd'[d] = cmd[d]
    BY <1>1 DEF End, NewCommand
  <1>3. \A p : Goto(c, p) => cmd'[c].at = p /\ \A d \in Commands \ {c} : cmd'[d] = cmd[d]
    BY <1>1 DEF Goto, CommandStates
  <1>4. \A a : Look(c, a) =>
          cmd'[c].at = "look" /\ \A d \in Commands \ {c} : cmd'[d] = cmd[d]
    BY <1>1 DEF Look, CommandStates
  <1>5. ASSUME NEW j, NEW p, Record(c, j, p)
        PROVE  /\ cmd'[c].at \in {p, "refused"}
               /\ \A d \in Commands \ {c} : cmd'[d] = cmd[d]
    BY <1>2, <1>3, <1>5 DEF Record
  <1> QED BY <1>2, <1>3, <1>4, <1>5

\* A command reports success when it has closed its journal, and at no other step.
LEMMA SuccessCloses ==
  ASSUME ServiceInv, NEW c \in Commands, CommandActs(c), cmd'[c].at = "success"
  PROVE  /\ cmd[c].at \in Closing /\ attempt'.last = None
         /\ ~cmd[c].failing /\ cmd[c].aim # "preflight"
         /\ ~(op[c] = "uninstall" /\ cmd[c].action = "Stop")
         /\ UNCHANGED <<manager, native, op>>
  <1>0. cmd \in [Commands -> CommandStates] /\ cmd[c] \in CommandStates
    BY ServiceFacts
  <1>1. CASE AcquireLock(c) \/ PassHelperLock(c) \/ Expire(c)
    BY <1>1, PlaceAfter DEF AcquireLock, PassHelperLock, Expire
  <1>2. CASE LookManager(c)
    BY <1>0, <1>2 DEF LookManager, CommandStates
  <1>3. CASE LookCore(c)
    <2>1. CASE End(c, "failed")
      BY <2>1, PlaceAfter
    <2>2. CASE \E o : cmd' = [cmd EXCEPT ![c].at = "judge", ![c].seen = o]
      BY <1>0, <2>2 DEF CommandStates
    <2> QED BY <1>3, <2>1, <2>2 DEF LookCore
  <1>4. CASE Reconcile(c)
    BY <1>4, PlaceAfter DEF Reconcile
  <1>5. CASE Decide(c)
    <2>1. CASE End(c, "failed") \/ End(c, "noop")
      BY <2>1, PlaceAfter
    <2> DEFINE o == cmd[c].seen
               d == IF op[c] = "install" THEN "ours" ELSE o.unit
               a == IF op[c] = "uninstall" /\ ~Down(o) THEN "Stop" ELSE First(op[c])
               joins == op[c] = "start" /\ o.state = "Starting"
               p == IF joins THEN "look" ELSE "mutate"
               w == IF joins THEN "ready" ELSE "preflight"
    <2>2. CASE cmd' = [cmd EXCEPT ![c].seen = Blank, ![c].want = d, ![c].action = a,
                         ![c].at = p, ![c].aim = w]
      <3>1. p # "success"
        OBVIOUS
      <3> HIDE DEF d, a, p, w
      <3> QED BY <1>0, <2>2, <3>1 DEF CommandStates
    <2> QED BY <1>5, <2>1, <2>2 DEF Decide
  <1>6. CASE WritePrepared(c) \/ OwnHelper(c) \/ Authorize(c) \/ WriteReconciled(c)
    <2>1. \E p \in {"spawn", "owned", "send", "close3"} : \E j : Record(c, j, p)
      BY <1>6, Zenon DEF WritePrepared, OwnHelper, Authorize, WriteReconciled
    <2> QED BY <2>1, PlaceAfter
  <1>7. CASE SpawnHelper(c) \/ HearReady(c) \/ SendAuthorize(c) \/ HearDone(c)
    BY <1>7, PlaceAfter DEF SpawnHelper, HearReady, SendAuthorize, HearDone
  <1>8. CASE Abort(c)
    BY <1>0, <1>8 DEF Abort, CommandStates
  <1>9. CASE ReapHelper(c) \/ RetainHelper(c)
    <2>1. End(c, "refused") \/ End(c, "failed") \/ Look(c, AfterStep(c))
      BY <1>9 DEF ReapHelper, RetainHelper
    <2> QED BY <2>1, PlaceAfter
  <1>10. CASE StepObserved(c)
    <2>1. CASE End(c, "refused")
      BY <2>1, PlaceAfter
    <2>2. CASE cmd' = [cmd EXCEPT ![c].at = "mutate", ![c].seen = Blank,
                                  ![c].step = cmd[c].step + 1]
      BY <1>0, <2>2 DEF CommandStates
    <2> QED BY <1>10, <2>1, <2>2 DEF StepObserved
  <1>11. CASE Confirm(c) \/ WaitForReady(c) \/ WaitForStopped(c)
    <2>1. \/ End(c, "failed") \/ End(c, "refused") \/ Goto(c, "close")
          \/ Look(c, cmd[c].aim)
          \/ cmd' = [cmd EXCEPT ![c].at = "close", ![c].failing = TRUE]
      BY <1>11 DEF Confirm, WaitForReady, WaitForStopped, Again, CloseAttempt, GiveUp,
                   RecordFailed
    <2>2. CASE cmd' = [cmd EXCEPT ![c].at = "close", ![c].failing = TRUE]
      BY <1>0, <2>2 DEF CommandStates
    <2> QED BY <2>1, <2>2, PlaceAfter
  <1>12. CASE WriteComplete(c) \/ CloseJournal(c)
    <2>1. CASE \E j : Record(c, j, "close2")
      BY <2>1, PlaceAfter
    <2>2. CASE Closed(c) /\ attempt'.last = None
      <3>1. /\ cmd[c].at \in Closing /\ UNCHANGED <<manager, native, op>>
        BY <1>12 DEF WriteComplete, CloseJournal, Closing
      <3>2. cmd' # [cmd EXCEPT ![c].at = "mutate", ![c].action = "Remove",
                               ![c].step = 1, ![c].seen = Blank]
        BY <1>0 DEF CommandStates
      <3> QED BY <2>2, <3>1, <3>2, PlaceAfter DEF Closed
    <2>3. RemoveAttempt => attempt'.last = None
      BY ServiceFacts DEF RemoveAttempt
    <2> QED BY <1>12, <2>1, <2>2, <2>3, Zenon DEF WriteComplete, CloseJournal
  <1> QED BY <1>1, <1>2, <1>3, <1>4, <1>5, <1>6, <1>7, <1>8, <1>9, <1>10, <1>11, <1>12
          DEF CommandActs

LEMMA OthersStay ==
  ASSUME ServiceInv, OutcomeInv, NEW c \in Commands, NEW d \in Commands \ {c},
         CommandActs(d) \/ Crash(d) \/ HelperActs(d)
  PROVE  cmd'[c] = cmd[c]
  <1>1. CASE HelperActs(d)
    BY <1>1 DEF HelperActs, HearPrepare, TakeHelperLock, HearAuthorize, HearNothing,
                HelperLook, HelperAct, HelperDies
  <1>2. CASE CommandActs(d) \/ Crash(d)
    <2>0. /\ d \in Commands /\ c \in Commands \ {d} /\ c # d
          /\ cmd \in [Commands -> CommandStates]
      BY ServiceFacts
    <2>1. \/ \E p : Goto(d, p) \/ End(d, p) \/ Look(d, p)
          \/ \E j, p : Record(d, j, p)
          \/ LookManager(d) \/ LookCore(d) \/ Decide(d) \/ Abort(d) \/ StepObserved(d)
          \/ Confirm(d) \/ WaitForReady(d) \/ WaitForStopped(d)
          \/ Closed(d)
      BY <1>2, Zenon
         DEF CommandActs, Crash, AcquireLock, PassHelperLock, Expire, Reconcile,
             WritePrepared, SpawnHelper, OwnHelper, HearReady, Authorize, SendAuthorize,
             HearDone, ReapHelper, RetainHelper, WriteComplete, WriteReconciled,
             CloseJournal
    <2>2. CASE \/ \E p : Goto(d, p) \/ End(d, p) \/ Look(d, p)
               \/ \E j, p : Record(d, j, p)
      BY <2>0, <2>2, PlaceAfter
    <2>3. CASE LookManager(d) \/ LookCore(d) \/ Decide(d) \/ Abort(d) \/ StepObserved(d)
      <3>1. CASE \E p : End(d, p)
        BY <2>0, <3>1, PlaceAfter
      <3>2. CASE ~\E p : End(d, p)
        <4>1. CASE LookManager(d) \/ LookCore(d)
          BY <2>0, <3>2, <4>1 DEF LookManager, LookCore
        <4>2. CASE Decide(d)
          BY <2>0, <3>2, <4>2 DEF Decide
        <4>3. CASE Abort(d) \/ StepObserved(d)
          BY <2>0, <3>2, <4>3 DEF Abort, StepObserved
        <4> QED BY <2>3, <4>1, <4>2, <4>3
      <3> QED BY <3>1, <3>2
    <2>4. CASE Confirm(d) \/ WaitForReady(d) \/ WaitForStopped(d)
      <3>1. \/ \E p : Goto(d, p) \/ End(d, p) \/ Look(d, p)
            \/ cmd' = [cmd EXCEPT ![d].at = "close", ![d].failing = TRUE]
        BY <2>4, Zenon DEF Confirm, WaitForReady, WaitForStopped, Again, CloseAttempt,
                           GiveUp, RecordFailed
      <3>2. CASE cmd' = [cmd EXCEPT ![d].at = "close", ![d].failing = TRUE]
        BY <2>0, <3>2
      <3> QED BY <2>2, <3>1, <3>2
    <2>5. CASE Closed(d)
      <3>1. CASE cmd' = [cmd EXCEPT ![d].at = "mutate", ![d].action = "Remove",
                                    ![d].step = 1, ![d].seen = Blank]
        BY <2>0, <3>1
      <3>2. CASE \E p : Goto(d, p) \/ End(d, p)
        BY <2>2, <3>2
      <3> QED BY <2>5, <3>1, <3>2, Zenon DEF Closed
    <2> QED BY <2>1, <2>2, <2>3, <2>4, <2>5
  <1> QED BY <1>1, <1>2

LEMMA SuccessIsMeant ==
  ASSUME ServiceInv, OutcomeInv, [Next]_vars PROVE SuccessMeans
  <1> SUFFICES ASSUME NEW c \in Commands, cmd[c].at # "success", cmd'[c].at = "success"
               PROVE  /\ attempt'.last = None
                      /\ CASE op[c] = "install" ->
                                /\ native'.unit = "ours"
                                /\ (manager = "systemd" => native'.enabled)
                           [] op[c] = "start" -> native'.unit # "none"
                           [] op[c] = "stop" ->
                                native'.state = "Stopped" /\ native'.job = "none"
                           [] op[c] = "uninstall" -> native'.unit = "none"
    BY DEF SuccessMeans
  <1>1. CommandActs(c)
    <2>1. cmd' # cmd
      OBVIOUS
    <2>2. ~ManagerMoves /\ ~ForeignCore /\ ~UNCHANGED vars /\ ~HelperActs(c)
      BY <2>1 DEF ManagerMoves, ForeignCore, vars, HelperActs, HearPrepare, TakeHelperLock,
           HearAuthorize, HearNothing, HelperLook, HelperAct, HelperDies
    <2>3. ~Crash(c)
      BY PlaceAfter DEF Crash
    <2> QED BY <2>2, <2>3, OthersStay DEF Next
  <1>2. /\ cmd[c].at \in Closing /\ attempt'.last = None
        /\ ~cmd[c].failing /\ cmd[c].aim # "preflight"
        /\ ~(op[c] = "uninstall" /\ cmd[c].action = "Stop")
        /\ UNCHANGED <<manager, native, op>>
    BY <1>1, SuccessCloses
  <1>3. /\ cmd[c].seen.unit = native.unit
        /\ cmd[c].seen.unit # "none" /\ cmd[c].seen.boot =>
             (manager = "systemd" => native.enabled)
        /\ cmd[c].seen.unit # "none" /\ ~cmd[c].seen.pending
             /\ cmd[c].seen.state = "Stopped" => QuietManager
    BY <1>2, WatchFacts DEF SeenHolds, Watching, Closing
  <1>4. /\ cmd[c].aim \in {"confirm", "ready", "stopped"}
        /\ cmd[c].aim = "confirm" => cmd[c].action \in {"Install", "Remove"}
        /\ cmd[c].aim = "ready" => cmd[c].action = "Start"
        /\ cmd[c].aim = "stopped" => cmd[c].action = "Stop"
        /\ cmd[c].action = First(op[c])
        /\ op[c] = "install" => cmd[c].want = "ours"
    BY <1>2, WatchFacts DEF Asked
  <1>5. /\ cmd[c].aim = "confirm" =>
             OperationSatisfied(cmd[c].action, cmd[c].want, cmd[c].seen)
        /\ cmd[c].aim \in {"ready", "stopped"} => cmd[c].seen.unit = cmd[c].want
        /\ cmd[c].aim = "stopped" =>
             cmd[c].seen.state = "Stopped" /\ ~cmd[c].seen.pending
    BY <1>2, WatchFacts DEF Judged, Expected, Down
  <1>6. op[c] \in Ops /\ cmd[c].want \in {"ours", "other"}
    BY WatchFacts
  <1>7. CASE op[c] = "install"
    <2>1. cmd[c].action = "Install" /\ cmd[c].aim = "confirm" /\ cmd[c].want = "ours"
      BY <1>4, <1>7 DEF First
    <2>2. cmd[c].seen.unit = "ours" /\ cmd[c].seen.boot
      BY <1>5, <2>1 DEF OperationSatisfied, Expected
    <2> QED BY <1>2, <1>3, <1>7, <2>2
  <1>8. CASE op[c] = "start"
    <2>1. cmd[c].aim = "ready"
      BY <1>4, <1>8 DEF First
    <2> QED BY <1>2, <1>3, <1>5, <1>6, <1>8, <2>1
  <1>9. CASE op[c] = "stop"
    <2>1. cmd[c].aim = "stopped"
      BY <1>4, <1>9 DEF First
    <2> QED BY <1>2, <1>3, <1>5, <1>6, <1>9, <2>1 DEF QuietManager
  <1>10. CASE op[c] = "uninstall"
    <2>1. cmd[c].action = "Remove" /\ cmd[c].aim = "confirm"
      BY <1>4, <1>10 DEF First
    <2>2. cmd[c].seen.unit = "none"
      BY <1>5, <2>1 DEF OperationSatisfied
    <2> QED BY <1>2, <1>3, <1>10, <2>2
  <1> QED BY <1>6, <1>7, <1>8, <1>9, <1>10 DEF Ops

\* CommandsSound: whatever other commands, their helpers and the manager do
\* between the look of a command and its report, a definition is removed only
\* from under a stopped service, and a reported success is true.
THEOREM CommandsAreSound == Spec => CommandsSound
  <1>1. Spec => []ServiceInv
    BY ServiceInit, ServiceStep, PTL DEF Spec
  <1>2. Spec => []OutcomeInv
    BY <1>1, OutcomeInit, OutcomeStep, PTL DEF Spec
  <1>3. ServiceInv /\ OutcomeInv /\ [Next]_vars => [RemovedStopped /\ SuccessMeans]_vars
    BY RemovedOnlyStopped, SuccessIsMeant
  <1> QED BY <1>1, <1>2, <1>3, PTL DEF Spec, CommandsSound
=============================================================================
