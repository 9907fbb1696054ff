--------------------------- MODULE SchedulerProofs ---------------------------
(***************************************************************************)
(* Proofs about Scheduler, for every value of its constants: no occurrence *)
(* is run twice, a startup trigger runs once per process, the misfire      *)
(* policy is honoured and pending runs are of the revision watched.        *)
(*                                                                         *)
(* The argument is an account.  A run is charged to the row of its trigger *)
(* when the deadline moves on, before it is requested, and a deadline      *)
(* moves by at least one period for every run it is charged with; so what  *)
(* was run never exceeds what has come due, whatever crashes in between.   *)
(***************************************************************************)
EXTENDS Scheduler, FiniteSetTheorems, TLAPS

-----------------------------------------------------------------------------
(* Arithmetic of deadlines.                                                *)

(* What is less after multiplication was less before.                      *)
LEMMA Multiples ==
    ASSUME NEW a \in Int, NEW b \in Int, NEW k \in Nat \ {0}, a * k < b * k
    PROVE  a < b
  <1>1. SUFFICES ASSUME b <= a PROVE FALSE
    OBVIOUS
  <1>2. (a - b) * k >= 0 BY <1>1
  <1> QED BY <1>2

(* Quotient and remainder.                                                 *)
LEMMA Division ==
    ASSUME NEW n \in Nat, NEW k \in Nat \ {0}
    PROVE  /\ n \div k \in Nat /\ n % k \in 0 .. k - 1
           /\ n = ((n \div k) * k) + (n % k)
  OBVIOUS

(* The occurrences of a periodic trigger are counted by division: one at   *)
(* the deadline and one for every whole period since.                      *)
LEMMA PeriodsIn ==
    ASSUME NEW t \in Triggers, ~OneShot(t), NEW due \in Nat, NEW at \in Nat, due <= at
    PROVE  /\ Cardinality(Backlog(t, due, at)) = (at - due) \div Every + 1
  <1> DEFINE n == (at - due) \div Every
             B == Backlog(t, due, at)
             f == [k \in 0 .. n |-> due + k * Every]
  <1>0. Every \in Nat \ {0} BY NumbersAssumption
  <1>1. n \in Nat /\ n * Every <= at - due /\ at - due < (n + 1) * Every
    <2>1. at - due \in Nat OBVIOUS
    <2>2. n \in Nat /\ at - due = (n * Every) + ((at - due) % Every)
      BY <1>0, <2>1, Division
    <2>3. (at - due) % Every \in 0 .. Every - 1
      BY <1>0, <2>1, Division
    <2> HIDE DEF n
    <2>4. (n + 1) * Every = n * Every + Every BY <2>2, <1>0
    <2> QED BY <1>0, <2>1, <2>2, <2>3, <2>4
  <1>2. \A k \in 0 .. n : f[k] \in B
    <2> TAKE k \in 0 .. n
    <2>1. k * Every <= n * Every /\ k * Every >= 0 BY <1>0, <1>1
    <2>2. (due + k * Every) - due = k * Every BY <1>0, <1>1
    <2>3. (k * Every) % Every = 0 BY <1>0, <1>1
    <2> QED BY <1>0, <1>1, <2>1, <2>2, <2>3 DEF Backlog
  <1>3. \A j, k \in 0 .. n : f[j] = f[k] => j = k
    <2> TAKE j, k \in 0 .. n
    <2> HAVE f[j] = f[k]
    <2>1. due + j * Every = due + k * Every BY Zenon
    <2>2. j * Every \in Nat /\ k * Every \in Nat BY <1>0, <1>1
    <2>3. ~(j * Every < k * Every) /\ ~(k * Every < j * Every)
      BY <2>1, <2>2
    <2>4. (j < k => j * Every < k * Every) /\ (k < j => k * Every < j * Every)
      BY <1>0, <1>1
    <2> QED BY <2>3, <2>4, <1>1
  <1>4. \A d \in B : \E k \in 0 .. n : f[k] = d
    <2> TAKE d \in B
    <2>1. d \in due .. at /\ (d - due) % Every = 0
      BY <1>0 DEF Backlog
    <2> DEFINE k == (d - due) \div Every
    <2>2. k \in Nat /\ d - due = k * Every
      BY <1>0, <2>1, Division
    <2>3. k * Every < (n + 1) * Every BY <2>1, <2>2, <1>1, <1>0
    <2>4. k < n + 1 BY <2>2, <2>3, <1>0, <1>1, Multiples
    <2> QED BY <2>2, <2>4, <2>1, <1>1
  <1>5. f \in Bijection(0 .. n, B)
    <2>1. f \in [0 .. n -> B] BY <1>2, Zenon
    <2> HIDE DEF f, B
    <2> QED BY <2>1, <1>3, <1>4 DEF Bijection, IsInjective, Injection, Surjection
  <1>6. IsFiniteSet(0 .. n) /\ Cardinality(0 .. n) = n + 1
    BY <1>1, FS_Interval
  <1> QED BY <1>5, <1>6, FS_Bijection DEF ExistsBijection

(* So a backlog of n occurrences spans n - 1 periods, and not n.           *)
LEMMA BacklogSize ==
    ASSUME NEW t \in Triggers, ~OneShot(t), NEW due \in Nat, NEW at \in Nat, due <= at,
           NEW n, n = Cardinality(Backlog(t, due, at))
    PROVE  /\ n \in Nat /\ n >= 1 /\ n <= at - due + 1
           /\ (n - 1) * Every <= at - due /\ at - due < n * Every
  <1> DEFINE m == (at - due) \div Every
  <1>0. Every \in Nat \ {0} BY NumbersAssumption
  <1>1. at - due \in Nat OBVIOUS
  <1>2. m \in Nat /\ at - due = (m * Every) + ((at - due) % Every)
        /\ (at - due) % Every \in 0 .. Every - 1
    BY <1>0, <1>1, Division
  <1>3. n = m + 1 BY PeriodsIn
  <1> HIDE DEF m
  <1>4. (m + 1) * Every = m * Every + Every /\ m <= m * Every
    BY <1>0, <1>2
  <1> QED BY <1>0, <1>1, <1>2, <1>3, <1>4

(* The next occurrence of a cron trigger is a period on from any earlier one. *)
LEMMA CronDue ==
    ASSUME NEW at \in Nat, NEW due \in Nat, due <= at, NEW k \in Nat, due = k * Every
    PROVE  /\ CronNextDue(at) >= due + Every
  <1> DEFINE m == at \div Every
  <1>0. Every \in Nat \ {0} BY NumbersAssumption
  <1>2. m \in Nat /\ at = (m * Every) + (at % Every) /\ at % Every \in 0 .. Every - 1
    BY <1>0, Division
  <1>3. CronNextDue(at) = (m + 1) * Every BY DEF CronNextDue
  <1> HIDE DEF m
  <1>4. (m + 1) * Every = m * Every + Every BY <1>0, <1>2
  <1>5. k * Every < (m + 1) * Every BY <1>0, <1>2, <1>4
  <1>6. k < m + 1 BY <1>0, <1>2, <1>5, Multiples
  <1>7. k * Every <= m * Every BY <1>0, <1>2, <1>6
  <1> QED BY <1>0, <1>2, <1>3, <1>4, <1>7

(* ... and it comes after the instant, within a period, on the calendar.   *)
LEMMA CronAfter ==
    ASSUME NEW at \in Nat
    PROVE  /\ CronNextDue(at) > at /\ CronNextDue(at) <= at + Every
           /\ \E k \in Nat : CronNextDue(at) = k * Every
           /\ CronNextDue(at) \in Nat
  <1> DEFINE m == at \div Every
  <1>0. Every \in Nat \ {0} BY NumbersAssumption
  <1>2. m \in Nat /\ at = (m * Every) + (at % Every) /\ at % Every \in 0 .. Every - 1
    BY <1>0, Division
  <1>3. CronNextDue(at) = (m + 1) * Every BY DEF CronNextDue
  <1> HIDE DEF m
  <1>4. (m + 1) * Every = m * Every + Every BY <1>0, <1>2
  <1>5. m + 1 \in Nat BY <1>2
  <1>6. \E k \in Nat : CronNextDue(at) = k * Every
    BY <1>3, <1>5
  <1>7. CronNextDue(at) > at /\ CronNextDue(at) <= at + Every /\ CronNextDue(at) \in Nat
    BY <1>0, <1>2, <1>3, <1>4
  <1> QED BY <1>6, <1>7

(* The deadlines of a cron trigger are instants of its calendar.           *)
Regular(t, due) == Kind[t] = "cron" => \E k \in Nat : due = k * Every

(* next_due_after of a periodic trigger.                                   *)
LEMMA NextPeriod ==
    ASSUME NEW t \in Calendar, ~OneShot(t), NEW due \in Nat, NEW at \in Nat, due <= at,
           Regular(t, due)
    PROVE  /\ NextDueAfter(t, at) \in Nat
           /\ NextDueAfter(t, at) > at /\ NextDueAfter(t, at) <= at + Every
           /\ NextDueAfter(t, at) >= due + Every
           /\ Regular(t, NextDueAfter(t, at))
  <1>0. Every \in Nat \ {0} BY NumbersAssumption
  <1>1. CASE Kind[t] = "interval"
    <2>1. NextDueAfter(t, at) = at + Every BY <1>1 DEF NextDueAfter, OneShot
    <2> QED BY <1>0, <1>1, <2>1 DEF Regular
  <1>2. CASE Kind[t] = "cron"
    <2>1. NextDueAfter(t, at) = CronNextDue(at) BY <1>2 DEF NextDueAfter, OneShot
    <2>2. PICK k \in Nat : due = k * Every BY <1>2 DEF Regular
    <2> QED BY <2>1, <2>2, CronDue, CronAfter DEF Regular
  <1> QED BY <1>1, <1>2 DEF Calendar, OneShot

(* What one advance of a periodic row does.                                *)
LEMMA DuePeriods ==
    ASSUME NEW t \in Calendar, ~OneShot(t), NEW due \in Nat, NEW at \in Nat, due <= at,
           Regular(t, due), NEW recovering \in BOOLEAN,
           NEW next, next = Due(t, due, at, recovering)
    PROVE  /\ next.count \in Nat /\ next.due \in Nat /\ next.completed = FALSE
           /\ next.count <= at - due + 1
           /\ next.count * Every <= next.due - due
           /\ next.count > 0 => (next.count - 1) * Every <= at - due
           /\ next.due > at /\ next.due <= at + Every
           /\ Regular(t, next.due)
           /\ recovering =>
                /\ Misfire[t] = "skip" => next.count = 0
                /\ Misfire[t] = "runOnce" => next.count <= 1
                /\ next.count <= MaxCatchUp
  <1>0. Every \in Nat \ {0} /\ MaxCatchUp \in Nat \ {0} BY NumbersAssumption
  <1>1. t \in Triggers /\ Misfire[t] \in {"skip", "runOnce", "catchUp"}
    BY TriggersAssumption DEF Calendar
  <1> DEFINE n == Cardinality(Backlog(t, due, at))
             later == NextDueAfter(t, at)
             once == [count |-> 1, due |-> later, completed |-> OneShot(t)]
  <1>2. /\ n \in Nat /\ n >= 1 /\ n <= at - due + 1
        /\ (n - 1) * Every <= at - due /\ at - due < n * Every
    BY <1>1, BacklogSize
  <1>3. /\ later \in Nat /\ later > at /\ later <= at + Every
        /\ later >= due + Every /\ Regular(t, later)
    BY NextPeriod
  <1>4. CASE ~recovering \/ Misfire[t] = "runOnce"
    <2>1. next = once BY <1>4 DEF Due
    <2> HIDE DEF n, later
    <2>2. next.count = 1 /\ next.due = later /\ next.completed = FALSE
      BY <2>1
    <2>3. next.count * Every = Every /\ (next.count - 1) * Every = 0
      BY <2>2, <1>0
    <2> QED BY <1>0, <1>2, <1>3, <1>4, <2>2, <2>3
  <1>5. CASE recovering /\ Misfire[t] = "skip"
    <2>1. next = [once EXCEPT !.count = 0] BY <1>5 DEF Due
    <2> HIDE DEF n, later
    <2>2. next.count = 0 /\ next.due = later /\ next.completed = FALSE
      BY <2>1
    <2>3. next.count * Every = 0 BY <2>2, <1>0
    <2>4. next.count * Every <= next.due - due BY <1>0, <1>3, <2>2, <2>3
    <2>5. next.count \in Nat /\ next.count <= at - due + 1 /\ next.count <= MaxCatchUp
      BY <1>0, <2>2
    <2>6. ~(next.count > 0) BY <2>2
    <2> QED BY <1>3, <1>5, <2>2, <2>4, <2>5, <2>6
  <1>6. CASE recovering /\ Misfire[t] = "catchUp" /\ n > MaxCatchUp
    <2>1. next = [once EXCEPT !.count = MaxCatchUp] BY <1>6 DEF Due
    <2> HIDE DEF n, later
    <2>2. next.count = MaxCatchUp /\ next.due = later /\ next.completed = FALSE
      BY <2>1
    <2>3. MaxCatchUp * Every <= (n - 1) * Every /\ (MaxCatchUp - 1) * Every <= (n - 1) * Every
      BY <1>0, <1>2, <1>6
    <2>4. MaxCatchUp <= n /\ MaxCatchUp <= at - due + 1 BY <1>0, <1>2, <1>6
    <2>5. next.count * Every <= next.due - due BY <1>0, <1>2, <1>3, <2>2, <2>3
    <2>6. (next.count - 1) * Every <= at - due BY <1>0, <1>2, <2>2, <2>3
    <2>7. next.count \in Nat /\ next.count <= at - due + 1 /\ next.count <= MaxCatchUp
      BY <1>0, <2>2, <2>4
    <2> QED BY <1>3, <1>6, <2>2, <2>5, <2>6, <2>7
  <1>7. CASE recovering /\ Misfire[t] = "catchUp" /\ ~(n > MaxCatchUp)
    <2>1. next = [count |-> n, due |-> due + n * Every, completed |-> FALSE]
      BY <1>7 DEF Due
    <2> HIDE DEF n, later
    <2>2. next.count = n /\ next.due = due + n * Every /\ next.completed = FALSE
      BY <2>1
    <2>3. n * Every = (n - 1) * Every + Every BY <1>0, <1>2
    <2>4. Regular(t, due + n * Every)
      <3> SUFFICES ASSUME Kind[t] = "cron"
                   PROVE \E k \in Nat : due + n * Every = k * Every
        BY DEF Regular
      <3>1. PICK k \in Nat : due = k * Every BY DEF Regular
      <3>2. k + n \in Nat /\ (k + n) * Every = k * Every + n * Every
        BY <1>0, <1>2
      <3> QED BY <3>1, <3>2
    <2>5. next.count * Every = n * Every /\ (next.count - 1) * Every = (n - 1) * Every
      BY <2>2, <1>0, <1>2
    <2>6. next.due \in Nat /\ next.due - due = n * Every
      BY <2>2, <1>0, <1>2
    <2>7. next.due > at /\ next.due <= at + Every
      BY <2>6, <2>3, <1>0, <1>2
    <2>8. Regular(t, next.due) BY <2>2, <2>4
    <2>9. next.count \in Nat /\ next.count <= at - due + 1 /\ next.count <= MaxCatchUp
      BY <2>2, <1>2, <1>7, <1>0
    <2>10. next.count * Every <= next.due - due BY <2>5, <2>6, <1>0, <1>2
    <2> QED BY <1>2, <1>7, <2>2, <2>5, <2>6, <2>7, <2>8, <2>9, <2>10
  <1> QED BY <1>1, <1>4, <1>5, <1>6, <1>7

(* ... and of the row of a date and time.                                  *)
LEMMA DueOnce ==
    ASSUME NEW t \in Calendar, OneShot(t), NEW at, NEW recovering \in BOOLEAN,
           NEW next, next = Due(t, DatetimeDue(t), at, recovering)
    PROVE  /\ next.count \in {0, 1} /\ next.due = DatetimeDue(t) /\ next.completed = TRUE
           /\ recovering /\ Misfire[t] = "skip" => next.count = 0
  <1>1. Misfire[t] \in {"skip", "runOnce", "catchUp"}
    BY TriggersAssumption DEF Calendar
  <1> DEFINE once == [count |-> 1, due |-> NextDueAfter(t, at), completed |-> OneShot(t)]
  <1>2. NextDueAfter(t, at) = DatetimeDue(t) BY DEF NextDueAfter, OneShot
  <1>3. \/ next = once /\ ~(recovering /\ Misfire[t] = "skip")
        \/ next = [once EXCEPT !.count = 0]
        \/ next = [count |-> 1, due |-> DatetimeDue(t), completed |-> TRUE] /\ ~(recovering /\ Misfire[t] = "skip")
    BY <1>1 DEF Due
  <1> QED BY <1>2, <1>3

(* Nothing runs of what a process finds late under skip.                   *)
LEMMA SkipRunsNothing ==
    ASSUME NEW t, NEW due, NEW at, Misfire[t] = "skip"
    PROVE  Due(t, due, at, TRUE).count = 0
  <1> DEFINE once == [count |-> 1, due |-> NextDueAfter(t, at), completed |-> OneShot(t)]
  <1>1. Due(t, due, at, TRUE) = [once EXCEPT !.count = 0] BY DEF Due
  <1> QED BY <1>1

(* datetime_due of a valid trigger is one of its instants.                 *)
LEMMA DatetimeIsInstant ==
    ASSUME NEW t \in Triggers, OneShot(t), ~Invalid(t)
    PROVE  DatetimeDue(t) \in 0 .. MaxTime
  <1>0. MaxTime \in Nat BY NumbersAssumption
  <1>1. PICK a \in 0 .. MaxTime, b \in 0 .. MaxTime : Instants[t] = {a, b}
    BY InstantsAssumption DEF Invalid
  <1>2. \E x \in {a, b} : \A y \in {a, b} : x >= y BY <1>0
  <1>3. \E x \in {a, b} : \A y \in {a, b} : x <= y BY <1>0
  <1>4. Max({a, b}) \in {a, b} BY <1>2 DEF Max
  <1>5. Min({a, b}) \in {a, b} BY <1>3 DEF Min
  <1> QED BY <1>1, <1>4, <1>5 DEF DatetimeDue

-----------------------------------------------------------------------------
(* The inductive invariant.                                                *)

Reads == UNION {[S -> 1 .. MaxRevision] : S \in SUBSET Triggers}
Scans == [at : 1 .. MaxTime, revision : Reads, config : [Watched -> {0, 1}]]
Gathered == [revision : Identities, due : 0 .. MaxTime, paths : SUBSET Files]

(* The types TypeOK leaves open.                                           *)
HiddenTypes ==
    /\ attempted \in [Triggers -> [runs : Nat, since : Nat, starts : Nat, paths : SUBSET Files]]
    /\ watchers \in [Watched -> Watches \cup {None}]
    /\ pending \in [Watched -> Gathered \cup {None}]
    /\ booted \in [starts : Nat, at : 0 .. MaxTime,
                   late : SUBSET (Calendar \X (1 .. MaxRevision))]
    /\ loop = "scan" => sources \in Scans

(* Where there can be runs to request, and what a stopped task has left.   *)
Phases ==
    /\ core = "down" => loop = "stopped"
    /\ loop = "stopped" => seen = {}
    /\ loop \in {"stopped", "wait", "drain"} => runs = None

(* A scan is of this process and of the past.                              *)
Clocks ==
    /\ booted.at <= now
    /\ loop = "scan" => booted.at <= sources.at /\ sources.at <= now

(* Requests still to make for t, and what its row has paid for so far.     *)
Owed(t) == IF runs # None /\ runs.trigger = t THEN runs.count ELSE 0
Charged(t) == attempted[t].runs + Owed(t)

(* A deadline was moved by at least one period for every run it was        *)
(* charged with, and the last of these runs was due by now.                *)
PaidPeriods(t) ==
    /\ Charged(t) * Every <= row[t].due - attempted[t].since
    /\ Charged(t) > 0 => (Charged(t) - 1) * Every <= now - attempted[t].since
    /\ Kind[t] = "cron" => \E k \in Nat : row[t].due = k * Every

PaidOnce(t) ==
    /\ attempted[t].since = DatetimeDue(t) /\ row[t].due = DatetimeDue(t)
    /\ Charged(t) <= 1
    /\ ~row[t].completed => Charged(t) = 0
    /\ Charged(t) > 0 => attempted[t].since <= now

Paid == \A t \in Calendar : row[t] # None =>
            /\ ~Invalid(t)
            /\ IF OneShot(t) THEN PaidOnce(t) ELSE PaidPeriods(t)

(* A startup trigger is marked before its only run is requested.           *)
Started ==
    \A t \in Startup :
        /\ attempted[t].starts + Owed(t) <= 1
        /\ loop # "stopped" /\ t \notin seen => attempted[t].starts + Owed(t) = 0

(* Identities of rows only grow, up to what the scan and the store know.   *)
Revisions ==
    /\ \A t \in Calendar : row[t] # None => row[t].identity <= workflow[t].revision
    /\ loop = "scan" => \A t \in DOMAIN sources.revision :
          /\ sources.revision[t] <= workflow[t].revision
          /\ t \in Calendar /\ row[t] # None => row[t].identity <= sources.revision[t]
    /\ \A p \in booted.late : row[p[1]] # None /\ p[2] <= row[p[1]].identity

(* A late row that this process has seen is settled: it is over or due     *)
(* after the start of the process.                                         *)
Settled ==
    \A p \in booted.late :
        p[1] \in seen /\ row[p[1]].identity = p[2]
            => row[p[1]].completed \/ booted.at <= row[p[1]].due

SchedulerInv ==
    /\ TypeOK /\ HiddenTypes /\ Phases /\ Clocks
    /\ Paid /\ Started /\ Revisions /\ Settled
    /\ MisfireHonoured /\ PendingOfWatcher

-----------------------------------------------------------------------------
(* The numbers among the constants.                                        *)
LEMMA Numbers ==
    /\ MaxTime \in Nat \ {0} /\ Every \in Nat \ {0} /\ MaxRevision \in Nat \ {0}
    /\ Debounce \in Nat \ {0} /\ MaxCatchUp \in Nat \ {0}
  BY NumbersAssumption

(* The clock of the model does not go back.                                *)
LEMMA LaterIsLater ==
    ASSUME now \in 1 .. MaxTime, NEW n \in Nat
    PROVE  Later(n) \in 1 .. MaxTime /\ now <= Later(n)
  BY Numbers DEF Later

(* A visit takes one workflow from what the scan read and nothing else.    *)
LEMMA VisitTakesOne ==
    ASSUME sources \in Scans, NEW t, Visited(t)
    PROVE  /\ sources' \in Scans
           /\ sources'.at = sources.at
           /\ DOMAIN sources'.revision = DOMAIN sources.revision \ {t}
           /\ \A u \in DOMAIN sources'.revision : sources'.revision[u] = sources.revision[u]
  <1> DEFINE rest == [u \in DOMAIN sources.revision \ {t} |-> sources.revision[u]]
  <1>1. PICK S \in SUBSET Triggers : sources.revision \in [S -> 1 .. MaxRevision]
    BY DEF Scans, Reads
  <1>2. rest \in [S \ {t} -> 1 .. MaxRevision] /\ S \ {t} \in SUBSET Triggers
    BY <1>1
  <1>3. rest \in Reads
    BY <1>2 DEF Reads
  <1>4. sources' = [sources EXCEPT !.revision = rest]
    BY DEF Visited
  <1> HIDE DEF rest
  <1>5. sources' \in Scans /\ sources'.at = sources.at /\ sources'.revision = rest
    BY <1>3, <1>4 DEF Scans
  <1> QED BY <1>5 DEF rest

(* What a scan has read is typed.                                          *)
LEMMA ScanReads ==
    ASSUME sources \in Scans, NEW t \in DOMAIN sources.revision
    PROVE  t \in Triggers /\ sources.revision[t] \in 1 .. MaxRevision
           /\ sources.revision[t] \in Identities /\ sources.at \in 1 .. MaxTime
  <1>1. PICK S \in SUBSET Triggers : sources.revision \in [S -> 1 .. MaxRevision]
    BY DEF Scans, Reads
  <1> QED BY <1>1, Numbers DEF Scans, Identities

(* The first deadline of a row.                                            *)
LEMMA InitialIsDue ==
    ASSUME NEW t \in Calendar, ~Invalid(t), NEW at \in 0 .. MaxTime
    PROVE  /\ InitialDue(t, at) \in 0 .. MaxTime + Every
           /\ ~OneShot(t) => InitialDue(t, at) >= at /\ Regular(t, InitialDue(t, at))
           /\ OneShot(t) => InitialDue(t, at) = DatetimeDue(t)
  <1>1. CASE OneShot(t)
    <2>1. InitialDue(t, at) = DatetimeDue(t) BY <1>1 DEF InitialDue, OneShot
    <2> QED BY <1>1, <2>1, DatetimeIsInstant, Numbers DEF Calendar
  <1>2. CASE Kind[t] = "interval"
    <2>1. InitialDue(t, at) = at BY <1>2 DEF InitialDue, OneShot
    <2> QED BY <1>2, <2>1, Numbers DEF OneShot, Regular
  <1>3. CASE Kind[t] = "cron"
    <2>1. InitialDue(t, at) = CronNextDue(at) BY <1>3 DEF InitialDue, OneShot
    <2>2. at \in Nat BY Numbers
    <2>3. CronNextDue(at) \in Nat /\ CronNextDue(at) > at /\ CronNextDue(at) <= at + Every
          /\ Regular(t, CronNextDue(at))
      BY <2>2, CronAfter, Zenon DEF Regular
    <2> QED BY <1>3, <2>1, <2>2, <2>3, Numbers DEF OneShot
  <1> QED BY <1>1, <1>2, <1>3 DEF Calendar, OneShot

(* What advancing the row of t and requesting its runs does: from the      *)
(* invariant, Schedule moves the deadline within the types and pays.       *)
LEMMA ScheduleFacts ==
    ASSUME SchedulerInv, NEW t \in Triggers, Schedule(t)
    PROVE  /\ row[t] \in Rows /\ sources.at \in 1 .. MaxTime /\ t \in Calendar
           /\ sources.revision[t] \in 1 .. MaxRevision
           /\ row[t].identity = sources.revision[t] /\ ~row[t].completed
           /\ row[t].due <= sources.at
           /\ \E next : /\ next = Due(t, row[t].due, sources.at, Recovering(t))
                        /\ next.count \in 0 .. MaxTime + 1
                        /\ next.due \in 0 .. MaxTime + Every
                        /\ next.completed \in BOOLEAN
                        /\ row' = [row EXCEPT ![t].due = next.due, ![t].completed = next.completed]
                        /\ runs' = [trigger |-> t, revision |-> sources.revision[t],
                                    count |-> next.count, due |-> row[t].due]
  <1>1. /\ t \in Calendar /\ row[t] \in Rows /\ ~row[t].completed /\ row[t].due <= sources.at
        /\ sources \in Scans /\ t \in DOMAIN sources.revision
        /\ row[t].identity = sources.revision[t] /\ row[t] # None
    BY DEF SchedulerInv, TypeOK, HiddenTypes, Schedule, HasRow, Visit
  <1>2. /\ sources.at \in 1 .. MaxTime /\ sources.revision[t] \in 1 .. MaxRevision
    BY <1>1, ScanReads
  <1>3. PICK next : next = Due(t, row[t].due, sources.at, Recovering(t))
    OBVIOUS
  <1>4. /\ row' = [row EXCEPT ![t].due = next.due, ![t].completed = next.completed]
        /\ runs' = [trigger |-> t, revision |-> sources.revision[t],
                    count |-> next.count, due |-> row[t].due]
    BY <1>3, Zenon DEF Schedule, Advance
  <1>5. /\ row[t].due \in 0 .. MaxTime + Every /\ Recovering(t) \in BOOLEAN
        /\ row[t].due \in Nat /\ sources.at \in Nat
    BY <1>1, <1>2, Numbers DEF Rows, Recovering
  <1>6. CASE OneShot(t)
    <2>1. row[t].due = DatetimeDue(t)
      BY <1>1, <1>6, Zenon DEF SchedulerInv, Paid, PaidOnce
    <2>2. next = Due(t, DatetimeDue(t), sources.at, Recovering(t))
      BY <2>1, <1>3
    <2>3. next.count \in {0, 1}
      BY <2>2, <1>1, <1>5, <1>6, DueOnce, Zenon
    <2> t \in Calendar /\ Recovering(t) \in BOOLEAN BY <1>1, <1>5
    <2>4. next.due = DatetimeDue(t)
      BY <2>2, <1>6, DueOnce, Zenon
    <2>5. next.completed = TRUE
      BY <2>2, <1>1, <1>5, <1>6, DueOnce, Zenon
    <2>6. next.count \in 0 .. MaxTime + 1 BY <2>3, Numbers
    <2> QED BY <1>1, <1>2, <1>3, <1>4, <1>5, <2>1, <2>4, <2>5, <2>6
  <1>7. CASE ~OneShot(t)
    <2>1. Regular(t, row[t].due)
      BY <1>1, <1>7, Zenon DEF SchedulerInv, Paid, PaidPeriods, Regular
    <2>2. /\ next.count \in Nat /\ next.due \in Nat /\ next.completed = FALSE
          /\ next.count <= sources.at - row[t].due + 1 /\ next.due <= sources.at + Every
      BY <2>1, <1>1, <1>3, <1>5, <1>7, DuePeriods, Zenon
    <2>3. next.count \in 0 .. MaxTime + 1 /\ next.due \in 0 .. MaxTime + Every
      BY <2>2, <1>2, <1>5, Numbers
    <2> QED BY <1>1, <1>2, <1>3, <1>4, <2>2, <2>3
  <1> QED BY <1>6, <1>7

-----------------------------------------------------------------------------
(* The steps.                                                              *)

(* Every step keeps every variable in its type.                            *)
LEMMA TypeStep == SchedulerInv /\ [Next]_vars => TypeOK'
  <1> SUFFICES ASSUME SchedulerInv, [Next]_vars PROVE TypeOK'
    OBVIOUS
  <1>0. UNCHANGED <<now, workflow, row, core, loop, runs, seen, channel>> => TypeOK'
    BY DEF SchedulerInv, TypeOK
  <1>1. CASE BeginScan
    BY <1>1 DEF BeginScan, store, task, fs, ghost, SchedulerInv, TypeOK
  <1>2. CASE Sync
    BY <1>2 DEF Sync, store, task, fs, ghost, SchedulerInv, TypeOK
  <1>3. CASE Execute
    <2>1. runs \in Runs /\ runs.count > 0 BY <1>3 DEF Execute, SchedulerInv, TypeOK
    <2>2. runs' \in Runs BY <2>1, <1>3, Numbers DEF Execute, Runs
    <2> QED BY <2>2, <1>3 DEF Execute, store, fs, SchedulerInv, TypeOK
  <1>4. CASE Executed
    BY <1>4 DEF Executed, store, task, fs, ghost, SchedulerInv, TypeOK
  <1>5. CASE Drain
    <2>1. channel' \in Seq(Watched \X Files) BY <1>5 DEF Drain, HandleEvent, SchedulerInv, TypeOK
    <2> QED BY <2>1, <1>5 DEF Drain, HandleEvent, store, SchedulerInv, TypeOK
  <1>6. CASE RecordOverflow
    BY <1>6 DEF RecordOverflow, store, task, fs, ghost, SchedulerInv, TypeOK
  <1>7. CASE Wait
    BY <1>7 DEF Wait, store, task, fs, ghost, SchedulerInv, TypeOK
  <1>8. CASE Wake
    BY <1>8 DEF Wake, store, task, fs, ghost, SchedulerInv, TypeOK
  <1>9. CASE WakeForEvent
    <2>1. channel' \in Seq(Watched \X Files) BY <1>9 DEF WakeForEvent, HandleEvent, SchedulerInv, TypeOK
    <2> QED BY <2>1, <1>9 DEF WakeForEvent, HandleEvent, store, SchedulerInv, TypeOK
  <1>10. CASE StopTask
    BY <1>10 DEF StopTask, store, task, fs, ghost, SchedulerInv, TypeOK
  <1>11. ASSUME NEW t \in Triggers, Establish(t) PROVE TypeOK'
    <2>1. sources \in Scans /\ t \in DOMAIN sources.revision /\ t \in Calendar /\ ~Invalid(t)
      BY <1>11 DEF Establish, Visit, SchedulerInv, HiddenTypes
    <2>2. sources.at \in 0 .. MaxTime /\ sources.revision[t] \in Identities
      BY <2>1, ScanReads, Numbers
    <2>3. NewRow(t, sources.at, sources.revision[t]) \in Rows
      BY <2>1, <2>2, InitialIsDue DEF NewRow, Rows
    <2> QED BY <2>3, <1>11 DEF Establish, fs, SchedulerInv, TypeOK
  <1>12. ASSUME NEW t \in Triggers, Adopt(t) PROVE TypeOK'
    <2>1. sources \in Scans /\ t \in DOMAIN sources.revision /\ row[t] # None
      BY <1>12 DEF Adopt, Visit, SchedulerInv, HiddenTypes
    <2>2. sources.revision[t] \in Identities BY <2>1, ScanReads
    <2>3. row[t] \in Rows BY <2>1 DEF SchedulerInv, TypeOK
    <2>4. [row[t] EXCEPT !.identity = sources.revision[t]] \in Rows BY <2>2, <2>3 DEF Rows
    <2>5. row' \in [Triggers -> Rows \cup {None}] BY <2>4, <1>12 DEF Adopt, SchedulerInv, TypeOK
    <2> QED BY <2>5, <1>12 DEF Adopt, task, fs, SchedulerInv, TypeOK
  <1>13. ASSUME NEW t \in Triggers, NotDue(t) PROVE TypeOK'
    BY <1>13 DEF NotDue, store, task, fs, ghost, SchedulerInv, TypeOK
  <1>14. ASSUME NEW t \in Triggers, Schedule(t) PROVE TypeOK'
    <2>1. PICK next : /\ next.count \in 0 .. MaxTime + 1
                      /\ next.due \in 0 .. MaxTime + Every
                      /\ next.completed \in BOOLEAN
                      /\ row' = [row EXCEPT ![t].due = next.due, ![t].completed = next.completed]
                      /\ runs' = [trigger |-> t, revision |-> sources.revision[t],
                                  count |-> next.count, due |-> row[t].due]
      BY <1>14, ScheduleFacts
    <2>2. /\ row[t] \in Rows /\ sources.revision[t] \in 1 .. MaxRevision
          /\ sources.at \in 1 .. MaxTime /\ row[t].due <= sources.at
      BY <1>14, ScheduleFacts
    <2>3. [row[t] EXCEPT !.due = next.due, !.completed = next.completed] \in Rows
      BY <2>1, <2>2 DEF Rows
    <2>4. row' \in [Triggers -> Rows \cup {None}] BY <2>1, <2>3 DEF SchedulerInv, TypeOK
    <2>5. runs' \in Runs BY <2>1, <2>2, Numbers DEF Runs, Rows, Identities
    <2> QED BY <2>4, <2>5, <1>14 DEF Schedule, fs, SchedulerInv, TypeOK
  <1>15. ASSUME NEW t \in Triggers, ReportInvalid(t) PROVE TypeOK'
    BY <1>0, <1>15, Zenon DEF ReportInvalid, store, task, fs, ghost
  <1>16. ASSUME NEW t \in Triggers, Start(t) PROVE TypeOK'
    <2>1. sources.revision[t] \in Identities
      BY <1>16, ScanReads DEF Start, Visit, SchedulerInv, HiddenTypes
    <2>2. now \in 0 .. MaxTime /\ 1 \in 0 .. MaxTime + 1 BY Numbers DEF SchedulerInv, TypeOK
    <2>3. runs' = None \/ runs' \in Runs BY <2>1, <2>2, <1>16 DEF Start, Runs
    <2> QED BY <2>3, <1>16 DEF Start, store, fs, SchedulerInv, TypeOK
  <1>17. ASSUME NEW t \in Watched, TakeDue(t) PROVE TypeOK'
    <2>1. pending[t] \in Gathered BY <1>17 DEF TakeDue, SchedulerInv, HiddenTypes
    <2>2. now \in 0 .. MaxTime /\ 1 \in 0 .. MaxTime + 1 /\ t \in Triggers
      BY Numbers DEF SchedulerInv, TypeOK, Watched
    <2>3. runs' \in Runs BY <2>1, <2>2, <1>17 DEF TakeDue, Runs, Gathered
    <2> QED BY <2>3, <1>17 DEF TakeDue, store, SchedulerInv, TypeOK
  <1>18. CASE Tick
    <2>1. now' \in 1 .. MaxTime BY <1>18, LaterIsLater DEF Tick, SchedulerInv, TypeOK
    <2> QED BY <2>1, <1>18 DEF Tick, store, fs, SchedulerInv, TypeOK
  <1>19. CASE Boot
    BY <1>19 DEF Boot, store, task, fs, ghost, SchedulerInv, TypeOK
  <1>20. CASE Ready
    BY <1>20 DEF Ready, store, task, fs, ghost, SchedulerInv, TypeOK
  <1>21. CASE Shutdown
    BY <1>21 DEF Shutdown, store, task, fs, ghost, SchedulerInv, TypeOK
  <1>22. CASE Exit
    BY <1>22 DEF Exit, Gone, store, task, fs, ghost, SchedulerInv, TypeOK
  <1>23. CASE Crash
    BY <1>23 DEF Crash, Gone, store, task, fs, ghost, SchedulerInv, TypeOK
  <1>24. ASSUME NEW t \in Triggers, Edit(t) PROVE TypeOK'
    <2>1. workflow' \in [Triggers -> [exists : BOOLEAN, enabled : BOOLEAN,
                                     revision : 1 .. MaxRevision, config : {0, 1}]]
      <3>1. PICK config \in {0, 1} :
               workflow' = [workflow EXCEPT ![t].revision = @ + 1,
                              ![t].config = IF t \in Watched THEN config ELSE @]
        BY <1>24 DEF Edit
      <3>2. workflow[t].revision + 1 \in 1 .. MaxRevision
        BY <1>24, Numbers DEF Edit, SchedulerInv, TypeOK
      <3> DEFINE Kept == [exists : BOOLEAN, enabled : BOOLEAN,
                          revision : 1 .. MaxRevision, config : {0, 1}]
                 was == workflow[t]
                 new == [was EXCEPT !.revision = @ + 1,
                                    !.config = IF t \in Watched THEN config ELSE @]
      <3>3. workflow' = [workflow EXCEPT ![t] = new] BY <3>1
      <3>4. was \in Kept /\ workflow \in [Triggers -> Kept] BY DEF SchedulerInv, TypeOK
      <3>5. was.revision + 1 \in 1 .. MaxRevision BY <3>2
      <3> HIDE DEF was
      <3>6. new \in Kept BY <3>4, <3>5
      <3> HIDE DEF new, Kept
      <3>7. workflow' \in [Triggers -> Kept] BY <3>3, <3>4, <3>6
      <3> QED BY <3>7 DEF Kept
    <2> QED BY <2>1, <1>24 DEF Edit, task, fs, SchedulerInv, TypeOK
  <1>25. ASSUME NEW t \in Triggers, SetStatus(t) PROVE TypeOK'
    BY <1>25 DEF SetStatus, task, fs, SchedulerInv, TypeOK
  <1>26. ASSUME NEW t \in Watched, NEW path \in Files, Notify(t, path) PROVE TypeOK'
    <2>1. channel \in Seq(Watched \X Files) /\ <<t, path>> \in Watched \X Files
      BY DEF SchedulerInv, TypeOK
    <2>2. channel' = channel \/ channel' = Append(channel, <<t, path>>)
      BY <1>26 DEF Notify
    <2>3. channel' \in Seq(Watched \X Files)
      <3> DEFINE All == Watched \X Files
                 note == <<t, path>>
      <3> HIDE DEF All, note
      <3>1. channel \in Seq(All) /\ note \in All BY <2>1 DEF All, note
      <3>2. Append(channel, note) \in Seq(All) BY <3>1
      <3> QED BY <2>2, <3>1, <3>2 DEF All, note
    <2> QED BY <2>3, <1>26 DEF Notify, store, task, SchedulerInv, TypeOK
  <1>27. CASE UNCHANGED vars
    BY <1>0, <1>27, Zenon DEF vars, store, task, fs, ghost
  <1> QED
    BY <1>1, <1>2, <1>3, <1>4, <1>5, <1>6, <1>7, <1>8, <1>9, <1>10, <1>11, <1>12, <1>13, <1>14,
       <1>15, <1>16, <1>17, <1>18, <1>19, <1>20, <1>21, <1>22, <1>23, <1>24, <1>25, <1>26, <1>27, Zenon DEF Next, Task

(* ... and what the type invariant leaves open.                            *)
LEMMA HiddenStep == SchedulerInv /\ [Next]_vars => HiddenTypes'
  <1> SUFFICES ASSUME SchedulerInv, [Next]_vars PROVE HiddenTypes'
    OBVIOUS
  <1>0. UNCHANGED <<attempted, watchers, pending, booted, loop, sources>> => HiddenTypes'
    BY DEF SchedulerInv, HiddenTypes
  <1>1. CASE BeginScan
    <2>1. CASE core = "ready"
      <3> DEFINE on == {u \in Triggers : workflow[u].enabled}
                 read == [u \in on |-> workflow[u].revision]
                 watch == [u \in Watched |-> workflow[u].config]
      <3>1. sources' = [at |-> now, revision |-> read, config |-> watch]
        BY <2>1, <1>1 DEF BeginScan
      <3>2. \A u \in Triggers : workflow[u].revision \in 1 .. MaxRevision /\ workflow[u].config \in {0, 1}
        BY DEF SchedulerInv, TypeOK
      <3>3. on \in SUBSET Triggers /\ read \in [on -> 1 .. MaxRevision] BY <3>2
      <3>4. read \in Reads BY <3>3 DEF Reads
      <3>5. watch \in [Watched -> {0, 1}] BY <3>2 DEF Watched
      <3> HIDE DEF read, watch
      <3>6. sources' \in Scans BY <3>1, <3>4, <3>5 DEF Scans, SchedulerInv, TypeOK
      <3> QED BY <3>6, <1>1 DEF BeginScan, fs, ghost, SchedulerInv, HiddenTypes
    <2>2. CASE core # "ready"
      BY <2>2, <1>1 DEF BeginScan, fs, ghost, SchedulerInv, HiddenTypes
    <2> QED BY <2>1, <2>2
  <1>2. CASE Sync
    <2>1. sources \in Scans BY <1>2 DEF Sync, SchedulerInv, HiddenTypes
    <2>2. \A t \in DOMAIN sources.revision : sources.revision[t] \in Identities
      BY <2>1, ScanReads
    <2>3. \A t \in Watched : sources.config[t] \in {0, 1} BY <2>1 DEF Scans
    <2>4. watchers' \in [Watched -> Watches \cup {None}]
      BY <2>2, <2>3, <1>2 DEF Sync, Watches
    <2>5. pending' \in [Watched -> Gathered \cup {None}]
      BY <1>2 DEF Sync, SchedulerInv, HiddenTypes
    <2> QED BY <2>4, <2>5, <1>2 DEF Sync, ghost, SchedulerInv, HiddenTypes
  <1>3. CASE Execute
    <2>1. runs.trigger \in Triggers BY <1>3 DEF Execute, SchedulerInv, TypeOK, Runs
    <2>2. attempted' \in [Triggers -> [runs : Nat, since : Nat, starts : Nat, paths : SUBSET Files]]
      BY <2>1, <1>3 DEF Execute, SchedulerInv, HiddenTypes
    <2> QED BY <2>2, <1>3 DEF Execute, fs, SchedulerInv, HiddenTypes
  <1>4. CASE Executed
    BY <1>0, <1>4, Zenon DEF Executed, store, task, fs, ghost
  <1>5. CASE Drain
    <2> DEFINE t == Head(channel)[1]
               path == Head(channel)[2]
    <2>1. channel # <<>> BY <1>5 DEF Drain, HandleEvent
    <2>2. t \in Watched /\ path \in Files BY <2>1 DEF SchedulerInv, TypeOK
    <2>3. pending' = IF watchers[t] # None /\ Matches(path)
                     THEN [pending EXCEPT ![t] = Coalesce(t, path)] ELSE pending
      BY <1>5 DEF Drain, HandleEvent
    <2>4. ASSUME watchers[t] # None PROVE Coalesce(t, path) \in Gathered
      <3>1. watchers[t] \in Watches /\ pending[t] \in Gathered \cup {None}
        BY <2>2, <2>4 DEF SchedulerInv, HiddenTypes
      <3>2. now \in 1 .. MaxTime /\ Debounce \in Nat /\ MaxTime \in Nat
        BY Numbers DEF SchedulerInv, TypeOK
      <3>3. Later(Debounce) \in 1 .. MaxTime BY <3>2, LaterIsLater, Zenon
      <3>4. Later(Debounce) \in 0 .. MaxTime BY <3>2, <3>3
      <3> QED BY <2>2, <3>1, <3>4 DEF Coalesce, TriggerPaths, Gathered, Watches
    <2> HIDE DEF t, path
    <2>5. pending' \in [Watched -> Gathered \cup {None}]
      BY <2>2, <2>3, <2>4 DEF SchedulerInv, HiddenTypes
    <2> QED BY <2>5, <1>5 DEF Drain, HandleEvent, ghost, SchedulerInv, HiddenTypes
  <1>6. CASE RecordOverflow
    BY <1>6 DEF RecordOverflow, store, task, fs, ghost, SchedulerInv, HiddenTypes
  <1>7. CASE Wait
    BY <1>7 DEF Wait, store, task, fs, ghost, SchedulerInv, HiddenTypes
  <1>8. CASE Wake
    BY <1>8 DEF Wake, store, task, fs, ghost, SchedulerInv, HiddenTypes
  <1>9. CASE WakeForEvent
    <2> DEFINE t == Head(channel)[1]
               path == Head(channel)[2]
    <2>1. channel # <<>> BY <1>9 DEF WakeForEvent, HandleEvent
    <2>2. t \in Watched /\ path \in Files BY <2>1 DEF SchedulerInv, TypeOK
    <2>3. pending' = IF watchers[t] # None /\ Matches(path)
                     THEN [pending EXCEPT ![t] = Coalesce(t, path)] ELSE pending
      BY <1>9 DEF WakeForEvent, HandleEvent
    <2>4. ASSUME watchers[t] # None PROVE Coalesce(t, path) \in Gathered
      <3>1. watchers[t] \in Watches /\ pending[t] \in Gathered \cup {None}
        BY <2>2, <2>4 DEF SchedulerInv, HiddenTypes
      <3>2. now \in 1 .. MaxTime /\ Debounce \in Nat /\ MaxTime \in Nat
        BY Numbers DEF SchedulerInv, TypeOK
      <3>3. Later(Debounce) \in 1 .. MaxTime BY <3>2, LaterIsLater, Zenon
      <3>4. Later(Debounce) \in 0 .. MaxTime BY <3>2, <3>3
      <3> QED BY <2>2, <3>1, <3>4 DEF Coalesce, TriggerPaths, Gathered, Watches
    <2> HIDE DEF t, path
    <2>5. pending' \in [Watched -> Gathered \cup {None}]
      BY <2>2, <2>3, <2>4 DEF SchedulerInv, HiddenTypes
    <2> QED BY <2>5, <1>9 DEF WakeForEvent, HandleEvent, ghost, SchedulerInv, HiddenTypes
  <1>10. CASE StopTask
    BY <1>10 DEF StopTask, store, task, fs, ghost, SchedulerInv, HiddenTypes
  <1>11. ASSUME NEW t \in Triggers, Establish(t) PROVE HiddenTypes'
    <2>1. sources \in Scans /\ t \in DOMAIN sources.revision /\ t \in Calendar /\ ~Invalid(t)
      BY <1>11 DEF Establish, Visit, SchedulerInv, HiddenTypes
    <2>2. sources' \in Scans BY <2>1, VisitTakesOne, <1>11 DEF Establish
    <2>3. sources.at \in 0 .. MaxTime BY <2>1, Numbers DEF Scans
    <2>4. InitialDue(t, sources.at) \in Nat BY <2>1, <2>3, InitialIsDue, Numbers
    <2>5. attempted' \in [Triggers -> [runs : Nat, since : Nat, starts : Nat, paths : SUBSET Files]]
      <3>1. PICK d \in Nat : d = InitialDue(t, sources.at) BY <2>4
      <3>2. attempted' = [attempted EXCEPT ![t].runs = 0, ![t].since = d]
        BY <3>1, <1>11, Zenon DEF Establish, Established
      <3>3. attempted \in [Triggers -> [runs : Nat, since : Nat, starts : Nat, paths : SUBSET Files]]
        BY DEF SchedulerInv, HiddenTypes
      <3> QED BY <3>2, <3>3
    <2> QED BY <2>2, <2>5, <1>11 DEF Establish, fs, SchedulerInv, HiddenTypes
  <1>12. ASSUME NEW t \in Triggers, Adopt(t) PROVE HiddenTypes'
    BY <1>0, <1>12, Zenon DEF Adopt, store, task, fs, ghost
  <1>13. ASSUME NEW t \in Triggers, NotDue(t) PROVE HiddenTypes'
    <2>1. sources \in Scans BY <1>13 DEF NotDue, HasRow, Visit, SchedulerInv, HiddenTypes
    <2>2. sources' \in Scans BY <2>1, VisitTakesOne, <1>13 DEF NotDue
    <2> QED BY <2>2, <1>13 DEF NotDue, store, fs, ghost, SchedulerInv, HiddenTypes
  <1>14. ASSUME NEW t \in Triggers, Schedule(t) PROVE HiddenTypes'
    <2>1. sources \in Scans BY <1>14 DEF Schedule, HasRow, Visit, SchedulerInv, HiddenTypes
    <2>2. sources' \in Scans BY <2>1, VisitTakesOne, <1>14 DEF Schedule
    <2> QED BY <2>2, <1>14 DEF Schedule, store, fs, ghost, SchedulerInv, HiddenTypes
  <1>15. ASSUME NEW t \in Triggers, ReportInvalid(t) PROVE HiddenTypes'
    <2>1. sources \in Scans BY <1>15 DEF ReportInvalid, Visit, SchedulerInv, HiddenTypes
    <2>2. sources' \in Scans BY <2>1, VisitTakesOne, <1>15 DEF ReportInvalid
    <2> QED BY <2>2, <1>15 DEF ReportInvalid, store, fs, ghost, SchedulerInv, HiddenTypes
  <1>16. ASSUME NEW t \in Triggers, Start(t) PROVE HiddenTypes'
    <2>1. sources \in Scans BY <1>16 DEF Start, Visit, SchedulerInv, HiddenTypes
    <2>2. sources' \in Scans BY <2>1, VisitTakesOne, <1>16 DEF Start
    <2> QED BY <2>2, <1>16 DEF Start, store, fs, ghost, SchedulerInv, HiddenTypes
  <1>17. ASSUME NEW t \in Watched, TakeDue(t) PROVE HiddenTypes'
    <2>1. pending[t] \in Gathered /\ t \in Triggers BY <1>17 DEF TakeDue, SchedulerInv, HiddenTypes, Watched
    <2>2. attempted' \in [Triggers -> [runs : Nat, since : Nat, starts : Nat, paths : SUBSET Files]]
      BY <2>1, <1>17 DEF TakeDue, Gathered, SchedulerInv, HiddenTypes
    <2>3. pending' \in [Watched -> Gathered \cup {None}]
      BY <1>17 DEF TakeDue, SchedulerInv, HiddenTypes
    <2> QED BY <2>2, <2>3, <1>17 DEF TakeDue, SchedulerInv, HiddenTypes
  <1>18. CASE Tick
    BY <1>0, <1>18, Zenon DEF Tick, store, task, fs, ghost
  <1>19. CASE Boot
    <2> DEFINE due == {u \in Calendar : row[u] # None /\ row[u].due < now
                       /\ ~row[u].completed /\ workflow[u].revision = row[u].identity}
               late == {<<u, workflow[u].revision>> : u \in due}
    <2>1. booted' = [starts |-> booted.starts + 1, at |-> now, late |-> late]
      BY <1>19 DEF Boot
    <2>2. late \in SUBSET (Calendar \X (1 .. MaxRevision))
      BY DEF SchedulerInv, TypeOK, Calendar
    <2>3. now \in 0 .. MaxTime BY Numbers DEF SchedulerInv, TypeOK
    <2> HIDE DEF late
    <2>4. booted' \in [starts : Nat, at : 0 .. MaxTime,
                       late : SUBSET (Calendar \X (1 .. MaxRevision))]
      BY <2>1, <2>2, <2>3 DEF SchedulerInv, HiddenTypes
    <2>5. attempted' \in [Triggers -> [runs : Nat, since : Nat, starts : Nat, paths : SUBSET Files]]
      BY <1>19 DEF Boot, SchedulerInv, HiddenTypes
    <2> QED BY <2>4, <2>5, <1>19 DEF Boot, fs, SchedulerInv, HiddenTypes
  <1>20. CASE Ready
    BY <1>0, <1>20, Zenon DEF Ready, store, task, fs, ghost
  <1>21. CASE Shutdown
    BY <1>0, <1>21, Zenon DEF Shutdown, store, task, fs, ghost
  <1>22. CASE Exit
    BY <1>22 DEF Exit, Gone, store, task, fs, ghost, SchedulerInv, HiddenTypes
  <1>23. CASE Crash
    BY <1>23 DEF Crash, Gone, store, task, fs, ghost, SchedulerInv, HiddenTypes
  <1>24. ASSUME NEW t \in Triggers, Edit(t) PROVE HiddenTypes'
    BY <1>0, <1>24, Zenon DEF Edit, store, task, fs, ghost
  <1>25. ASSUME NEW t \in Triggers, SetStatus(t) PROVE HiddenTypes'
    BY <1>0, <1>25, Zenon DEF SetStatus, store, task, fs, ghost
  <1>26. ASSUME NEW t \in Watched, NEW path \in Files, Notify(t, path) PROVE HiddenTypes'
    BY <1>0, <1>26, Zenon DEF Notify, store, task, fs, ghost
  <1>27. CASE UNCHANGED vars
    BY <1>0, <1>27, Zenon DEF vars, store, task, fs, ghost
  <1> QED
    BY <1>1, <1>2, <1>3, <1>4, <1>5, <1>6, <1>7, <1>8, <1>9, <1>10, <1>11, <1>12, <1>13, <1>14,
       <1>15, <1>16, <1>17, <1>18, <1>19, <1>20, <1>21, <1>22, <1>23, <1>24, <1>25, <1>26, <1>27, Zenon DEF Next, Task

(* Every step keeps pending runs with their watchers.                      *)
LEMMA PendingStep == SchedulerInv /\ [Next]_vars => PendingOfWatcher'
  <1> SUFFICES ASSUME SchedulerInv, [Next]_vars PROVE PendingOfWatcher'
    OBVIOUS
  <1>0. UNCHANGED <<watchers, pending>> => PendingOfWatcher'
    BY DEF SchedulerInv, PendingOfWatcher
  <1>1. CASE BeginScan
    BY <1>0, <1>1, Zenon DEF BeginScan, store, task, fs, ghost
  <1>2. CASE Sync
    <2> SUFFICES ASSUME NEW t \in Watched, pending'[t] # None
                 PROVE  watchers'[t] # None /\ pending'[t].revision = watchers'[t].revision
      BY DEF PendingOfWatcher
    <2>1. KeepsPending(t) /\ pending'[t] = pending[t] BY <1>2 DEF Sync
    <2>2. pending[t].revision = sources.revision[t]
      BY <2>1, <1>2 DEF SchedulerInv, PendingOfWatcher, KeepsPending
    <2>3. watchers'[t] = [revision |-> sources.revision[t], config |-> sources.config[t]]
      BY <2>1, <1>2 DEF Sync, KeepsPending
    <2>4. watchers[t] \in Watches /\ watchers[t] = watchers'[t]
      BY <2>1, <2>3 DEF KeepsPending, SchedulerInv, HiddenTypes, Watches
    <2> QED BY <2>1, <2>2, <2>3, <2>4, NoneAssumption
  <1>3. CASE Execute
    BY <1>0, <1>3, Zenon DEF Execute, store, task, fs, ghost
  <1>4. CASE Executed
    BY <1>0, <1>4, Zenon DEF Executed, store, task, fs, ghost
  <1>5. CASE Drain
    BY <1>5 DEF Drain, HandleEvent, Coalesce, SchedulerInv, HiddenTypes, PendingOfWatcher
  <1>6. CASE RecordOverflow
    BY <1>0, <1>6, Zenon DEF RecordOverflow, store, task, fs, ghost
  <1>7. CASE Wait
    BY <1>0, <1>7, Zenon DEF Wait, store, task, fs, ghost
  <1>8. CASE Wake
    BY <1>0, <1>8, Zenon DEF Wake, store, task, fs, ghost
  <1>9. CASE WakeForEvent
    BY <1>9 DEF WakeForEvent, HandleEvent, Coalesce, SchedulerInv, HiddenTypes, PendingOfWatcher
  <1>10. CASE StopTask
    BY <1>10 DEF StopTask, PendingOfWatcher
  <1>11. ASSUME NEW t \in Triggers, Establish(t) PROVE PendingOfWatcher'
    BY <1>0, <1>11, Zenon DEF Establish, store, task, fs, ghost
  <1>12. ASSUME NEW t \in Triggers, Adopt(t) PROVE PendingOfWatcher'
    BY <1>0, <1>12, Zenon DEF Adopt, store, task, fs, ghost
  <1>13. ASSUME NEW t \in Triggers, NotDue(t) PROVE PendingOfWatcher'
    BY <1>0, <1>13, Zenon DEF NotDue, store, task, fs, ghost
  <1>14. ASSUME NEW t \in Triggers, Schedule(t) PROVE PendingOfWatcher'
    BY <1>0, <1>14, Zenon DEF Schedule, store, task, fs, ghost
  <1>15. ASSUME NEW t \in Triggers, ReportInvalid(t) PROVE PendingOfWatcher'
    BY <1>0, <1>15, Zenon DEF ReportInvalid, store, task, fs, ghost
  <1>16. ASSUME NEW t \in Triggers, Start(t) PROVE PendingOfWatcher'
    BY <1>0, <1>16, Zenon DEF Start, store, task, fs, ghost
  <1>17. ASSUME NEW t \in Watched, TakeDue(t) PROVE PendingOfWatcher'
    BY <1>17 DEF TakeDue, SchedulerInv, HiddenTypes, PendingOfWatcher
  <1>18. CASE Tick
    BY <1>0, <1>18, Zenon DEF Tick, store, task, fs, ghost
  <1>19. CASE Boot
    BY <1>0, <1>19, Zenon DEF Boot, store, task, fs, ghost
  <1>20. CASE Ready
    BY <1>0, <1>20, Zenon DEF Ready, store, task, fs, ghost
  <1>21. CASE Shutdown
    BY <1>0, <1>21, Zenon DEF Shutdown, store, task, fs, ghost
  <1>22. CASE Exit
    BY <1>22 DEF Exit, Gone, PendingOfWatcher
  <1>23. CASE Crash
    BY <1>23 DEF Crash, Gone, PendingOfWatcher
  <1>24. ASSUME NEW t \in Triggers, Edit(t) PROVE PendingOfWatcher'
    BY <1>0, <1>24, Zenon DEF Edit, store, task, fs, ghost
  <1>25. ASSUME NEW t \in Triggers, SetStatus(t) PROVE PendingOfWatcher'
    BY <1>0, <1>25, Zenon DEF SetStatus, store, task, fs, ghost
  <1>26. ASSUME NEW t \in Watched, NEW path \in Files, Notify(t, path) PROVE PendingOfWatcher'
    BY <1>0, <1>26, Zenon DEF Notify, store, task, fs, ghost
  <1>27. CASE UNCHANGED vars
    BY <1>0, <1>27, Zenon DEF vars, store, task, fs, ghost
  <1> QED
    BY <1>1, <1>2, <1>3, <1>4, <1>5, <1>6, <1>7, <1>8, <1>9, <1>10, <1>11, <1>12, <1>13, <1>14,
       <1>15, <1>16, <1>17, <1>18, <1>19, <1>20, <1>21, <1>22, <1>23, <1>24, <1>25, <1>26, <1>27, Zenon DEF Next, Task

(* Runs are requested while scanning or firing only.                       *)
LEMMA PhaseStep == SchedulerInv /\ [Next]_vars => Phases'
  <1> SUFFICES ASSUME SchedulerInv, [Next]_vars PROVE Phases'
    OBVIOUS
  <1>0. UNCHANGED <<core, loop, seen, runs>> => Phases'
    BY DEF SchedulerInv, Phases
  <1>1. CASE BeginScan
    BY <1>1 DEF BeginScan, store, task, fs, ghost, SchedulerInv, Phases, TypeOK
  <1>2. CASE Sync
    BY <1>2 DEF Sync, store, task, fs, ghost, SchedulerInv, Phases, TypeOK
  <1>3. CASE Execute
    BY <1>3 DEF Execute, store, task, fs, ghost, SchedulerInv, Phases, TypeOK
  <1>4. CASE Executed
    BY <1>4 DEF Executed, store, task, fs, ghost, SchedulerInv, Phases, TypeOK
  <1>5. CASE Drain
    BY <1>0, <1>5, Zenon DEF Drain, HandleEvent, store, task, fs, ghost
  <1>6. CASE RecordOverflow
    BY <1>6 DEF RecordOverflow, store, task, fs, ghost, SchedulerInv, Phases, TypeOK
  <1>7. CASE Wait
    BY <1>7 DEF Wait, store, task, fs, ghost, SchedulerInv, Phases, TypeOK
  <1>8. CASE Wake
    BY <1>8 DEF Wake, store, task, fs, ghost, SchedulerInv, Phases, TypeOK
  <1>9. CASE WakeForEvent
    BY <1>9 DEF WakeForEvent, HandleEvent, store, task, fs, ghost, SchedulerInv, Phases, TypeOK
  <1>10. CASE StopTask
    BY <1>10 DEF StopTask, store, task, fs, ghost, SchedulerInv, Phases, TypeOK
  <1>11. ASSUME NEW t \in Triggers, Establish(t) PROVE Phases'
    BY <1>11 DEF Establish, Visit, store, task, fs, ghost, SchedulerInv, Phases, TypeOK
  <1>12. ASSUME NEW t \in Triggers, Adopt(t) PROVE Phases'
    BY <1>0, <1>12, Zenon DEF Adopt, store, task, fs, ghost
  <1>13. ASSUME NEW t \in Triggers, NotDue(t) PROVE Phases'
    BY <1>13 DEF NotDue, HasRow, Visit, store, task, fs, ghost, SchedulerInv, Phases, TypeOK
  <1>14. ASSUME NEW t \in Triggers, Schedule(t) PROVE Phases'
    BY <1>14 DEF Schedule, HasRow, Visit, store, task, fs, ghost, SchedulerInv, Phases, TypeOK
  <1>15. ASSUME NEW t \in Triggers, ReportInvalid(t) PROVE Phases'
    BY <1>0, <1>15, Zenon DEF ReportInvalid, store, task, fs, ghost
  <1>16. ASSUME NEW t \in Triggers, Start(t) PROVE Phases'
    BY <1>16 DEF Start, Visit, store, task, fs, ghost, SchedulerInv, Phases, TypeOK
  <1>17. ASSUME NEW t \in Watched, TakeDue(t) PROVE Phases'
    BY <1>17 DEF TakeDue, store, task, fs, ghost, SchedulerInv, Phases, TypeOK
  <1>18. CASE Tick
    BY <1>0, <1>18, Zenon DEF Tick, store, task, fs, ghost
  <1>19. CASE Boot
    BY <1>19 DEF Boot, store, task, fs, ghost, SchedulerInv, Phases, TypeOK
  <1>20. CASE Ready
    BY <1>20 DEF Ready, store, task, fs, ghost, SchedulerInv, Phases, TypeOK
  <1>21. CASE Shutdown
    BY <1>21 DEF Shutdown, store, task, fs, ghost, SchedulerInv, Phases, TypeOK
  <1>22. CASE Exit
    BY <1>22 DEF Exit, Gone, store, task, fs, ghost, SchedulerInv, Phases, TypeOK
  <1>23. CASE Crash
    BY <1>23 DEF Crash, Gone, store, task, fs, ghost, SchedulerInv, Phases, TypeOK
  <1>24. ASSUME NEW t \in Triggers, Edit(t) PROVE Phases'
    BY <1>0, <1>24, Zenon DEF Edit, store, task, fs, ghost
  <1>25. ASSUME NEW t \in Triggers, SetStatus(t) PROVE Phases'
    BY <1>0, <1>25, Zenon DEF SetStatus, store, task, fs, ghost
  <1>26. ASSUME NEW t \in Watched, NEW path \in Files, Notify(t, path) PROVE Phases'
    BY <1>0, <1>26, Zenon DEF Notify, store, task, fs, ghost
  <1>27. CASE UNCHANGED vars
    BY <1>0, <1>27, Zenon DEF vars, store, task, fs, ghost
  <1> QED
    BY <1>1, <1>2, <1>3, <1>4, <1>5, <1>6, <1>7, <1>8, <1>9, <1>10, <1>11, <1>12, <1>13, <1>14,
       <1>15, <1>16, <1>17, <1>18, <1>19, <1>20, <1>21, <1>22, <1>23, <1>24, <1>25, <1>26, <1>27, Zenon DEF Next, Task

(* The clock goes on, and a scan keeps its time.                           *)
LEMMA ClockStep == SchedulerInv /\ [Next]_vars => Clocks'
  <1> SUFFICES ASSUME SchedulerInv, [Next]_vars PROVE Clocks'
    OBVIOUS
  <1>0. UNCHANGED <<booted, now, loop, sources>> => Clocks'
    BY DEF SchedulerInv, Clocks
  <1>1. CASE BeginScan
    BY <1>1 DEF BeginScan, store, task, fs, ghost, SchedulerInv, Clocks, TypeOK, HiddenTypes, Scans
  <1>2. CASE Sync
    BY <1>2 DEF Sync, store, task, fs, ghost, SchedulerInv, Clocks, TypeOK, HiddenTypes, Scans
  <1>3. CASE Execute
    BY <1>0, <1>3, Zenon DEF Execute, store, task, fs, ghost
  <1>4. CASE Executed
    BY <1>0, <1>4, Zenon DEF Executed, store, task, fs, ghost
  <1>5. CASE Drain
    BY <1>0, <1>5, Zenon DEF Drain, HandleEvent, store, task, fs, ghost
  <1>6. CASE RecordOverflow
    BY <1>6 DEF RecordOverflow, store, task, fs, ghost, SchedulerInv, Clocks, TypeOK, HiddenTypes, Scans
  <1>7. CASE Wait
    BY <1>7 DEF Wait, store, task, fs, ghost, SchedulerInv, Clocks, TypeOK, HiddenTypes, Scans
  <1>8. CASE Wake
    BY <1>8 DEF Wake, store, task, fs, ghost, SchedulerInv, Clocks, TypeOK, HiddenTypes, Scans
  <1>9. CASE WakeForEvent
    BY <1>9 DEF WakeForEvent, HandleEvent, store, task, fs, ghost, SchedulerInv, Clocks, TypeOK, HiddenTypes, Scans
  <1>10. CASE StopTask
    BY <1>10 DEF StopTask, store, task, fs, ghost, SchedulerInv, Clocks, TypeOK, HiddenTypes, Scans
  <1>11. ASSUME NEW t \in Triggers, Establish(t) PROVE Clocks'
    <2>1. sources \in Scans /\ loop = "scan" BY <1>11 DEF SchedulerInv, HiddenTypes, Establish, Visit
    <2>2. sources'.at = sources.at BY <2>1, VisitTakesOne, <1>11 DEF Establish
    <2> QED BY <2>1, <2>2, <1>11 DEF Establish, SchedulerInv, Clocks, store
  <1>12. ASSUME NEW t \in Triggers, Adopt(t) PROVE Clocks'
    BY <1>0, <1>12, Zenon DEF Adopt, store, task, fs, ghost
  <1>13. ASSUME NEW t \in Triggers, NotDue(t) PROVE Clocks'
    <2>1. sources \in Scans /\ loop = "scan" BY <1>13 DEF SchedulerInv, HiddenTypes, NotDue, HasRow, Visit
    <2>2. sources'.at = sources.at BY <2>1, VisitTakesOne, <1>13 DEF NotDue
    <2> QED BY <2>1, <2>2, <1>13 DEF NotDue, SchedulerInv, Clocks, store
  <1>14. ASSUME NEW t \in Triggers, Schedule(t) PROVE Clocks'
    <2>1. sources \in Scans /\ loop = "scan" BY <1>14 DEF SchedulerInv, HiddenTypes, Schedule, HasRow, Visit
    <2>2. sources'.at = sources.at BY <2>1, VisitTakesOne, <1>14 DEF Schedule
    <2> QED BY <2>1, <2>2, <1>14 DEF Schedule, SchedulerInv, Clocks, store
  <1>15. ASSUME NEW t \in Triggers, ReportInvalid(t) PROVE Clocks'
    <2>1. sources \in Scans /\ loop = "scan" BY <1>15 DEF SchedulerInv, HiddenTypes, ReportInvalid, Visit
    <2>2. sources'.at = sources.at BY <2>1, VisitTakesOne, <1>15 DEF ReportInvalid
    <2> QED BY <2>1, <2>2, <1>15 DEF ReportInvalid, SchedulerInv, Clocks, store
  <1>16. ASSUME NEW t \in Triggers, Start(t) PROVE Clocks'
    <2>1. sources \in Scans /\ loop = "scan" BY <1>16 DEF SchedulerInv, HiddenTypes, Start, Visit
    <2>2. sources'.at = sources.at BY <2>1, VisitTakesOne, <1>16 DEF Start
    <2> QED BY <2>1, <2>2, <1>16 DEF Start, SchedulerInv, Clocks, store
  <1>17. ASSUME NEW t \in Watched, TakeDue(t) PROVE Clocks'
    BY <1>0, <1>17, Zenon DEF TakeDue, store, task, fs, ghost
  <1>18. CASE Tick
    <2>1. now <= now' /\ now' \in 1 .. MaxTime BY <1>18, LaterIsLater DEF Tick, SchedulerInv, TypeOK
    <2>2. booted.at \in Nat /\ now \in Nat /\ now' \in Nat BY <2>1, Numbers DEF SchedulerInv, TypeOK, HiddenTypes
    <2>3. loop = "scan" => sources.at \in Nat BY Numbers DEF SchedulerInv, HiddenTypes, Scans
    <2>4. UNCHANGED <<booted, loop, sources>> BY <1>18 DEF Tick
    <2> QED BY <2>1, <2>2, <2>3, <2>4 DEF SchedulerInv, Clocks
  <1>19. CASE Boot
    BY <1>19, Numbers DEF Boot, SchedulerInv, Clocks, TypeOK
  <1>20. CASE Ready
    BY <1>0, <1>20, Zenon DEF Ready, store, task, fs, ghost
  <1>21. CASE Shutdown
    BY <1>0, <1>21, Zenon DEF Shutdown, store, task, fs, ghost
  <1>22. CASE Exit
    BY <1>22 DEF Exit, Gone, store, task, fs, ghost, SchedulerInv, Clocks, TypeOK, HiddenTypes, Scans
  <1>23. CASE Crash
    BY <1>23 DEF Crash, Gone, store, task, fs, ghost, SchedulerInv, Clocks, TypeOK, HiddenTypes, Scans
  <1>24. ASSUME NEW t \in Triggers, Edit(t) PROVE Clocks'
    BY <1>0, <1>24, Zenon DEF Edit, store, task, fs, ghost
  <1>25. ASSUME NEW t \in Triggers, SetStatus(t) PROVE Clocks'
    BY <1>0, <1>25, Zenon DEF SetStatus, store, task, fs, ghost
  <1>26. ASSUME NEW t \in Watched, NEW path \in Files, Notify(t, path) PROVE Clocks'
    BY <1>0, <1>26, Zenon DEF Notify, store, task, fs, ghost
  <1>27. CASE UNCHANGED vars
    BY <1>0, <1>27, Zenon DEF vars, store, task, fs, ghost
  <1> QED
    BY <1>1, <1>2, <1>3, <1>4, <1>5, <1>6, <1>7, <1>8, <1>9, <1>10, <1>11, <1>12, <1>13, <1>14,
       <1>15, <1>16, <1>17, <1>18, <1>19, <1>20, <1>21, <1>22, <1>23, <1>24, <1>25, <1>26, <1>27, Zenon DEF Next, Task

(* A startup trigger owes its run from when it is marked until it is asked. *)
LEMMA StartedStep == SchedulerInv /\ [Next]_vars => Started'
  <1> SUFFICES ASSUME SchedulerInv, [Next]_vars PROVE Started'
    OBVIOUS
  <1>0. UNCHANGED <<attempted, runs, loop, seen>> => Started'
    BY DEF SchedulerInv, Started, Owed
  <1>1. CASE BeginScan
    BY <1>1 DEF BeginScan, store, ghost, SchedulerInv, Started, Owed
  <1>2. CASE Sync
    BY <1>2 DEF Sync, store, ghost, SchedulerInv, Started, Owed
  <1>3. CASE Execute
    <2> SUFFICES ASSUME NEW t \in Startup
                 PROVE  attempted'[t].starts + Owed(t)' <= attempted[t].starts + Owed(t)
                        /\ attempted'[t].starts + Owed(t)' \in Nat /\ attempted[t].starts + Owed(t) \in Nat
      BY <1>3 DEF Execute, SchedulerInv, Started
    <2>1. runs \in Runs /\ runs # None /\ runs.count \in Nat /\ runs.count > 0 /\ t \in Triggers
      BY <1>3, Numbers DEF Execute, SchedulerInv, TypeOK, Runs, Startup
    <2>2. attempted[t].starts \in Nat /\ attempted[t].starts + 1 \in Nat BY <2>1 DEF SchedulerInv, HiddenTypes
    <2>3. CASE runs.trigger = t
      <3>1. Owed(t) = runs.count BY <2>1, <2>3 DEF Owed
      <3>2. runs'.count = runs.count - 1 /\ runs'.trigger = t
        BY <2>1, <2>3, <1>3 DEF Execute, Runs
      <3>3. attempted'[t].starts \in {attempted[t].starts, attempted[t].starts + 1}
        BY <2>1, <2>3, <1>3 DEF Execute, SchedulerInv, HiddenTypes
      <3>4. Owed(t)' \in {runs.count - 1, 0} BY <3>2 DEF Owed
      <3> QED BY <2>1, <2>2, <3>1, <3>3, <3>4
    <2>4. CASE runs.trigger # t
      <3>1. attempted'[t].starts = attempted[t].starts
        BY <2>1, <2>4, <1>3 DEF Execute, SchedulerInv, HiddenTypes
      <3>2. runs'.trigger # t BY <2>1, <2>4, <1>3 DEF Execute, Runs
      <3> QED BY <2>2, <2>4, <3>1, <3>2 DEF Owed
    <2> QED BY <2>3, <2>4
  <1>4. CASE Executed
    BY <1>4 DEF Executed, ghost, SchedulerInv, Started, Owed
  <1>5. CASE Drain
    BY <1>0, <1>5, Zenon DEF Drain, HandleEvent, store, task, fs, ghost
  <1>6. CASE RecordOverflow
    BY <1>6 DEF RecordOverflow, store, ghost, SchedulerInv, Started, Owed
  <1>7. CASE Wait
    BY <1>7 DEF Wait, store, ghost, SchedulerInv, Started, Owed
  <1>8. CASE Wake
    BY <1>8 DEF Wake, store, ghost, SchedulerInv, Started, Owed
  <1>9. CASE WakeForEvent
    BY <1>9 DEF WakeForEvent, HandleEvent, store, ghost, SchedulerInv, Started, Owed
  <1>10. CASE StopTask
    BY <1>10 DEF StopTask, ghost, SchedulerInv, Started, Owed
  <1>11. ASSUME NEW t \in Triggers, Establish(t) PROVE Started'
    <2> SUFFICES ASSUME NEW u \in Startup
                 PROVE  attempted'[u].starts = attempted[u].starts /\ Owed(u)' = Owed(u)
                        /\ (u \in seen' <=> u \in seen) /\ loop' = loop
      BY DEF SchedulerInv, Started
    <2>1. u # t /\ u \in Triggers BY <1>11 DEF Establish, Calendar, Startup
    <2> QED BY <2>1, <1>11 DEF Establish, Established, Owed, SchedulerInv, HiddenTypes
  <1>12. ASSUME NEW t \in Triggers, Adopt(t) PROVE Started'
    BY <1>0, <1>12, Zenon DEF Adopt, store, task, fs, ghost
  <1>13. ASSUME NEW t \in Triggers, NotDue(t) PROVE Started'
    <2>1. \A u \in Startup : u # t BY <1>13 DEF NotDue, HasRow, Calendar, Startup
    <2> QED BY <2>1, <1>13 DEF NotDue, ghost, Owed, SchedulerInv, Started
  <1>14. ASSUME NEW t \in Triggers, Schedule(t) PROVE Started'
    <2> SUFFICES ASSUME NEW u \in Startup
                 PROVE  attempted'[u].starts = attempted[u].starts /\ Owed(u)' = 0 /\ Owed(u) = 0
                        /\ (u \in seen' <=> u \in seen) /\ loop' = loop
      BY DEF SchedulerInv, Started
    <2>1. u # t /\ u \in Triggers BY <1>14 DEF Schedule, HasRow, Calendar, Startup
    <2>2. runs = None BY <1>14 DEF Schedule, HasRow, Visit
    <2>3. runs'.trigger = t BY <1>14 DEF Schedule
    <2> QED BY <2>1, <2>2, <2>3, <1>14 DEF Schedule, ghost, Owed
  <1>15. ASSUME NEW t \in Triggers, ReportInvalid(t) PROVE Started'
    BY <1>0, <1>15, Zenon DEF ReportInvalid, store, task, fs, ghost
  <1>16. ASSUME NEW t \in Triggers, Start(t) PROVE Started'
    <2>1. runs = None /\ loop = "scan" /\ loop' = "scan" /\ seen' = seen \cup {t} /\ attempted' = attempted
      BY <1>16 DEF Start, Visit, ghost
    <2> SUFFICES ASSUME NEW u \in Startup
                 PROVE  /\ attempted[u].starts + Owed(u)' <= 1
                        /\ u \notin seen' => attempted[u].starts + Owed(u)' = 0
      BY <2>1 DEF Started
    <2>2. Owed(u) = 0 /\ attempted[u].starts \in Nat
      BY <2>1 DEF Owed, Startup, SchedulerInv, HiddenTypes
    <2>3. attempted[u].starts <= 1 /\ (u \notin seen => attempted[u].starts = 0)
      BY <2>1, <2>2 DEF SchedulerInv, Started
    <2>4. CASE u = t /\ t \notin seen
      <3>1. Owed(u)' \in {0, 1} BY <2>4, <1>16 DEF Start, Owed
      <3> QED BY <2>1, <2>2, <2>3, <2>4, <3>1
    <2>5. CASE ~(u = t /\ t \notin seen)
      <3>1. Owed(u)' = 0 BY <2>5, <1>16 DEF Start, Owed
      <3> QED BY <2>1, <2>2, <2>3, <2>5, <3>1
    <2> QED BY <2>4, <2>5
  <1>17. ASSUME NEW t \in Watched, TakeDue(t) PROVE Started'
    <2> SUFFICES ASSUME NEW u \in Startup
                 PROVE  attempted'[u].starts = attempted[u].starts /\ Owed(u)' = 0 /\ Owed(u) = 0
                        /\ seen' = seen /\ loop' = loop
      BY DEF SchedulerInv, Started
    <2>1. u # t /\ u \in Triggers /\ t \in Triggers BY DEF Watched, Startup
    <2> QED BY <2>1, <1>17 DEF TakeDue, Owed, SchedulerInv, HiddenTypes
  <1>18. CASE Tick
    BY <1>0, <1>18, Zenon DEF Tick, store, task, fs, ghost
  <1>19. CASE Boot
    <2>1. runs = None /\ runs' = None /\ \A t \in Triggers : attempted'[t].starts = 0
      BY <1>19 DEF Boot, SchedulerInv, Phases, HiddenTypes
    <2> QED BY <2>1 DEF Started, Owed, Startup
  <1>20. CASE Ready
    BY <1>0, <1>20, Zenon DEF Ready, store, task, fs, ghost
  <1>21. CASE Shutdown
    BY <1>0, <1>21, Zenon DEF Shutdown, store, task, fs, ghost
  <1>22. CASE Exit
    <2>1. runs' = None /\ loop' = "stopped" /\ attempted' = attempted BY <1>22 DEF Exit, Gone, ghost
    <2> SUFFICES ASSUME NEW t \in Startup PROVE attempted[t].starts + 0 <= 1
      BY <2>1 DEF Started, Owed
    <2>2. attempted[t].starts \in Nat /\ Owed(t) \in Nat /\ attempted[t].starts + Owed(t) <= 1
      BY Numbers DEF SchedulerInv, Started, HiddenTypes, TypeOK, Runs, Owed, Startup
    <2> QED BY <2>2
  <1>23. CASE Crash
    <2>1. runs' = None /\ loop' = "stopped" /\ attempted' = attempted BY <1>23 DEF Crash, Gone, ghost
    <2> SUFFICES ASSUME NEW t \in Startup PROVE attempted[t].starts + 0 <= 1
      BY <2>1 DEF Started, Owed
    <2>2. attempted[t].starts \in Nat /\ Owed(t) \in Nat /\ attempted[t].starts + Owed(t) <= 1
      BY Numbers DEF SchedulerInv, Started, HiddenTypes, TypeOK, Runs, Owed, Startup
    <2> QED BY <2>2
  <1>24. ASSUME NEW t \in Triggers, Edit(t) PROVE Started'
    BY <1>0, <1>24, Zenon DEF Edit, store, task, fs, ghost
  <1>25. ASSUME NEW t \in Triggers, SetStatus(t) PROVE Started'
    BY <1>0, <1>25, Zenon DEF SetStatus, store, task, fs, ghost
  <1>26. ASSUME NEW t \in Watched, NEW path \in Files, Notify(t, path) PROVE Started'
    BY <1>0, <1>26, Zenon DEF Notify, store, task, fs, ghost
  <1>27. CASE UNCHANGED vars
    BY <1>0, <1>27, Zenon DEF vars, store, task, fs, ghost
  <1> QED
    BY <1>1, <1>2, <1>3, <1>4, <1>5, <1>6, <1>7, <1>8, <1>9, <1>10, <1>11, <1>12, <1>13, <1>14,
       <1>15, <1>16, <1>17, <1>18, <1>19, <1>20, <1>21, <1>22, <1>23, <1>24, <1>25, <1>26, <1>27, Zenon DEF Next, Task

(* The rows keep their identities.                                         *)
SameIdentities ==
    \A u \in Triggers : /\ row'[u] # None <=> row[u] # None
                        /\ row[u] # None => row'[u].identity = row[u].identity

(* advance_scheduled_trigger leaves the identity of the row alone.         *)
LEMMA ScheduleKeepsIdentities ==
    ASSUME SchedulerInv, NEW t \in Triggers, Schedule(t)
    PROVE  SameIdentities
  <1>1. PICK next : /\ next.due \in 0 .. MaxTime + Every /\ next.completed \in BOOLEAN
                    /\ row' = [row EXCEPT ![t].due = next.due, ![t].completed = next.completed]
    BY ScheduleFacts
  <1>2. row[t] \in Rows BY ScheduleFacts
  <1>3. row'[t] \in Rows /\ row'[t].identity = row[t].identity
    BY <1>1, <1>2 DEF Rows, SchedulerInv, TypeOK
  <1>4. \A u \in Triggers \ {t} : row'[u] = row[u]
    BY <1>1 DEF SchedulerInv, TypeOK
  <1> QED BY <1>2, <1>3, <1>4, NoneAssumption DEF SameIdentities

(* Identities grow, and stay behind what the scan and the store know.      *)
LEMMA RevisionStep == SchedulerInv /\ [Next]_vars => Revisions'
  <1> SUFFICES ASSUME SchedulerInv, [Next]_vars PROVE Revisions'
    OBVIOUS
  <1>0. UNCHANGED <<row, workflow, loop, sources, booted>> => Revisions'
    BY DEF SchedulerInv, Revisions
  <1>1. CASE BeginScan
    <2>1. UNCHANGED <<row, workflow, booted>> BY <1>1 DEF BeginScan, store
    <2> SUFFICES ASSUME loop' = "scan", NEW t \in DOMAIN sources'.revision
                 PROVE  /\ sources'.revision[t] <= workflow[t].revision
                        /\ t \in Calendar /\ row[t] # None => row[t].identity <= sources'.revision[t]
      BY <2>1 DEF SchedulerInv, Revisions
    <2>2. t \in Triggers /\ sources'.revision[t] = workflow[t].revision
      BY <1>1 DEF BeginScan
    <2>3. workflow[t].revision \in Nat BY <2>2, Numbers DEF SchedulerInv, TypeOK
    <2> QED BY <2>2, <2>3 DEF SchedulerInv, Revisions
  <1>2. CASE Sync
    BY <1>2 DEF Sync, store, SchedulerInv, Revisions
  <1>3. CASE Execute
    BY <1>0, <1>3, Zenon DEF Execute, store, task, fs, ghost
  <1>4. CASE Executed
    BY <1>0, <1>4, Zenon DEF Executed, store, task, fs, ghost
  <1>5. CASE Drain
    BY <1>0, <1>5, Zenon DEF Drain, HandleEvent, store, task, fs, ghost
  <1>6. CASE RecordOverflow
    BY <1>6 DEF RecordOverflow, store, SchedulerInv, Revisions
  <1>7. CASE Wait
    BY <1>7 DEF Wait, store, SchedulerInv, Revisions
  <1>8. CASE Wake
    BY <1>8 DEF Wake, store, SchedulerInv, Revisions
  <1>9. CASE WakeForEvent
    BY <1>9 DEF WakeForEvent, HandleEvent, store, SchedulerInv, Revisions
  <1>10. CASE StopTask
    BY <1>10 DEF StopTask, store, SchedulerInv, Revisions
  <1>11. ASSUME NEW t \in Triggers, Establish(t) PROVE Revisions'
    <2>1. sources \in Scans /\ loop = "scan" /\ t \in DOMAIN sources.revision /\ t \in Calendar
      BY <1>11 DEF Establish, Visit, SchedulerInv, HiddenTypes
    <2>2. /\ DOMAIN sources'.revision = DOMAIN sources.revision \ {t}
          /\ \A u \in DOMAIN sources'.revision : sources'.revision[u] = sources.revision[u]
      BY <2>1, VisitTakesOne, <1>11 DEF Establish
    <2>3. sources.revision[t] \in 1 .. MaxRevision /\ sources.revision[t] <= workflow[t].revision
          /\ sources.revision[t] \in Nat
      BY <2>1, ScanReads, Numbers DEF SchedulerInv, Revisions
    <2>4. row'[t] \in Rows /\ row'[t].identity = sources.revision[t] /\ row'[t] # None
          /\ \A u \in Triggers \ {t} : row'[u] = row[u]
      <3>1. row' \in [Triggers -> Rows \cup {None}] BY TypeStep DEF TypeOK
      <3>2. row'[t] = NewRow(t, sources.at, sources.revision[t])
            /\ \A u \in Triggers \ {t} : row'[u] = row[u]
        BY <1>11 DEF Establish, SchedulerInv, TypeOK
      <3>3. row'[t].identity = sources.revision[t] /\ row'[t] \in Rows
        <4>1. sources.at \in 0 .. MaxTime BY <2>1, Numbers DEF Scans
        <4>2. InitialDue(t, sources.at) \in 0 .. MaxTime + Every
          BY <2>1, <4>1, InitialIsDue, <1>11 DEF Establish
        <4> QED BY <2>3, <3>2, <4>2, Numbers DEF NewRow, Rows, Identities
      <3> QED BY <3>1, <3>2, <3>3, NoneAssumption
    <2>5. row[t] # None => row[t].identity <= sources.revision[t] BY <2>1 DEF SchedulerInv, Revisions
    <2>6. ASSUME NEW p \in booted.late PROVE row'[p[1]] # None /\ p[2] <= row'[p[1]].identity
      <3>1. p[1] \in Triggers /\ p[2] \in 1 .. MaxRevision BY DEF SchedulerInv, HiddenTypes, Calendar
      <3>2. row[p[1]] # None /\ p[2] <= row[p[1]].identity BY DEF SchedulerInv, Revisions
      <3>3. row[p[1]].identity \in Nat BY <3>1, <3>2, Numbers DEF SchedulerInv, TypeOK, Rows, Identities
      <3>4. CASE p[1] = t BY <3>1, <3>2, <3>3, <3>4, <2>3, <2>4, <2>5, Numbers
      <3>5. CASE p[1] # t BY <3>1, <3>2, <3>5, <2>4
      <3> QED BY <3>4, <3>5
    <2>7. UNCHANGED <<workflow, loop, booted>> BY <1>11 DEF Establish
    <2>8. \A u \in DOMAIN sources.revision : u \in Triggers BY <2>1, ScanReads
    <2> QED BY <2>1, <2>2, <2>3, <2>4, <2>6, <2>7, <2>8 DEF SchedulerInv, Revisions, Calendar
  <1>12. ASSUME NEW t \in Triggers, Adopt(t) PROVE Revisions'
    <2>1. sources \in Scans /\ loop = "scan" /\ t \in DOMAIN sources.revision /\ t \in Calendar
      BY <1>12 DEF Adopt, Visit, SchedulerInv, HiddenTypes
    <2>3. sources.revision[t] \in 1 .. MaxRevision /\ sources.revision[t] <= workflow[t].revision
          /\ sources.revision[t] \in Nat
      BY <2>1, ScanReads, Numbers DEF SchedulerInv, Revisions
    <2>4. row'[t] \in Rows /\ row'[t].identity = sources.revision[t] /\ row'[t] # None
          /\ \A u \in Triggers \ {t} : row'[u] = row[u]
      <3>1. row' \in [Triggers -> Rows \cup {None}] BY TypeStep DEF TypeOK
      <3>2. row[t] \in Rows BY <1>12 DEF Adopt, SchedulerInv, TypeOK
      <3>3. /\ row'[t] \in Rows /\ row'[t].identity = sources.revision[t]
            /\ \A u \in Triggers \ {t} : row'[u] = row[u]
        <4> DEFINE new == [row[t] EXCEPT !.identity = sources.revision[t]]
        <4>1. row'[t] = new /\ \A u \in Triggers \ {t} : row'[u] = row[u]
          BY <1>12 DEF Adopt, SchedulerInv, TypeOK
        <4>2. sources.revision[t] \in Identities BY <2>3, Numbers DEF Identities
        <4>3. new \in Rows /\ new.identity = sources.revision[t] BY <3>2, <4>2 DEF Rows
        <4> QED BY <4>1, <4>3
      <3> QED BY <3>1, <3>2, <3>3, NoneAssumption
    <2>5. row[t] # None => row[t].identity <= sources.revision[t] BY <2>1 DEF SchedulerInv, Revisions
    <2>6. ASSUME NEW p \in booted.late PROVE row'[p[1]] # None /\ p[2] <= row'[p[1]].identity
      <3>1. p[1] \in Triggers /\ p[2] \in 1 .. MaxRevision BY DEF SchedulerInv, HiddenTypes, Calendar
      <3>2. row[p[1]] # None /\ p[2] <= row[p[1]].identity BY DEF SchedulerInv, Revisions
      <3>3. row[p[1]].identity \in Nat BY <3>1, <3>2, Numbers DEF SchedulerInv, TypeOK, Rows, Identities
      <3>4. CASE p[1] = t BY <3>1, <3>2, <3>3, <3>4, <2>3, <2>4, <2>5, Numbers
      <3>5. CASE p[1] # t BY <3>1, <3>2, <3>5, <2>4
      <3> QED BY <3>4, <3>5
    <2>7. UNCHANGED <<workflow, loop, booted, sources>> BY <1>12 DEF Adopt, task
    <2>8. \A u \in DOMAIN sources.revision : u \in Triggers BY <2>1, ScanReads
    <2> QED BY <2>1, <2>3, <2>4, <2>6, <2>7, <2>8 DEF SchedulerInv, Revisions, Calendar
  <1>13. ASSUME NEW t \in Triggers, NotDue(t) PROVE Revisions'
    <2>1. sources \in Scans /\ loop = "scan" BY <1>13 DEF NotDue, HasRow, Visit, SchedulerInv, HiddenTypes
    <2>2. /\ DOMAIN sources'.revision \subseteq DOMAIN sources.revision
          /\ \A u \in DOMAIN sources'.revision : sources'.revision[u] = sources.revision[u]
      BY <2>1, VisitTakesOne, <1>13 DEF NotDue
    <2> QED BY <2>1, <2>2, <1>13 DEF NotDue, store, SchedulerInv, Revisions
  <1>14. ASSUME NEW t \in Triggers, Schedule(t) PROVE Revisions'
    <2>1. sources \in Scans /\ loop = "scan" /\ t \in DOMAIN sources.revision /\ t \in Calendar
      BY <1>14 DEF Schedule, HasRow, Visit, SchedulerInv, HiddenTypes
    <2>2. /\ DOMAIN sources'.revision \subseteq DOMAIN sources.revision
          /\ \A u \in DOMAIN sources'.revision : sources'.revision[u] = sources.revision[u]
      BY <2>1, VisitTakesOne, <1>14 DEF Schedule
    <2>3. SameIdentities /\ UNCHANGED <<workflow, loop, booted>>
      BY <1>14, ScheduleKeepsIdentities DEF Schedule
    <2>4. \A p \in booted.late : p[1] \in Triggers BY DEF SchedulerInv, HiddenTypes, Calendar
    <2>5. \A u \in DOMAIN sources.revision : u \in Triggers BY <2>1, ScanReads
    <2> QED BY <2>1, <2>2, <2>3, <2>4, <2>5 DEF SameIdentities, SchedulerInv, Revisions, Calendar
  <1>15. ASSUME NEW t \in Triggers, ReportInvalid(t) PROVE Revisions'
    <2>1. sources \in Scans /\ loop = "scan" BY <1>15 DEF ReportInvalid, Visit, SchedulerInv, HiddenTypes
    <2>2. /\ DOMAIN sources'.revision \subseteq DOMAIN sources.revision
          /\ \A u \in DOMAIN sources'.revision : sources'.revision[u] = sources.revision[u]
      BY <2>1, VisitTakesOne, <1>15 DEF ReportInvalid
    <2> QED BY <2>1, <2>2, <1>15 DEF ReportInvalid, store, SchedulerInv, Revisions
  <1>16. ASSUME NEW t \in Triggers, Start(t) PROVE Revisions'
    <2>1. sources \in Scans /\ loop = "scan" BY <1>16 DEF Start, Visit, SchedulerInv, HiddenTypes
    <2>2. /\ DOMAIN sources'.revision \subseteq DOMAIN sources.revision
          /\ \A u \in DOMAIN sources'.revision : sources'.revision[u] = sources.revision[u]
      BY <2>1, VisitTakesOne, <1>16 DEF Start
    <2> QED BY <2>1, <2>2, <1>16 DEF Start, store, SchedulerInv, Revisions
  <1>17. ASSUME NEW t \in Watched, TakeDue(t) PROVE Revisions'
    BY <1>0, <1>17, Zenon DEF TakeDue, store, task, fs, ghost
  <1>18. CASE Tick
    BY <1>0, <1>18, Zenon DEF Tick, store, task, fs, ghost
  <1>19. CASE Boot
    <2> DEFINE due == {u \in Calendar : row[u] # None /\ row[u].due < now
                       /\ ~row[u].completed /\ workflow[u].revision = row[u].identity}
    <2>1. booted'.late = {<<u, workflow[u].revision>> : u \in due} BY <1>19 DEF Boot
    <2>2. UNCHANGED <<row, workflow>> /\ loop' = "wait" BY <1>19 DEF Boot, store
    <2>3. ASSUME NEW p \in booted'.late PROVE row[p[1]] # None /\ p[2] <= row[p[1]].identity
      <3>1. PICK u \in due : p = <<u, workflow[u].revision>> BY <2>1
      <3>2. workflow[u].revision \in Nat BY Numbers DEF SchedulerInv, TypeOK, Calendar
      <3> QED BY <3>1, <3>2
    <2> QED BY <2>2, <2>3 DEF SchedulerInv, Revisions
  <1>20. CASE Ready
    BY <1>0, <1>20, Zenon DEF Ready, store, task, fs, ghost
  <1>21. CASE Shutdown
    BY <1>0, <1>21, Zenon DEF Shutdown, store, task, fs, ghost
  <1>22. CASE Exit
    BY <1>22 DEF Exit, Gone, store, SchedulerInv, Revisions
  <1>23. CASE Crash
    BY <1>23 DEF Crash, Gone, store, SchedulerInv, Revisions
  <1>24. ASSUME NEW t \in Triggers, Edit(t) PROVE Revisions'
    <2>1. \A u \in Triggers : workflow[u].revision <= workflow'[u].revision
                              /\ workflow[u].revision \in Nat /\ workflow'[u].revision \in Nat
      BY <1>24, TypeStep, Numbers DEF Edit, SchedulerInv, TypeOK
    <2>2. UNCHANGED <<row, loop, sources, booted>> BY <1>24 DEF Edit, task
    <2>3. \A u \in Calendar : u \in Triggers /\ (row[u] # None => row[u].identity \in Nat)
      BY Numbers DEF SchedulerInv, TypeOK, Rows, Identities, Calendar
    <2>4. loop = "scan" => \A u \in DOMAIN sources.revision :
             u \in Triggers /\ sources.revision[u] \in Nat
      BY ScanReads, Numbers DEF SchedulerInv, HiddenTypes
    <2> QED BY <2>1, <2>2, <2>3, <2>4 DEF SchedulerInv, Revisions
  <1>25. ASSUME NEW t \in Triggers, SetStatus(t) PROVE Revisions'
    <2>1. \A u \in Triggers : workflow'[u].revision = workflow[u].revision
      BY <1>25 DEF SetStatus, SchedulerInv, TypeOK
    <2>2. UNCHANGED <<row, loop, sources, booted>> BY <1>25 DEF SetStatus, task
    <2>3. loop = "scan" => \A u \in DOMAIN sources.revision : u \in Triggers
      BY ScanReads DEF SchedulerInv, HiddenTypes
    <2> QED BY <2>1, <2>2, <2>3 DEF SchedulerInv, Revisions, Calendar
  <1>26. ASSUME NEW t \in Watched, NEW path \in Files, Notify(t, path) PROVE Revisions'
    BY <1>0, <1>26, Zenon DEF Notify, store, task, fs, ghost
  <1>27. CASE UNCHANGED vars
    BY <1>0, <1>27, Zenon DEF vars, store, task, fs, ghost
  <1> QED
    BY <1>1, <1>2, <1>3, <1>4, <1>5, <1>6, <1>7, <1>8, <1>9, <1>10, <1>11, <1>12, <1>13, <1>14,
       <1>15, <1>16, <1>17, <1>18, <1>19, <1>20, <1>21, <1>22, <1>23, <1>24, <1>25, <1>26, <1>27, Zenon DEF Next, Task

(* What Schedule does to the row and the requests of its trigger.           *)
LEMMA SchedulePays ==
    ASSUME SchedulerInv, NEW t \in Triggers, Schedule(t)
    PROVE  /\ runs'.trigger = t /\ runs'.revision = sources.revision[t] /\ runs'.due = row[t].due
           /\ runs'.count \in Nat
           /\ row'[t].completed \/ sources.at <= row'[t].due
           /\ OneShot(t) => /\ runs'.count <= 1 /\ row'[t].completed = TRUE
                            /\ row'[t].due = row[t].due
           /\ ~OneShot(t) => /\ runs'.count * Every <= row'[t].due - row[t].due
                             /\ runs'.count > 0 => (runs'.count - 1) * Every <= sources.at - row[t].due
                             /\ Regular(t, row'[t].due)
           /\ Recovering(t) => /\ Misfire[t] = "skip" => runs'.count = 0
                               /\ Misfire[t] = "runOnce" => runs'.count <= 1
                               /\ runs'.count <= MaxCatchUp
  <1>1. PICK next : /\ next = Due(t, row[t].due, sources.at, Recovering(t))
                    /\ next.count \in 0 .. MaxTime + 1
                    /\ next.due \in 0 .. MaxTime + Every
                    /\ row' = [row EXCEPT ![t].due = next.due, ![t].completed = next.completed]
                    /\ runs' = [trigger |-> t, revision |-> sources.revision[t],
                                count |-> next.count, due |-> row[t].due]
    BY ScheduleFacts
  <1>2. /\ t \in Calendar /\ row[t] \in Rows /\ row[t].due <= sources.at
        /\ sources.at \in Nat /\ row[t].due \in Nat /\ row[t] # None /\ next.count \in Nat
    BY <1>1, ScheduleFacts, Numbers, NoneAssumption DEF Rows
  <1>3. Recovering(t) \in BOOLEAN BY DEF Recovering
  <1>4. /\ runs'.trigger = t /\ runs'.revision = sources.revision[t]
        /\ runs'.due = row[t].due /\ runs'.count = next.count
        /\ row'[t].due = next.due /\ row'[t].completed = next.completed
    BY <1>1, <1>2 DEF SchedulerInv, TypeOK, Rows
  <1>5. ASSUME Recovering(t), Misfire[t] = "skip" PROVE next.count = 0
    <2>1. Recovering(t) = TRUE BY <1>3, <1>5, Zenon
    <2>2. next = Due(t, row[t].due, sources.at, TRUE) BY <1>1, <2>1
    <2> QED BY <2>2, <1>5, SkipRunsNothing, Zenon
  <1>6. CASE OneShot(t)
    <2>1. row[t].due = DatetimeDue(t)
      BY <1>2, <1>6, Zenon DEF SchedulerInv, Paid, PaidOnce
    <2>2. next = Due(t, DatetimeDue(t), sources.at, Recovering(t)) BY <1>1, <2>1
    <2> t \in Calendar BY <1>2
    <2>3. next.count \in {0, 1} BY <2>2, <1>3, <1>6, DueOnce, Zenon
    <2>4. next.due = DatetimeDue(t) BY <2>2, <1>3, <1>6, DueOnce, Zenon
    <2>5. next.completed = TRUE BY <2>2, <1>3, <1>6, DueOnce, Zenon
    <2>6. next.count <= 1 /\ next.count <= MaxCatchUp BY <2>3, Numbers
    <2> QED BY <1>2, <1>4, <1>5, <1>6, <2>1, <2>4, <2>5, <2>6
  <1>7. CASE ~OneShot(t)
    <2>1. Regular(t, row[t].due)
      BY <1>2, <1>7, Zenon DEF SchedulerInv, Paid, PaidPeriods, Regular
    <2>2. /\ next.count * Every <= next.due - row[t].due
          /\ next.count > 0 => (next.count - 1) * Every <= sources.at - row[t].due
      BY <2>1, <1>1, <1>2, <1>3, <1>7, DuePeriods, Zenon
    <2>3. next.due > sources.at /\ Regular(t, next.due)
      BY <2>1, <1>1, <1>2, <1>3, <1>7, DuePeriods, Zenon
    <2>4. ASSUME Recovering(t) PROVE next.count <= MaxCatchUp
      BY <2>1, <2>4, <1>1, <1>2, <1>3, <1>7, DuePeriods, Zenon
    <2>5. ASSUME Recovering(t), Misfire[t] = "runOnce" PROVE next.count <= 1
      BY <2>1, <2>5, <1>1, <1>2, <1>3, <1>7, DuePeriods, Zenon
    <2>6. sources.at <= next.due BY <2>3, <1>1, <1>2, Numbers
    <2>7. row'[t].completed \/ sources.at <= row'[t].due BY <2>6, <1>4
    <2>8. Regular(t, row'[t].due) BY <2>3, <1>4
    <2> QED BY <1>2, <1>4, <1>7, <1>5, <2>2, <2>4, <2>5, <2>7, <2>8
  <1> QED BY <1>6, <1>7

(* A trigger is seen only once its late row is settled.                    *)
LEMMA SettledStep == SchedulerInv /\ [Next]_vars => Settled'
  <1> SUFFICES ASSUME SchedulerInv, [Next]_vars PROVE Settled'
    OBVIOUS
  <1>0. UNCHANGED <<booted, seen, row>> => Settled'
    BY DEF SchedulerInv, Settled
  <1>1. CASE BeginScan
    BY <1>0, <1>1, Zenon DEF BeginScan, store, task, fs, ghost
  <1>2. CASE Sync
    BY <1>0, <1>2, Zenon DEF Sync, store, task, fs, ghost
  <1>3. CASE Execute
    BY <1>0, <1>3, Zenon DEF Execute, store, task, fs, ghost
  <1>4. CASE Executed
    BY <1>0, <1>4, Zenon DEF Executed, store, task, fs, ghost
  <1>5. CASE Drain
    BY <1>0, <1>5, Zenon DEF Drain, HandleEvent, store, task, fs, ghost
  <1>6. CASE RecordOverflow
    BY <1>0, <1>6, Zenon DEF RecordOverflow, store, task, fs, ghost
  <1>7. CASE Wait
    BY <1>0, <1>7, Zenon DEF Wait, store, task, fs, ghost
  <1>8. CASE Wake
    BY <1>0, <1>8, Zenon DEF Wake, store, task, fs, ghost
  <1>9. CASE WakeForEvent
    BY <1>0, <1>9, Zenon DEF WakeForEvent, HandleEvent, store, task, fs, ghost
  <1>10. CASE StopTask
    BY <1>10 DEF StopTask, Settled
  <1>11. ASSUME NEW t \in Triggers, Establish(t) PROVE Settled'
    <2> SUFFICES ASSUME NEW p \in booted.late, p[1] \in seen', row'[p[1]].identity = p[2]
                 PROVE  row'[p[1]].completed \/ booted.at <= row'[p[1]].due
      BY <1>11 DEF Establish, Settled
    <2>1. p[1] \in Calendar /\ p[2] \in Nat /\ p[2] >= 1 /\ p[1] \in Triggers
      BY Numbers DEF SchedulerInv, HiddenTypes, Calendar
    <2>2. row[p[1]] # None /\ p[2] <= row[p[1]].identity /\ row[p[1]] \in Rows /\ row[p[1]].identity \in Nat
      BY <2>1, Numbers DEF SchedulerInv, Revisions, TypeOK, Rows, Identities
    <2>3. CASE p[1] = t
      <3>1. sources \in Scans /\ loop = "scan" /\ t \in DOMAIN sources.revision
        BY <1>11 DEF Establish, Visit, SchedulerInv, HiddenTypes
      <3>2. row[t].identity <= sources.revision[t] /\ row[t].identity # sources.revision[t]
        BY <2>1, <2>2, <2>3, <3>1, <1>11 DEF Establish, SchedulerInv, Revisions
      <3>3. row'[t].identity = sources.revision[t] BY <1>11 DEF Establish, NewRow, SchedulerInv, TypeOK
      <3>4. sources.revision[t] \in Nat BY <3>1, ScanReads, Numbers
      <3> QED BY <2>1, <2>2, <2>3, <3>2, <3>3, <3>4
    <2>4. CASE p[1] # t
      BY <2>1, <2>4, <1>11 DEF Establish, store, SchedulerInv, Settled, TypeOK
    <2> QED BY <2>3, <2>4
  <1>12. ASSUME NEW t \in Triggers, Adopt(t) PROVE Settled'
    <2> SUFFICES ASSUME NEW p \in booted.late, p[1] \in seen', row'[p[1]].identity = p[2]
                 PROVE  row'[p[1]].completed \/ booted.at <= row'[p[1]].due
      BY <1>12 DEF Adopt, Settled
    <2>1. p[1] \in Calendar /\ p[2] \in Nat /\ p[2] >= 1 /\ p[1] \in Triggers
      BY Numbers DEF SchedulerInv, HiddenTypes, Calendar
    <2>2. row[p[1]] # None /\ p[2] <= row[p[1]].identity /\ row[p[1]] \in Rows /\ row[p[1]].identity \in Nat
      BY <2>1, Numbers DEF SchedulerInv, Revisions, TypeOK, Rows, Identities
    <2>3. p[1] # t BY <2>1, <2>2, <1>12 DEF Adopt
    <2> QED BY <2>1, <2>3, <1>12 DEF Adopt, task, SchedulerInv, Settled, TypeOK
  <1>13. ASSUME NEW t \in Triggers, NotDue(t) PROVE Settled'
    <2> SUFFICES ASSUME NEW p \in booted.late, p[1] \in seen', row'[p[1]].identity = p[2]
                 PROVE  row'[p[1]].completed \/ booted.at <= row'[p[1]].due
      BY <1>13 DEF NotDue, store, Settled
    <2>1. p[1] \in Calendar /\ p[2] \in Nat /\ p[2] >= 1 /\ p[1] \in Triggers
      BY Numbers DEF SchedulerInv, HiddenTypes, Calendar
    <2>2. row[p[1]] # None /\ p[2] <= row[p[1]].identity /\ row[p[1]] \in Rows /\ row[p[1]].identity \in Nat
      BY <2>1, Numbers DEF SchedulerInv, Revisions, TypeOK, Rows, Identities
    <2>3. CASE p[1] = t
      <3>1. sources.at \in Nat /\ booted.at \in Nat /\ row[t].due \in Nat /\ booted.at <= sources.at
        BY <2>2, <2>3, Numbers, <1>13 DEF NotDue, HasRow, Visit, SchedulerInv, HiddenTypes, Clocks, Scans, Rows
      <3>2. row[t].completed \/ row[t].due > sources.at BY <1>13 DEF NotDue
      <3> QED BY <2>3, <3>1, <3>2, <1>13 DEF NotDue, store
    <2>4. CASE p[1] # t
      BY <2>1, <2>4, <1>13 DEF NotDue, store, SchedulerInv, Settled, TypeOK
    <2> QED BY <2>3, <2>4
  <1>14. ASSUME NEW t \in Triggers, Schedule(t) PROVE Settled'
    <2> SUFFICES ASSUME NEW p \in booted.late, p[1] \in seen', row'[p[1]].identity = p[2]
                 PROVE  row'[p[1]].completed \/ booted.at <= row'[p[1]].due
      BY <1>14 DEF Schedule, Settled
    <2>1. p[1] \in Calendar /\ p[2] \in Nat /\ p[2] >= 1 /\ p[1] \in Triggers
      BY Numbers DEF SchedulerInv, HiddenTypes, Calendar
    <2>2. row[p[1]] # None /\ p[2] <= row[p[1]].identity /\ row[p[1]] \in Rows /\ row[p[1]].identity \in Nat
      BY <2>1, Numbers DEF SchedulerInv, Revisions, TypeOK, Rows, Identities
    <2>3. CASE p[1] = t
      <3>1. row'[t].completed \/ sources.at <= row'[t].due
        BY <1>14, SchedulePays
      <3>2. sources.at \in Nat /\ booted.at \in Nat /\ booted.at <= sources.at
        BY Numbers, <1>14 DEF Schedule, HasRow, Visit, SchedulerInv, HiddenTypes, Clocks, Scans
      <3>3. row' \in [Triggers -> Rows \cup {None}] /\ row'[t] # None
        BY <1>14, TypeStep, ScheduleKeepsIdentities, <2>2, <2>3 DEF SameIdentities, TypeOK
      <3>4. row'[t].due \in Nat BY <3>3, Numbers DEF Rows
      <3> QED BY <2>3, <3>1, <3>2, <3>4
    <2>4. CASE p[1] # t
      <3>1. row'[p[1]] = row[p[1]]
        BY <2>1, <2>4, <1>14 DEF Schedule, Advance, SchedulerInv, TypeOK
      <3> QED BY <2>4, <3>1, <1>14 DEF Schedule, SchedulerInv, Settled
    <2> QED BY <2>3, <2>4
  <1>15. ASSUME NEW t \in Triggers, ReportInvalid(t) PROVE Settled'
    BY <1>0, <1>15, Zenon DEF ReportInvalid, store, task, fs, ghost
  <1>16. ASSUME NEW t \in Triggers, Start(t) PROVE Settled'
    <2> SUFFICES ASSUME NEW p \in booted.late, p[1] \in seen', row'[p[1]].identity = p[2]
                 PROVE  row'[p[1]].completed \/ booted.at <= row'[p[1]].due
      BY <1>16 DEF Start, store, Settled
    <2>1. p[1] \in Calendar /\ p[2] \in Nat /\ p[2] >= 1 /\ p[1] \in Triggers
      BY Numbers DEF SchedulerInv, HiddenTypes, Calendar
    <2>2. row[p[1]] # None /\ p[2] <= row[p[1]].identity /\ row[p[1]] \in Rows /\ row[p[1]].identity \in Nat
      BY <2>1, Numbers DEF SchedulerInv, Revisions, TypeOK, Rows, Identities
    <2>3. p[1] # t BY <2>1, <1>16 DEF Start, Startup, Calendar
    <2> QED BY <2>1, <2>3, <1>16 DEF Start, store, SchedulerInv, Settled
  <1>17. ASSUME NEW t \in Watched, TakeDue(t) PROVE Settled'
    BY <1>0, <1>17, Zenon DEF TakeDue, store, task, fs, ghost
  <1>18. CASE Tick
    BY <1>0, <1>18, Zenon DEF Tick, store, task, fs, ghost
  <1>19. CASE Boot
    BY <1>19 DEF Boot, SchedulerInv, Phases, Settled
  <1>20. CASE Ready
    BY <1>0, <1>20, Zenon DEF Ready, store, task, fs, ghost
  <1>21. CASE Shutdown
    BY <1>0, <1>21, Zenon DEF Shutdown, store, task, fs, ghost
  <1>22. CASE Exit
    BY <1>22 DEF Exit, Gone, Settled
  <1>23. CASE Crash
    BY <1>23 DEF Crash, Gone, Settled
  <1>24. ASSUME NEW t \in Triggers, Edit(t) PROVE Settled'
    BY <1>0, <1>24, Zenon DEF Edit, store, task, fs, ghost
  <1>25. ASSUME NEW t \in Triggers, SetStatus(t) PROVE Settled'
    BY <1>0, <1>25, Zenon DEF SetStatus, store, task, fs, ghost
  <1>26. ASSUME NEW t \in Watched, NEW path \in Files, Notify(t, path) PROVE Settled'
    BY <1>0, <1>26, Zenon DEF Notify, store, task, fs, ghost
  <1>27. CASE UNCHANGED vars
    BY <1>0, <1>27, Zenon DEF vars, store, task, fs, ghost
  <1> QED
    BY <1>1, <1>2, <1>3, <1>4, <1>5, <1>6, <1>7, <1>8, <1>9, <1>10, <1>11, <1>12, <1>13, <1>14,
       <1>15, <1>16, <1>17, <1>18, <1>19, <1>20, <1>21, <1>22, <1>23, <1>24, <1>25, <1>26, <1>27, Zenon DEF Next, Task

(* What is requested of a late row is what the policy grants.              *)
LEMMA MisfireStep == SchedulerInv /\ [Next]_vars => MisfireHonoured'
  <1> SUFFICES ASSUME SchedulerInv, [Next]_vars PROVE MisfireHonoured'
    OBVIOUS
  <1>0. UNCHANGED <<runs, booted>> => MisfireHonoured'
    BY DEF SchedulerInv, MisfireHonoured
  <1>1. CASE BeginScan
    BY <1>0, <1>1, Zenon DEF BeginScan, store, task, fs, ghost
  <1>2. CASE Sync
    BY <1>0, <1>2, Zenon DEF Sync, store, task, fs, ghost
  <1>3. CASE Execute
    <2>1. runs \in Runs /\ runs # None /\ runs.count \in Nat /\ runs.count > 0
      BY <1>3, Numbers DEF Execute, SchedulerInv, TypeOK, Runs
    <2>2. /\ runs'.trigger = runs.trigger /\ runs'.revision = runs.revision
          /\ runs'.due = runs.due /\ runs'.count = runs.count - 1 /\ booted' = booted
      BY <2>1, <1>3 DEF Execute, Runs
    <2> QED BY <2>1, <2>2, Numbers DEF SchedulerInv, MisfireHonoured
  <1>4. CASE Executed
    BY <1>4 DEF Executed, MisfireHonoured
  <1>5. CASE Drain
    BY <1>0, <1>5, Zenon DEF Drain, HandleEvent, store, task, fs, ghost
  <1>6. CASE RecordOverflow
    BY <1>0, <1>6, Zenon DEF RecordOverflow, store, task, fs, ghost
  <1>7. CASE Wait
    BY <1>0, <1>7, Zenon DEF Wait, store, task, fs, ghost
  <1>8. CASE Wake
    BY <1>0, <1>8, Zenon DEF Wake, store, task, fs, ghost
  <1>9. CASE WakeForEvent
    BY <1>0, <1>9, Zenon DEF WakeForEvent, HandleEvent, store, task, fs, ghost
  <1>10. CASE StopTask
    BY <1>0, <1>10, Zenon DEF StopTask, store, task, fs, ghost
  <1>11. ASSUME NEW t \in Triggers, Establish(t) PROVE MisfireHonoured'
    BY <1>0, <1>11, Zenon DEF Establish, store, task, fs, ghost
  <1>12. ASSUME NEW t \in Triggers, Adopt(t) PROVE MisfireHonoured'
    BY <1>0, <1>12, Zenon DEF Adopt, store, task, fs, ghost
  <1>13. ASSUME NEW t \in Triggers, NotDue(t) PROVE MisfireHonoured'
    BY <1>0, <1>13, Zenon DEF NotDue, store, task, fs, ghost
  <1>14. ASSUME NEW t \in Triggers, Schedule(t) PROVE MisfireHonoured'
    <2> SUFFICES ASSUME <<runs'.trigger, runs'.revision>> \in booted.late, runs'.due < booted.at
                 PROVE  /\ Misfire[t] = "skip" => runs'.count = 0
                        /\ Misfire[t] = "runOnce" => runs'.count <= 1
                        /\ runs'.count <= MaxCatchUp
      BY <1>14, SchedulePays DEF Schedule, MisfireHonoured
    <2>1. <<t, row[t].identity>> \in booted.late /\ row[t].due < booted.at /\ ~row[t].completed
      <3>1. runs'.trigger = t /\ runs'.revision = sources.revision[t] /\ runs'.due = row[t].due
        BY <1>14, SchedulePays
      <3>2. row[t].identity = sources.revision[t] /\ ~row[t].completed BY <1>14, ScheduleFacts
      <3> QED BY <3>1, <3>2
    <2>2. row[t].due \in Nat /\ booted.at \in Nat
      BY <1>14, ScheduleFacts, Numbers DEF Rows, SchedulerInv, HiddenTypes
    <2>3. Recovering(t) BY <2>1, <2>2 DEF SchedulerInv, Settled, Recovering
    <2> QED BY <2>3, <1>14, SchedulePays
  <1>15. ASSUME NEW t \in Triggers, ReportInvalid(t) PROVE MisfireHonoured'
    BY <1>0, <1>15, Zenon DEF ReportInvalid, store, task, fs, ghost
  <1>16. ASSUME NEW t \in Triggers, Start(t) PROVE MisfireHonoured'
    <2>1. t \in Startup BY <1>16 DEF Start
    <2>2. runs' # None => runs'.trigger = t BY <1>16 DEF Start
    <2> QED BY <2>1, <2>2, <1>16 DEF Start, SchedulerInv, HiddenTypes, MisfireHonoured, Calendar, Startup
  <1>17. ASSUME NEW t \in Watched, TakeDue(t) PROVE MisfireHonoured'
    <2>1. runs'.trigger = t BY <1>17 DEF TakeDue
    <2> QED BY <2>1, <1>17 DEF TakeDue, SchedulerInv, HiddenTypes, MisfireHonoured, Calendar, Watched
  <1>18. CASE Tick
    BY <1>0, <1>18, Zenon DEF Tick, store, task, fs, ghost
  <1>19. CASE Boot
    BY <1>19 DEF Boot, SchedulerInv, Phases, MisfireHonoured
  <1>20. CASE Ready
    BY <1>0, <1>20, Zenon DEF Ready, store, task, fs, ghost
  <1>21. CASE Shutdown
    BY <1>0, <1>21, Zenon DEF Shutdown, store, task, fs, ghost
  <1>22. CASE Exit
    BY <1>22 DEF Exit, Gone, MisfireHonoured
  <1>23. CASE Crash
    BY <1>23 DEF Crash, Gone, MisfireHonoured
  <1>24. ASSUME NEW t \in Triggers, Edit(t) PROVE MisfireHonoured'
    BY <1>0, <1>24, Zenon DEF Edit, store, task, fs, ghost
  <1>25. ASSUME NEW t \in Triggers, SetStatus(t) PROVE MisfireHonoured'
    BY <1>0, <1>25, Zenon DEF SetStatus, store, task, fs, ghost
  <1>26. ASSUME NEW t \in Watched, NEW path \in Files, Notify(t, path) PROVE MisfireHonoured'
    BY <1>0, <1>26, Zenon DEF Notify, store, task, fs, ghost
  <1>27. CASE UNCHANGED vars
    BY <1>0, <1>27, Zenon DEF vars, store, task, fs, ghost
  <1> QED
    BY <1>1, <1>2, <1>3, <1>4, <1>5, <1>6, <1>7, <1>8, <1>9, <1>10, <1>11, <1>12, <1>13, <1>14,
       <1>15, <1>16, <1>17, <1>18, <1>19, <1>20, <1>21, <1>22, <1>23, <1>24, <1>25, <1>26, <1>27, Zenon DEF Next, Task

(* Types of what Paid speaks of.                                           *)
LEMMA ChargeTypes ==
    ASSUME SchedulerInv, NEW u \in Triggers
    PROVE  /\ attempted[u].runs \in Nat /\ attempted[u].since \in Nat
           /\ Owed(u) \in Nat /\ Charged(u) \in Nat /\ now \in Nat
           /\ row[u] # None => row[u].due \in Nat
  <1>1. attempted[u].runs \in Nat /\ attempted[u].since \in Nat
    BY DEF SchedulerInv, HiddenTypes
  <1>2. Owed(u) \in Nat BY Numbers DEF SchedulerInv, TypeOK, Runs, Owed
  <1>3. now \in Nat BY Numbers DEF SchedulerInv, TypeOK
  <1>4. row[u] # None => row[u].due \in Nat BY Numbers DEF SchedulerInv, TypeOK, Rows
  <1> QED BY <1>1, <1>2, <1>3, <1>4 DEF Charged

(* The debt of a trigger stays paid while its row stands and nothing is    *)
(* added to what it was charged with.                                      *)
LEMMA PaidAfter ==
    ASSUME SchedulerInv, NEW u \in Calendar, row[u] # None,
           row'[u].due = row[u].due, row'[u].completed = row[u].completed,
           attempted'[u].since = attempted[u].since,
           NEW c \in Nat, c = Charged(u)', c <= Charged(u),
           now' \in Nat, now <= now'
    PROVE  ~Invalid(u) /\ IF OneShot(u) THEN PaidOnce(u)' ELSE PaidPeriods(u)'
  <1>0. u \in Triggers /\ Every \in Nat \ {0} BY Numbers DEF Calendar
  <1>1. /\ attempted[u].since \in Nat /\ Charged(u) \in Nat /\ now \in Nat /\ row[u].due \in Nat
    BY <1>0, ChargeTypes
  <1>2. ~Invalid(u) BY Zenon DEF SchedulerInv, Paid
  <1>3. CASE OneShot(u)
    <2>1. PaidOnce(u) BY <1>3, Zenon DEF SchedulerInv, Paid
    <2>2. PaidOnce(u)' BY <1>1, <2>1 DEF PaidOnce
    <2> QED BY <1>2, <1>3, <2>2
  <1>4. CASE ~OneShot(u)
    <2>1. PaidPeriods(u) BY <1>4, Zenon DEF SchedulerInv, Paid
    <2>2. PICK o \in Nat : o = Charged(u) BY <1>1
    <2>3. c * Every <= o * Every /\ (c - 1) * Every <= (o - 1) * Every
      BY <1>0, <2>2
    <2>4. /\ o * Every <= row[u].due - attempted[u].since
          /\ o > 0 => (o - 1) * Every <= now - attempted[u].since
      BY <2>1, <2>2, Zenon DEF PaidPeriods
    <2>5. c * Every <= row[u].due - attempted[u].since
      BY <1>0, <1>1, <2>2, <2>3, <2>4
    <2>6. c > 0 => (c - 1) * Every <= now' - attempted[u].since
      BY <1>0, <1>1, <2>2, <2>3, <2>4
    <2>7. PaidPeriods(u)'
      BY <2>1, <2>5, <2>6, Zenon DEF PaidPeriods
    <2> QED BY <1>2, <1>4, <2>7
  <1> QED BY <1>3, <1>4

(* Every run is paid for by a deadline moved on before it is requested.    *)
LEMMA PaidStep == SchedulerInv /\ [Next]_vars => Paid'
  <1> SUFFICES ASSUME SchedulerInv, [Next]_vars PROVE Paid'
    OBVIOUS
  <1>0. UNCHANGED <<row, runs, attempted, now>> => Paid'
    BY DEF SchedulerInv, Paid, PaidOnce, PaidPeriods, Charged, Owed
  <1>1. CASE BeginScan
    BY <1>0, <1>1, Zenon DEF BeginScan, store, task, fs, ghost
  <1>2. CASE Sync
    BY <1>0, <1>2, Zenon DEF Sync, store, task, fs, ghost
  <1>3. CASE Execute
    <2> SUFFICES ASSUME NEW u \in Calendar, row'[u] # None
                 PROVE  ~Invalid(u) /\ IF OneShot(u) THEN PaidOnce(u)' ELSE PaidPeriods(u)'
      BY Zenon DEF Paid
    <2>1. u \in Triggers BY DEF Calendar
    <2>2. /\ row[u] # None /\ row'[u].due = row[u].due /\ row'[u].completed = row[u].completed
          /\ attempted'[u].since = attempted[u].since
      BY <2>1, <1>3 DEF Execute, store, ghost, SchedulerInv, HiddenTypes
    <2>3. now' \in Nat /\ now <= now' /\ Charged(u) \in Nat
      BY <2>1, <1>3, ChargeTypes DEF Execute
    <2>4. Charged(u)' \in Nat /\ Charged(u)' <= Charged(u)
      <3>1. runs \in Runs /\ runs # None /\ runs.count \in Nat /\ runs.count > 0
        BY <1>3, Numbers DEF Execute, SchedulerInv, TypeOK, Runs
      <3>2. runs'.count = runs.count - 1 /\ runs'.trigger = runs.trigger
        BY <3>1, <1>3 DEF Execute, Runs
      <3>3. attempted[u].runs \in Nat /\ Owed(u) \in Nat BY <2>1, ChargeTypes
      <3>4. CASE runs.trigger = u
        <4>1. attempted'[u].runs \in {attempted[u].runs, attempted[u].runs + 1}
          BY <2>1, <3>4, <1>3 DEF Execute, SchedulerInv, HiddenTypes
        <4>2. Owed(u) = runs.count /\ Owed(u)' \in {0, runs.count - 1}
          BY <3>1, <3>2, <3>4 DEF Owed
        <4> QED BY <3>1, <3>3, <4>1, <4>2 DEF Charged
      <3>5. CASE runs.trigger # u
        <4>1. attempted'[u].runs = attempted[u].runs
          BY <2>1, <3>1, <3>5, <1>3 DEF Execute, SchedulerInv, HiddenTypes, TypeOK, Runs
        <4>2. Owed(u) = 0 /\ Owed(u)' = 0 BY <3>1, <3>2, <3>5 DEF Owed
        <4> QED BY <3>3, <4>1, <4>2 DEF Charged
      <3> QED BY <3>4, <3>5
    <2> QED BY <2>2, <2>3, <2>4, PaidAfter
  <1>4. CASE Executed
    <2> SUFFICES ASSUME NEW u \in Calendar, row'[u] # None
                 PROVE  ~Invalid(u) /\ IF OneShot(u) THEN PaidOnce(u)' ELSE PaidPeriods(u)'
      BY Zenon DEF Paid
    <2>1. u \in Triggers BY DEF Calendar
    <2>2. /\ row[u] # None /\ row'[u].due = row[u].due /\ row'[u].completed = row[u].completed
          /\ attempted'[u].since = attempted[u].since
      BY <2>1, <1>4 DEF Executed, store, ghost, SchedulerInv, HiddenTypes
    <2>3. now' \in Nat /\ now <= now' /\ Charged(u) \in Nat
      BY <2>1, <1>4, ChargeTypes DEF Executed
    <2>4. Charged(u)' \in Nat /\ Charged(u)' <= Charged(u)
      <3>1. attempted'[u].runs = attempted[u].runs /\ runs' = None BY <2>1, <1>4 DEF Executed, ghost, SchedulerInv, Phases, HiddenTypes
      <3>2. attempted[u].runs \in Nat /\ Owed(u) \in Nat BY <2>1, ChargeTypes
      <3>3. Owed(u)' = 0 BY <3>1 DEF Owed
      <3> QED BY <3>1, <3>2, <3>3 DEF Charged
    <2> QED BY <2>2, <2>3, <2>4, PaidAfter
  <1>5. CASE Drain
    BY <1>0, <1>5, Zenon DEF Drain, HandleEvent, store, task, fs, ghost
  <1>6. CASE RecordOverflow
    BY <1>0, <1>6, Zenon DEF RecordOverflow, store, task, fs, ghost
  <1>7. CASE Wait
    BY <1>0, <1>7, Zenon DEF Wait, store, task, fs, ghost
  <1>8. CASE Wake
    BY <1>0, <1>8, Zenon DEF Wake, store, task, fs, ghost
  <1>9. CASE WakeForEvent
    BY <1>0, <1>9, Zenon DEF WakeForEvent, HandleEvent, store, task, fs, ghost
  <1>10. CASE StopTask
    BY <1>0, <1>10, Zenon DEF StopTask, store, task, fs, ghost
  <1>11. ASSUME NEW t \in Triggers, Establish(t) PROVE Paid'
    <2> SUFFICES ASSUME NEW u \in Calendar, row'[u] # None
                 PROVE  ~Invalid(u) /\ IF OneShot(u) THEN PaidOnce(u)' ELSE PaidPeriods(u)'
      BY Zenon DEF Paid
    <2>1. u \in Triggers BY DEF Calendar
    <2>2. runs = None /\ runs' = None BY <1>11 DEF Establish, Visit
    <2>3. ASSUME u # t PROVE ~Invalid(u) /\ IF OneShot(u) THEN PaidOnce(u)' ELSE PaidPeriods(u)'
      <3>1. row'[u] = row[u] /\ attempted'[u] = attempted[u] /\ now' = now
        BY <2>1, <2>3, <1>11 DEF Establish, Established, SchedulerInv, TypeOK, HiddenTypes
      <3>2. attempted[u].runs \in Nat /\ now \in Nat BY <2>1, ChargeTypes
      <3>3. Owed(u) = 0 /\ Owed(u)' = 0 BY <2>2, <2>3, <1>11 DEF Owed, Establish, Established
      <3>4. Charged(u)' = Charged(u) /\ Charged(u) \in Nat /\ Charged(u) <= Charged(u)
        BY <3>1, <3>2, <3>3 DEF Charged
      <3> QED BY <3>1, <3>2, <3>4, PaidAfter
    <2>4. ASSUME u = t PROVE ~Invalid(u) /\ IF OneShot(u) THEN PaidOnce(u)' ELSE PaidPeriods(u)'
      <3> DEFINE d == InitialDue(t, sources.at)
      <3>1. ~Invalid(t) /\ sources.at \in 0 .. MaxTime
        BY <1>11, Numbers DEF Establish, Visit, SchedulerInv, HiddenTypes, Scans
      <3>2. /\ d \in Nat
            /\ ~OneShot(t) => Regular(t, d)
            /\ OneShot(t) => d = DatetimeDue(t)
        BY <3>1, <2>4, InitialIsDue, Numbers
      <3>3. row'[t].due = d BY <1>11 DEF Establish, NewRow, SchedulerInv, TypeOK
      <3>4. attempted'[t].runs = 0 /\ attempted'[t].since = d
        BY <1>11 DEF Establish, Established, SchedulerInv, HiddenTypes
      <3> HIDE DEF d
      <3>5. Charged(t)' = 0 BY <2>2, <3>4 DEF Charged, Owed
      <3>6. 0 * Every <= d - d BY <3>2, Numbers
      <3>7. OneShot(t) => PaidOnce(t)' BY <3>2, <3>3, <3>4, <3>5 DEF PaidOnce
      <3>8. ~OneShot(t) => PaidPeriods(t)'
        BY <3>2, <3>3, <3>4, <3>5, <3>6 DEF PaidPeriods, Regular
      <3> QED BY <2>4, <3>1, <3>7, <3>8
    <2> QED BY <2>3, <2>4
  <1>12. ASSUME NEW t \in Triggers, Adopt(t) PROVE Paid'
    <2> SUFFICES ASSUME NEW u \in Calendar, row'[u] # None
                 PROVE  ~Invalid(u) /\ IF OneShot(u) THEN PaidOnce(u)' ELSE PaidPeriods(u)'
      BY Zenon DEF Paid
    <2>1. u \in Triggers BY DEF Calendar
    <2>2. attempted' = attempted /\ runs' = runs /\ now' = now BY <1>12 DEF Adopt, task, ghost
    <2>3. row[t] \in Rows /\ row[t] # None BY <1>12 DEF Adopt, SchedulerInv, TypeOK
    <2>4. row[u] # None /\ row'[u].due = row[u].due /\ row'[u].completed = row[u].completed
      BY <2>1, <2>3, <1>12 DEF Adopt, SchedulerInv, TypeOK, Rows
    <2>5. Charged(u)' = Charged(u) BY <2>2 DEF Charged, Owed
    <2>6. Charged(u) \in Nat /\ Charged(u) <= Charged(u) /\ now' \in Nat /\ now <= now'
      BY <2>1, <2>2, ChargeTypes
    <2> QED BY <2>2, <2>4, <2>5, <2>6, PaidAfter
  <1>13. ASSUME NEW t \in Triggers, NotDue(t) PROVE Paid'
    BY <1>0, <1>13, Zenon DEF NotDue, store, task, fs, ghost
  <1>14. ASSUME NEW t \in Triggers, Schedule(t) PROVE Paid'
    <2> SUFFICES ASSUME NEW u \in Calendar, row'[u] # None
                 PROVE  ~Invalid(u) /\ IF OneShot(u) THEN PaidOnce(u)' ELSE PaidPeriods(u)'
      BY Zenon DEF Paid
    <2>1. u \in Triggers BY DEF Calendar
    <2>2. runs = None /\ runs'.trigger = t BY <1>14, SchedulePays DEF Schedule, HasRow, Visit
    <2>3. ASSUME u # t PROVE ~Invalid(u) /\ IF OneShot(u) THEN PaidOnce(u)' ELSE PaidPeriods(u)'
      <3>1. row'[u] = row[u] /\ attempted'[u] = attempted[u] /\ now' = now
        BY <2>1, <2>3, <1>14 DEF Schedule, Advance, ghost, SchedulerInv, TypeOK, HiddenTypes
      <3>2. attempted[u].runs \in Nat /\ now \in Nat BY <2>1, ChargeTypes
      <3>3. Owed(u) = 0 /\ Owed(u)' = 0 BY <2>2, <2>3, <1>14 DEF Owed, Schedule, Advance, ghost
      <3>4. Charged(u)' = Charged(u) /\ Charged(u) \in Nat /\ Charged(u) <= Charged(u)
        BY <3>1, <3>2, <3>3 DEF Charged
      <3> QED BY <3>1, <3>2, <3>4, PaidAfter
    <2>4. ASSUME u = t PROVE ~Invalid(u) /\ IF OneShot(u) THEN PaidOnce(u)' ELSE PaidPeriods(u)'
      <3>1. attempted' = attempted /\ now' = now /\ row[t] # None /\ ~row[t].completed
        BY <1>14 DEF Schedule, HasRow, ghost
      <3>2. /\ attempted[t].runs \in Nat /\ attempted[t].since \in Nat
            /\ now \in Nat /\ row[t].due \in Nat
        BY <3>1, ChargeTypes
      <3>3. Charged(t) = attempted[t].runs BY <2>2, <3>2 DEF Charged, Owed
      <3>4. PICK c \in Nat, n \in Nat : c = attempted[t].runs /\ n = runs'.count
        BY <3>2, <1>14, SchedulePays
      <3>5. PICK o \in {0, n} : o = Owed(t)' BY <2>2, <3>4 DEF Owed
      <3>6. o \in Nat /\ Charged(t)' = c + o BY <3>1, <3>4, <3>5 DEF Charged
      <3>7. ~Invalid(t) BY <2>4, <3>1, Zenon DEF SchedulerInv, Paid
      <3>8. sources.at \in Nat /\ row[t].due <= sources.at /\ sources.at <= now
        BY <1>14, ScheduleFacts, Numbers DEF Schedule, HasRow, Visit, SchedulerInv, Clocks
      <3>9. ASSUME OneShot(t) PROVE PaidOnce(t)'
        <4>1. PaidOnce(t) BY <2>4, <3>1, <3>9, Zenon DEF SchedulerInv, Paid
        <4>2. n <= 1 /\ row'[t].completed = TRUE /\ row'[t].due = row[t].due
          BY <3>4, <3>9, <1>14, SchedulePays
        <4>3. c = 0 BY <3>1, <3>3, <3>4, <4>1 DEF PaidOnce
        <4>4. Charged(t)' <= 1 /\ Charged(t)' \in Nat BY <3>5, <3>6, <4>2, <4>3
        <4>5. attempted[t].since <= now BY <3>1, <3>2, <3>8, <4>1 DEF PaidOnce
        <4> QED BY <3>1, <4>1, <4>2, <4>4, <4>5 DEF PaidOnce
      <3>10. ASSUME ~OneShot(t) PROVE PaidPeriods(t)'
        <4>0. Every \in Nat \ {0} BY Numbers
        <4>1. PaidPeriods(t) BY <2>4, <3>1, <3>10, Zenon DEF SchedulerInv, Paid
        <4>2. /\ c * Every <= row[t].due - attempted[t].since
              /\ c > 0 => (c - 1) * Every <= now - attempted[t].since
          BY <3>3, <3>4, <4>1 DEF PaidPeriods
        <4>3. /\ n * Every <= row'[t].due - row[t].due
              /\ n > 0 => (n - 1) * Every <= sources.at - row[t].due
          BY <3>4, <3>10, <1>14, SchedulePays
        <4>4. Regular(t, row'[t].due) BY <3>10, <1>14, SchedulePays
        <4>5. row'[t].due \in Nat
          BY TypeStep, <2>4, Numbers DEF TypeOK, Rows
        <4>6. (c + n) * Every = c * Every + n * Every BY <4>0
        <4>7. n * Every >= 0 BY <4>0
        <4> PICK x \in Int, y \in Int : x = c * Every /\ y = n * Every BY <4>0
        <4>8. (c + o) * Every <= row'[t].due - attempted[t].since
          <5>1. CASE o = n
            <6>1. (c + o) * Every = x + y BY <5>1, <4>6
            <6>2. x <= row[t].due - attempted[t].since /\ y <= row'[t].due - row[t].due
              BY <4>2, <4>3
            <6> QED BY <6>1, <6>2, <3>2, <4>5
          <5>2. CASE o = 0
            <6>1. (c + o) * Every = x BY <5>2, <4>0
            <6>2. /\ x <= row[t].due - attempted[t].since
                  /\ 0 <= y /\ y <= row'[t].due - row[t].due
              BY <4>2, <4>3, <4>7
            <6> QED BY <6>1, <6>2, <3>2, <4>5
          <5> QED BY <5>1, <5>2, <3>5
        <4>9. c + o > 0 => (c + o - 1) * Every <= now - attempted[t].since
          <5>1. CASE o = 0
            <6>1. c + o = c BY <5>1
            <6> QED BY <6>1, <4>2
          <5>2. CASE o = n /\ n > 0
            <6>1. (c + n - 1) * Every = c * Every + (n - 1) * Every BY <4>0
            <6> QED BY <5>2, <6>1, <3>2, <3>8, <4>0, <4>2, <4>3
          <5> QED BY <5>1, <5>2, <3>5, <3>6
        <4>10. /\ Charged(t)' * Every <= row'[t].due - attempted'[t].since
               /\ Charged(t)' > 0 => (Charged(t)' - 1) * Every <= now' - attempted'[t].since
          BY <3>1, <3>6, <4>8, <4>9
        <4>11. Kind[t] = "cron" => \E k \in Nat : row'[t].due = k * Every
          BY <4>4, Zenon DEF Regular
        <4> QED BY <4>10, <4>11, Zenon DEF PaidPeriods
      <3> QED BY <2>4, <3>7, <3>9, <3>10
    <2> QED BY <2>3, <2>4
  <1>15. ASSUME NEW t \in Triggers, ReportInvalid(t) PROVE Paid'
    BY <1>0, <1>15, Zenon DEF ReportInvalid, store, task, fs, ghost
  <1>16. ASSUME NEW t \in Triggers, Start(t) PROVE Paid'
    <2> SUFFICES ASSUME NEW u \in Calendar, row'[u] # None
                 PROVE  ~Invalid(u) /\ IF OneShot(u) THEN PaidOnce(u)' ELSE PaidPeriods(u)'
      BY Zenon DEF Paid
    <2>1. u \in Triggers BY DEF Calendar
    <2>2. /\ row[u] # None /\ row'[u].due = row[u].due /\ row'[u].completed = row[u].completed
          /\ attempted'[u].since = attempted[u].since
      BY <2>1, <1>16 DEF Start, store, ghost, SchedulerInv, HiddenTypes
    <2>3. now' \in Nat /\ now <= now' /\ Charged(u) \in Nat
      BY <2>1, <1>16, ChargeTypes DEF Start
    <2>4. Charged(u)' \in Nat /\ Charged(u)' <= Charged(u)
      <3>1. attempted' = attempted /\ (runs' = None \/ runs'.trigger # u)
        BY <1>16 DEF Start, ghost, Startup, Calendar
      <3>2. attempted[u].runs \in Nat /\ Owed(u) \in Nat BY <2>1, ChargeTypes
      <3>3. Owed(u)' = 0 BY <3>1 DEF Owed
      <3> QED BY <3>1, <3>2, <3>3 DEF Charged
    <2> QED BY <2>2, <2>3, <2>4, PaidAfter
  <1>17. ASSUME NEW t \in Watched, TakeDue(t) PROVE Paid'
    <2> SUFFICES ASSUME NEW u \in Calendar, row'[u] # None
                 PROVE  ~Invalid(u) /\ IF OneShot(u) THEN PaidOnce(u)' ELSE PaidPeriods(u)'
      BY Zenon DEF Paid
    <2>1. u \in Triggers BY DEF Calendar
    <2>2. /\ row[u] # None /\ row'[u].due = row[u].due /\ row'[u].completed = row[u].completed
          /\ attempted'[u].since = attempted[u].since
      BY <2>1, <1>17 DEF TakeDue, store, ghost, SchedulerInv, HiddenTypes
    <2>3. now' \in Nat /\ now <= now' /\ Charged(u) \in Nat
      BY <2>1, <1>17, ChargeTypes DEF TakeDue
    <2>4. Charged(u)' \in Nat /\ Charged(u)' <= Charged(u)
      <3>1. attempted'[u].runs = attempted[u].runs /\ runs'.trigger # u
        BY <2>1, <1>17 DEF TakeDue, Watched, Calendar, SchedulerInv, HiddenTypes
      <3>2. attempted[u].runs \in Nat /\ Owed(u) \in Nat BY <2>1, ChargeTypes
      <3>3. Owed(u)' = 0 BY <3>1 DEF Owed
      <3> QED BY <3>1, <3>2, <3>3 DEF Charged
    <2> QED BY <2>2, <2>3, <2>4, PaidAfter
  <1>18. CASE Tick
    <2> SUFFICES ASSUME NEW u \in Calendar, row'[u] # None
                 PROVE  ~Invalid(u) /\ IF OneShot(u) THEN PaidOnce(u)' ELSE PaidPeriods(u)'
      BY Zenon DEF Paid
    <2>1. u \in Triggers BY DEF Calendar
    <2>2. row' = row /\ attempted' = attempted /\ runs' = runs BY <1>18 DEF Tick, store, ghost
    <2>3. now' \in Nat /\ now <= now' BY <1>18, LaterIsLater, Numbers DEF Tick, SchedulerInv, TypeOK
    <2>4. Charged(u)' = Charged(u) BY <2>2 DEF Charged, Owed
    <2>5. Charged(u) \in Nat /\ Charged(u) <= Charged(u) BY <2>1, ChargeTypes
    <2> QED BY <2>2, <2>3, <2>4, <2>5, PaidAfter
  <1>19. CASE Boot
    <2> SUFFICES ASSUME NEW u \in Calendar, row'[u] # None
                 PROVE  ~Invalid(u) /\ IF OneShot(u) THEN PaidOnce(u)' ELSE PaidPeriods(u)'
      BY Zenon DEF Paid
    <2>1. u \in Triggers BY DEF Calendar
    <2>2. /\ row[u] # None /\ row'[u].due = row[u].due /\ row'[u].completed = row[u].completed
          /\ attempted'[u].since = attempted[u].since
      BY <2>1, <1>19 DEF Boot, store, ghost, SchedulerInv, HiddenTypes
    <2>3. now' \in Nat /\ now <= now' /\ Charged(u) \in Nat
      BY <2>1, <1>19, ChargeTypes DEF Boot
    <2>4. Charged(u)' \in Nat /\ Charged(u)' <= Charged(u)
      <3>1. attempted'[u].runs = attempted[u].runs /\ runs' = None BY <2>1, <1>19 DEF Boot, ghost, SchedulerInv, Phases, HiddenTypes
      <3>2. attempted[u].runs \in Nat /\ Owed(u) \in Nat BY <2>1, ChargeTypes
      <3>3. Owed(u)' = 0 BY <3>1 DEF Owed
      <3> QED BY <3>1, <3>2, <3>3 DEF Charged
    <2> QED BY <2>2, <2>3, <2>4, PaidAfter
  <1>20. CASE Ready
    BY <1>0, <1>20, Zenon DEF Ready, store, task, fs, ghost
  <1>21. CASE Shutdown
    BY <1>0, <1>21, Zenon DEF Shutdown, store, task, fs, ghost
  <1>22. CASE Exit
    <2> SUFFICES ASSUME NEW u \in Calendar, row'[u] # None
                 PROVE  ~Invalid(u) /\ IF OneShot(u) THEN PaidOnce(u)' ELSE PaidPeriods(u)'
      BY Zenon DEF Paid
    <2>1. u \in Triggers BY DEF Calendar
    <2>2. /\ row[u] # None /\ row'[u].due = row[u].due /\ row'[u].completed = row[u].completed
          /\ attempted'[u].since = attempted[u].since
      BY <2>1, <1>22 DEF Exit, Gone, store, ghost, SchedulerInv, HiddenTypes
    <2>3. now' \in Nat /\ now <= now' /\ Charged(u) \in Nat
      BY <2>1, <1>22, ChargeTypes DEF Exit, Gone
    <2>4. Charged(u)' \in Nat /\ Charged(u)' <= Charged(u)
      <3>1. attempted'[u].runs = attempted[u].runs /\ runs' = None BY <2>1, <1>22 DEF Exit, Gone, ghost, SchedulerInv, Phases, HiddenTypes
      <3>2. attempted[u].runs \in Nat /\ Owed(u) \in Nat BY <2>1, ChargeTypes
      <3>3. Owed(u)' = 0 BY <3>1 DEF Owed
      <3> QED BY <3>1, <3>2, <3>3 DEF Charged
    <2> QED BY <2>2, <2>3, <2>4, PaidAfter
  <1>23. CASE Crash
    <2> SUFFICES ASSUME NEW u \in Calendar, row'[u] # None
                 PROVE  ~Invalid(u) /\ IF OneShot(u) THEN PaidOnce(u)' ELSE PaidPeriods(u)'
      BY Zenon DEF Paid
    <2>1. u \in Triggers BY DEF Calendar
    <2>2. /\ row[u] # None /\ row'[u].due = row[u].due /\ row'[u].completed = row[u].completed
          /\ attempted'[u].since = attempted[u].since
      BY <2>1, <1>23 DEF Crash, Gone, store, ghost, SchedulerInv, HiddenTypes
    <2>3. now' \in Nat /\ now <= now' /\ Charged(u) \in Nat
      BY <2>1, <1>23, ChargeTypes DEF Crash, Gone
    <2>4. Charged(u)' \in Nat /\ Charged(u)' <= Charged(u)
      <3>1. attempted'[u].runs = attempted[u].runs /\ runs' = None BY <2>1, <1>23 DEF Crash, Gone, ghost, SchedulerInv, Phases, HiddenTypes
      <3>2. attempted[u].runs \in Nat /\ Owed(u) \in Nat BY <2>1, ChargeTypes
      <3>3. Owed(u)' = 0 BY <3>1 DEF Owed
      <3> QED BY <3>1, <3>2, <3>3 DEF Charged
    <2> QED BY <2>2, <2>3, <2>4, PaidAfter
  <1>24. ASSUME NEW t \in Triggers, Edit(t) PROVE Paid'
    BY <1>0, <1>24, Zenon DEF Edit, store, task, fs, ghost
  <1>25. ASSUME NEW t \in Triggers, SetStatus(t) PROVE Paid'
    BY <1>0, <1>25, Zenon DEF SetStatus, store, task, fs, ghost
  <1>26. ASSUME NEW t \in Watched, NEW path \in Files, Notify(t, path) PROVE Paid'
    BY <1>0, <1>26, Zenon DEF Notify, store, task, fs, ghost
  <1>27. CASE UNCHANGED vars
    BY <1>0, <1>27, Zenon DEF vars, store, task, fs, ghost
  <1> QED
    BY <1>1, <1>2, <1>3, <1>4, <1>5, <1>6, <1>7, <1>8, <1>9, <1>10, <1>11, <1>12, <1>13, <1>14,
       <1>15, <1>16, <1>17, <1>18, <1>19, <1>20, <1>21, <1>22, <1>23, <1>24, <1>25, <1>26, <1>27, Zenon DEF Next, Task

-----------------------------------------------------------------------------
(* Every step preserves the invariant.                                     *)
LEMMA SchedulerStep == SchedulerInv /\ [Next]_vars => SchedulerInv'
  <1> SUFFICES ASSUME SchedulerInv, [Next]_vars PROVE SchedulerInv'
    OBVIOUS
  <1>1. TypeOK' /\ HiddenTypes' BY TypeStep, HiddenStep
  <1>2. Phases' /\ Clocks' BY PhaseStep, ClockStep
  <1>3. Paid' /\ Started' BY PaidStep, StartedStep
  <1>4. Revisions' /\ Settled' BY RevisionStep, SettledStep
  <1>5. MisfireHonoured' /\ PendingOfWatcher' BY MisfireStep, PendingStep
  <1> QED BY <1>1, <1>2, <1>3, <1>4, <1>5 DEF SchedulerInv

(* It holds initially.                                                     *)
LEMMA SchedulerStart == Init => SchedulerInv
  <1> SUFFICES ASSUME Init PROVE SchedulerInv
    OBVIOUS
  <1>1. /\ core = "down" /\ booted = [starts |-> 0, at |-> 0, late |-> {}]
        /\ loop = "stopped" /\ runs = None /\ seen = {} /\ channel = <<>>
        /\ watchers = [t \in Watched |-> None] /\ pending = [t \in Watched |-> None]
        /\ now \in 1 .. MaxTime
    BY DEF Init
  <1>2. workflow \in [Triggers -> [exists : BOOLEAN, enabled : BOOLEAN,
                                   revision : 1 .. MaxRevision, config : {0, 1}]]
        /\ \A t \in Triggers : workflow[t].revision = 1
    BY Numbers DEF Init
  <1>3. ASSUME NEW t \in Triggers, row[t] # None
        PROVE  /\ t \in Calendar /\ ~Invalid(t) /\ row[t] \in Rows
               /\ row[t].identity = 0 /\ row[t].due = InitialDue(t, 0)
    <2> DEFINE d == InitialDue(t, 0)
    <2>1. t \in Calendar /\ ~Invalid(t) /\ row[t] = [identity |-> 0, due |-> d, completed |-> FALSE]
      BY <1>3 DEF Init
    <2>2. d \in 0 .. MaxTime + Every BY <2>1, InitialIsDue, Numbers
    <2> HIDE DEF d
    <2>3. row[t] \in Rows /\ row[t].identity = 0 /\ row[t].due = d
      BY <2>1, <2>2, Numbers DEF Rows, Identities
    <2> QED BY <2>1, <2>3 DEF d
  <1>5. row \in [Triggers -> Rows \cup {None}]
    <2>1. \A t \in Triggers : row[t] \in Rows \cup {None}
      BY <1>3, Zenon
    <2>2. row = [t \in Triggers |-> row[t]] BY DEF Init
    <2> QED BY <2>1, <2>2
  <1>6. \A t \in Triggers : /\ attempted[t].runs = 0 /\ attempted[t].starts = 0
                            /\ attempted[t].paths = {}
                            /\ attempted[t].since = IF row[t] = None THEN 0 ELSE row[t].due
    BY DEF Init
  <1>7. TypeOK BY <1>1, <1>2, <1>5 DEF TypeOK
  <1>8. HiddenTypes
    <2>1. \A t \in Triggers : (IF row[t] = None THEN 0 ELSE row[t].due) \in Nat
      BY <1>5, Numbers DEF Rows
    <2>2. attempted = [t \in Triggers |->
             [runs |-> 0, since |-> IF row[t] = None THEN 0 ELSE row[t].due,
              starts |-> 0, paths |-> {}]]
      BY DEF Init
    <2>3. attempted \in [Triggers -> [runs : Nat, since : Nat, starts : Nat, paths : SUBSET Files]]
      BY <2>1, <2>2
    <2> QED BY <1>1, <2>3, Numbers DEF HiddenTypes
  <1>9. Phases /\ Clocks BY <1>1, Numbers DEF Phases, Clocks
  <1>10. Started BY <1>1, <1>6 DEF Started, Owed, Startup
  <1>11. Revisions
    <2>1. \A t \in Calendar : row[t] # None => row[t].identity <= workflow[t].revision
      <3> SUFFICES ASSUME NEW t \in Calendar, row[t] # None
                   PROVE  row[t].identity <= workflow[t].revision
        OBVIOUS
      <3>1. t \in Triggers BY DEF Calendar
      <3>2. row[t].identity = 0 BY <1>3, <3>1
      <3> QED BY <1>2, <3>1, <3>2
    <2> QED BY <1>1, <2>1 DEF Revisions
  <1>12. Settled /\ MisfireHonoured /\ PendingOfWatcher
    BY <1>1 DEF Settled, MisfireHonoured, PendingOfWatcher
  <1>13. Paid
    <2> SUFFICES ASSUME NEW t \in Calendar, row[t] # None
                 PROVE  ~Invalid(t) /\ IF OneShot(t) THEN PaidOnce(t) ELSE PaidPeriods(t)
      BY Zenon DEF Paid
    <2>1. t \in Triggers BY DEF Calendar
    <2> DEFINE d == InitialDue(t, 0)
    <2>2. ~Invalid(t) /\ row[t].due = d BY <1>3, <2>1
    <2>3. attempted[t].since = d /\ attempted[t].runs = 0 BY <1>6, <2>1, <2>2
    <2>4. /\ d \in Nat
          /\ ~OneShot(t) => Regular(t, d)
          /\ OneShot(t) => d = DatetimeDue(t)
      BY <2>2, InitialIsDue, Numbers
    <2> HIDE DEF d
    <2>5. Charged(t) = 0 BY <1>1, <2>3 DEF Charged, Owed
    <2>6. 0 * Every <= d - d BY <2>4, Numbers
    <2>7. OneShot(t) => PaidOnce(t) BY <2>2, <2>3, <2>4, <2>5 DEF PaidOnce
    <2>8. ~OneShot(t) => PaidPeriods(t)
      BY <2>2, <2>3, <2>4, <2>5, <2>6 DEF PaidPeriods, Regular
    <2> QED BY <2>2, <2>7, <2>8
  <1> QED BY <1>7, <1>8, <1>9, <1>10, <1>11, <1>12, <1>13 DEF SchedulerInv

(* It holds throughout.                                                    *)
LEMMA SchedulerHolds == Spec => []SchedulerInv
  BY SchedulerStart, SchedulerStep, PTL DEF Spec

(* Runs that are paid for are no more than the occurrences that have come. *)
LEMMA PaidIsElapsed ==
    ASSUME SchedulerInv, NEW t \in Calendar, row[t] # None
    PROVE  attempted[t].runs <= Elapsed(t)
  <1> DEFINE since == attempted[t].since
             come == Backlog(t, since, now)
  <1>0. t \in Triggers /\ Every \in Nat \ {0} BY Numbers DEF Calendar
  <1>1. /\ attempted[t].runs \in Nat /\ since \in Nat /\ now \in Nat
        /\ Owed(t) \in Nat /\ Charged(t) \in Nat
    BY <1>0, ChargeTypes
  <1>2. attempted[t].runs <= Charged(t) BY <1>1 DEF Charged
  <1>3. IsFiniteSet(come) /\ Cardinality(come) \in Nat
    <2>1. come \in SUBSET (since .. now) BY DEF Backlog
    <2>2. IsFiniteSet(since .. now)
      <3>1. PICK a \in Int, b \in Int : a = since /\ b = now BY <1>1
      <3> QED BY <3>1, FS_Interval
    <2>3. IsFiniteSet(come) BY <2>1, <2>2, FS_Subset
    <2> QED BY <2>3, FS_CardinalityType
  <1>4. Elapsed(t) = Cardinality(come) BY DEF Elapsed
  <1>5. CASE Charged(t) = 0
    <2> HIDE DEF come
    <2> QED BY <1>1, <1>2, <1>3, <1>4, <1>5
  <1>6. CASE Charged(t) > 0 /\ OneShot(t)
    <2>1. PaidOnce(t) BY <1>6, Zenon DEF SchedulerInv, Paid
    <2>2. Charged(t) <= 1 /\ since <= now BY <1>6, <2>1, Zenon DEF PaidOnce
    <2>3. come = {since} BY <1>1, <1>6, <2>2 DEF Backlog
    <2>4. Cardinality(come) = 1 BY <2>3, FS_Singleton
    <2> HIDE DEF come
    <2> QED BY <1>1, <1>2, <1>4, <2>2, <2>4
  <1>7. CASE Charged(t) > 0 /\ ~OneShot(t)
    <2>1. PaidPeriods(t) BY <1>7, Zenon DEF SchedulerInv, Paid
    <2>2. (Charged(t) - 1) * Every <= now - since BY <1>7, <2>1, Zenon DEF PaidPeriods
    <2>3. PICK c \in Nat : c = Charged(t) /\ c >= 1 BY <1>1, <1>7
    <2>4. (c - 1) * Every >= 0 BY <1>0, <2>3
    <2>5. since <= now BY <1>0, <1>1, <2>2, <2>3, <2>4
    <2>6. PICK n \in Nat : n = Cardinality(come) BY <1>3
    <2> HIDE DEF come
    <2>7. now - since < n * Every
      BY <1>0, <1>1, <1>7, <2>5, <2>6, BacklogSize DEF come
    <2>8. (c - 1) * Every < n * Every BY <1>0, <1>1, <2>2, <2>3, <2>7
    <2>9. c - 1 < n BY <1>0, <2>3, <2>8, Multiples
    <2> QED BY <1>1, <1>2, <1>4, <2>3, <2>6, <2>9
  <1> QED BY <1>1, <1>5, <1>6, <1>7

(* FiresOnce (Scheduler) of scheduler.rs: over any crashes, restarts and   *)
(* edits a revision of a calendar trigger gets at most one execution per   *)
(* occurrence that has come, and a process runs a startup trigger at most  *)
(* once, for every set of triggers, period, limit and bound.               *)
THEOREM SchedulerFiresOnce == Spec => []FiresOnce
  <1>1. SchedulerInv => FiresOnce
    <2> SUFFICES ASSUME SchedulerInv PROVE FiresOnce
      OBVIOUS
    <2>1. TypeOK BY DEF SchedulerInv
    <2>2. NoOccurrenceTwice BY PaidIsElapsed DEF NoOccurrenceTwice
    <2>3. StartsOnce
      <3> SUFFICES ASSUME NEW t \in Startup PROVE attempted[t].starts <= 1
        BY DEF StartsOnce
      <3>1. t \in Triggers BY DEF Startup
      <3>2. attempted[t].starts \in Nat /\ Owed(t) \in Nat
        BY <3>1, ChargeTypes DEF SchedulerInv, HiddenTypes
      <3>3. attempted[t].starts + Owed(t) <= 1 BY DEF SchedulerInv, Started
      <3> QED BY <3>2, <3>3
    <2> QED BY <2>1, <2>2, <2>3 DEF FiresOnce
  <1> QED BY <1>1, SchedulerHolds, PTL

(* RunsFaithful (Scheduler) of scheduler.rs: what a process requests of    *)
(* the rows it found late keeps to their misfire policy, and a pending run *)
(* of a watched trigger is of the revision its watcher has, whatever       *)
(* clients edit while a scan is under way.                                 *)
THEOREM SchedulerRunsFaithful == Spec => []RunsFaithful
  <1>1. SchedulerInv => RunsFaithful BY DEF SchedulerInv, RunsFaithful
  <1> QED BY <1>1, SchedulerHolds, PTL
==============================================================================
