--------------------------- MODULE ProcessesProofs ---------------------------
(***************************************************************************)
(* Proofs about HostOwnership, for any number of Cores, launches and stop  *)
(* commands, and about ChildProcesses.                                     *)
(***************************************************************************)
EXTENDS HostOwnership, ChildProcesses, SequenceTheorems, TLAPS

(***************************************************************************)
(* The owner of the data directory.                                        *)
(***************************************************************************)
\* The lease follows the process: it is held from the acquisition to the drop.
Holding == Published \cup {"publishing", "released"}
LeaseFollows == \A c \in Cores : core[c] \in Holding <=> lease = c

\* A Core that has published is the one in the record.
RecordFollows ==
  \A c \in Cores : core[c] \in Published => IsCurrent(record) /\ record.inst = c

\* A reservation holds the administrative lock until it is given up, and what
\* it read of the record is still there.
Reservation ==
  \A l \in Launchers :
    /\ client[l] \in {"deciding", "awaitClaim"} => admin = l
    /\ admin = l => client[l] \in {"deciding", "awaitClaim", "cleanup"}
    /\ client[l] = "deciding" => seen[l] = record

\* What a Core that serves has written before.
Served ==
  \A c \in Cores :
    /\ core[c] \in {"marked", "running"} =>
         record.phase = "Ready" /\ record.endpoint = (Mode[c] # "foreground")
    /\ /\ core[c] \in {"endpoint", "listening", "prepared", "marking", "marked", "running",
                       "stopping"}
       /\ Mode[c] # "foreground"
       => c \in capability

\* The child of a launch and the lines it wrote that are not read yet.
Handshake ==
  \A l \in Launchers :
    /\ client[l] \in {"idle", "deciding"} => core[Child[l]] \in {"unborn", "exited"}
    /\ core[Child[l]] \in {"unborn", "acquiring"} => toParent[l] = <<>>
    /\ core[Child[l]] = "publishing" /\ client[l] = "awaitClaim" => toParent[l] = <<"CLAIM">>

OwnershipInv ==
  TypeOK /\ LeaseFollows /\ RecordFollows /\ Reservation /\ Served /\ Handshake

(***************************************************************************)
(* The commands.                                                           *)
(***************************************************************************)
\* Records name instances that have been started.
Started ==
  /\ IsCurrent(record) => core[record.inst] # "unborn"
  /\ \A x \in Clients : IsCurrent(seen[x]) => core[seen[x].inst] # "unborn"

\* What a command that got past its observation knows.
Informed ==
  /\ \A l \in Launchers : client[l] \in {"askPrepared", "askReady"} =>
       IsCurrent(seen[l]) /\ seen[l].inst = Child[l]
  /\ \A s \in Stoppers :
       client[s] \in {"dispatch", "awaiting", "confirming", "finishing", "stopped"} =>
         IsCurrent(seen[s])
  /\ \A s \in Stoppers : client[s] \in {"finishing", "stopped"} =>
       core[seen[s].inst] = "exited"

\* A stop command that sent its request looks at no other record.
Sent ==
  \A c \in stopAsked :
    /\ Mode[c] = "daemon"
    /\ \E s \in Stoppers :
         /\ client[s] \in {"awaiting", "confirming", "finishing", "stopped", "failed"}
         /\ IsCurrent(seen[s]) /\ seen[s].inst = c

CommandInv == Started /\ Informed /\ Sent /\ StopConfirmed

\* What is written to the record file is a record, not the absence of one.
LEMMA RecordIsCurrent ==
  ASSUME NEW r \in [inst : Cores, phase : Phases, endpoint : BOOLEAN]
  PROVE  IsCurrent(r)
  BY RecordsAssumption DEF IsCurrent

LEMMA ReportType ==
  ASSUME TypeOK, NEW c \in Cores, NEW m \in {"CLAIM", "PREPARED", "READY"}, Report(c, m)
  PROVE  toParent' \in [Launchers -> Seq({"CLAIM", "PREPARED", "READY"})]
  <1> DEFINE S == Seq({"CLAIM", "PREPARED", "READY"})
  <1>1. CASE Mode[c] # "daemon"
    BY <1>1 DEF Report, TypeOK
  <1>2. CASE Mode[c] = "daemon"
    <2>1. toParent' = [l \in Launchers |-> IF Child[l] = c THEN Append(toParent[l], m)
                                            ELSE toParent[l]]
      BY <1>2 DEF Report
    <2>2. ASSUME NEW l \in Launchers PROVE toParent[l] \in S /\ Append(toParent[l], m) \in S
      BY DEF TypeOK
    <2> QED BY <2>1, <2>2
  <1> QED BY <1>1, <1>2

LEMMA TypeStep ==
  ASSUME TypeOK, RecordFollows, [Next]_vars PROVE TypeOK'
  <1> USE ModeAssumption, ChildAssumption, NamesAssumption, RecordsAssumption
        DEF TypeOK, RecordFollows, Records, CoreStates, ClientStates, LauncherStates,
            StopperStates, ObserveStates, Clients, Daemons, Phases, Published,
            IsCurrent, Goto, To, Forget, files, process, command
  <1>1. ASSUME NEW c \in Cores, StartProcess(c) PROVE TypeOK'
    BY <1>1 DEF StartProcess
  <1>2. ASSUME NEW c \in Cores, AcquireLease(c) PROVE TypeOK'
    <2>1. toParent' \in [Launchers -> Seq({"CLAIM", "PREPARED", "READY"})]
      BY <1>2, ReportType DEF AcquireLease
    <2> QED BY <1>2, <2>1 DEF AcquireLease
  <1>3. ASSUME NEW c \in Cores, LeaseBusy(c) PROVE TypeOK'
    BY <1>3 DEF LeaseBusy, Ended
  <1>4. ASSUME NEW c \in Cores, PublishStarting(c) PROVE TypeOK'
    BY <1>4 DEF PublishStarting, Publish
  <1>5. ASSUME NEW c \in Cores, PublishFails(c) PROVE TypeOK'
    BY <1>5 DEF PublishFails, Ended
  <1>6. ASSUME NEW c \in Cores, CreateCapability(c) PROVE TypeOK'
    BY <1>6 DEF CreateCapability
  <1>7. ASSUME NEW c \in Cores, BindListener(c) PROVE TypeOK'
    BY <1>7 DEF BindListener, Publish
  <1>8. ASSUME NEW c \in Cores, FailStartup(c) PROVE TypeOK'
    BY ZenonT(40), <1>8 DEF FailStartup
  <1>9. ASSUME NEW c \in Cores, ReportPrepared(c) PROVE TypeOK'
    <2>1. toParent' \in [Launchers -> Seq({"CLAIM", "PREPARED", "READY"})]
      BY <1>9, ReportType DEF ReportPrepared
    <2> QED BY <1>9, <2>1 DEF ReportPrepared
  <1>10. ASSUME NEW c \in Cores, MarkReady(c) PROVE TypeOK'
    BY <1>10 DEF MarkReady
  <1>11. ASSUME NEW c \in Cores, PublishReady(c) PROVE TypeOK'
    BY <1>11 DEF PublishReady, Publish
  <1>12. ASSUME NEW c \in Cores, ReportReady(c) PROVE TypeOK'
    <2>1. toParent' \in [Launchers -> Seq({"CLAIM", "PREPARED", "READY"})]
      BY <1>12, ReportType DEF ReportReady
    <2> QED BY <1>12, <2>1 DEF ReportReady
  <1>13. ASSUME NEW c \in Cores, PublishStopping(c) PROVE TypeOK'
    BY ZenonT(40), <1>13 DEF PublishStopping
  <1>14. ASSUME NEW c \in Cores, RemoveCapability(c) PROVE TypeOK'
    BY <1>14 DEF RemoveCapability
  <1>15. ASSUME NEW c \in Cores, CleanupRecord(c) PROVE TypeOK'
    BY <1>15 DEF CleanupRecord
  <1>16. ASSUME NEW c \in Cores, DropLease(c) PROVE TypeOK'
    BY <1>16 DEF DropLease
  <1>17. ASSUME NEW c \in Cores, Exit(c) PROVE TypeOK'
    BY <1>17 DEF Exit, Ended
  <1>18. ASSUME NEW c \in Cores, BeginDrain(c) PROVE TypeOK'
    BY <1>18 DEF BeginDrain, ParentGone
  <1>19. ASSUME NEW c \in Cores, Crash(c) PROVE TypeOK'
    BY <1>19 DEF Crash, Ended, Live
  <1>20. ASSUME NEW l \in Launchers, Reserve(l) PROVE TypeOK'
    BY <1>20 DEF Reserve
  <1>21. ASSUME NEW l \in Launchers, Spawn(l) PROVE TypeOK'
    BY <1>21 DEF Spawn, Refused, Live
  <1>22. ASSUME NEW l \in Launchers, ReadClaim(l) PROVE TypeOK'
    BY <1>22 DEF ReadClaim, ReadLine
  <1>23. ASSUME NEW l \in Launchers, ReadPrepared(l) PROVE TypeOK'
    BY <1>23 DEF ReadPrepared, ReadLine
  <1>24. ASSUME NEW l \in Launchers, ReadReady(l) PROVE TypeOK'
    BY <1>24 DEF ReadReady, ReadLine
  <1>25. ASSUME NEW l \in Launchers, LookRecord(l) PROVE TypeOK'
    BY <1>25 DEF LookRecord
  <1>26. ASSUME NEW l \in Launchers, LookHeld(l) PROVE TypeOK'
    BY <1>26 DEF LookHeld
  <1>27. ASSUME NEW l \in Launchers, VerifyChild(l) PROVE TypeOK'
    BY <1>27 DEF VerifyChild, Observed
  <1>28. ASSUME NEW l \in Launchers, NEW c \in Cores, Commit(l, c) PROVE TypeOK'
    BY <1>28 DEF Commit, Connected, Listening
  <1>29. ASSUME NEW l \in Launchers, NEW c \in Cores, HandOff(l, c) PROVE TypeOK'
    BY <1>29 DEF HandOff, Connected, Listening
  <1>30. ASSUME NEW l \in Launchers, LaunchFails(l) PROVE TypeOK'
    BY <1>30 DEF LaunchFails
  <1>31. ASSUME NEW l \in Launchers, ReserveFails(l) PROVE TypeOK'
    BY ZenonT(40), <1>31 DEF ReserveFails
  <1>32. ASSUME NEW l \in Launchers, CleanupLaunch(l) PROVE TypeOK'
    BY <1>32 DEF CleanupLaunch, Live
  <1>33. ASSUME NEW l \in Launchers, LauncherDies(l) PROVE TypeOK'
    BY <1>33 DEF LauncherDies
  <1>34. ASSUME NEW s \in Stoppers, StartStop(s) PROVE TypeOK'
    BY <1>34 DEF StartStop
  <1>35. ASSUME NEW s \in Stoppers, LookRecord(s) PROVE TypeOK'
    BY <1>35 DEF LookRecord
  <1>36. ASSUME NEW s \in Stoppers, LookHeld(s) PROVE TypeOK'
    BY <1>36 DEF LookHeld
  <1>37. ASSUME NEW s \in Stoppers, StopNothing(s) PROVE TypeOK'
    BY <1>37 DEF StopNothing
  <1>38. ASSUME NEW s \in Stoppers, NoopCleanup(s) PROVE TypeOK'
    BY <1>38 DEF NoopCleanup
  <1>39. ASSUME NEW s \in Stoppers, StopVerified(s) PROVE TypeOK'
    BY <1>39 DEF StopVerified, Observed
  <1>40. ASSUME NEW s \in Stoppers, NEW c \in Cores, AcceptStop(s, c) PROVE TypeOK'
    BY <1>40 DEF AcceptStop, Connected, Listening
  <1>41. ASSUME NEW s \in Stoppers, PollLease(s) PROVE TypeOK'
    BY <1>41 DEF PollLease
  <1>42. ASSUME NEW s \in Stoppers, PollProcess(s) PROVE TypeOK'
    BY <1>42 DEF PollProcess, Live
  <1>43. ASSUME NEW s \in Stoppers, FinishStop(s) PROVE TypeOK'
    BY <1>43 DEF FinishStop, Live
  <1>44. ASSUME NEW s \in Stoppers, StopFails(s) PROVE TypeOK'
    BY <1>44 DEF StopFails
  <1>45. CASE UNCHANGED vars
    BY <1>45 DEF vars
  <1> QED
    BY <1>1, <1>2, <1>3, <1>4, <1>5, <1>6, <1>7, <1>8, <1>9, <1>10, <1>11, <1>12, <1>13,
       <1>14, <1>15, <1>16, <1>17, <1>18, <1>19, <1>20, <1>21, <1>22, <1>23, <1>24, <1>25,
       <1>26, <1>27, <1>28, <1>29, <1>30, <1>31, <1>32, <1>33, <1>34, <1>35, <1>36, <1>37,
       <1>38, <1>39, <1>40, <1>41, <1>42, <1>43, <1>44, <1>45
       DEF Next, CoreStep, Killed, LaunchStep, StopStep

LEMMA LeaseStep ==
  ASSUME TypeOK, LeaseFollows, [Next]_vars PROVE LeaseFollows'
  <1> USE ModeAssumption, ChildAssumption, NamesAssumption, RecordsAssumption
        DEF TypeOK, LeaseFollows, Holding, Published, Goto, files, process, command
  <1>1. ASSUME NEW c \in Cores, StartProcess(c) PROVE LeaseFollows'
    BY <1>1 DEF StartProcess
  <1>2. ASSUME NEW c \in Cores, AcquireLease(c) PROVE LeaseFollows'
    BY <1>2 DEF AcquireLease, Report, ParentGone
  <1>3. ASSUME NEW c \in Cores, LeaseBusy(c) PROVE LeaseFollows'
    BY <1>3 DEF LeaseBusy, Ended
  <1>4. ASSUME NEW c \in Cores, PublishStarting(c) PROVE LeaseFollows'
    BY <1>4 DEF PublishStarting, Publish
  <1>5. ASSUME NEW c \in Cores, PublishFails(c) PROVE LeaseFollows'
    BY <1>5 DEF PublishFails, Ended
  <1>6. ASSUME NEW c \in Cores, CreateCapability(c) PROVE LeaseFollows'
    BY <1>6 DEF CreateCapability
  <1>7. ASSUME NEW c \in Cores, BindListener(c) PROVE LeaseFollows'
    BY <1>7 DEF BindListener, Publish
  <1>8. ASSUME NEW c \in Cores, FailStartup(c) PROVE LeaseFollows'
    BY <1>8 DEF FailStartup
  <1>9. ASSUME NEW c \in Cores, ReportPrepared(c) PROVE LeaseFollows'
    BY <1>9 DEF ReportPrepared, Report, ParentGone
  <1>10. ASSUME NEW c \in Cores, MarkReady(c) PROVE LeaseFollows'
    BY <1>10 DEF MarkReady
  <1>11. ASSUME NEW c \in Cores, PublishReady(c) PROVE LeaseFollows'
    BY <1>11 DEF PublishReady, Publish
  <1>12. ASSUME NEW c \in Cores, ReportReady(c) PROVE LeaseFollows'
    BY <1>12 DEF ReportReady, Report, ParentGone
  <1>13. ASSUME NEW c \in Cores, PublishStopping(c) PROVE LeaseFollows'
    BY <1>13 DEF PublishStopping
  <1>14. ASSUME NEW c \in Cores, RemoveCapability(c) PROVE LeaseFollows'
    BY <1>14 DEF RemoveCapability
  <1>15. ASSUME NEW c \in Cores, CleanupRecord(c) PROVE LeaseFollows'
    BY <1>15 DEF CleanupRecord
  <1>16. ASSUME NEW c \in Cores, DropLease(c) PROVE LeaseFollows'
    BY <1>16 DEF DropLease
  <1>17. ASSUME NEW c \in Cores, Exit(c) PROVE LeaseFollows'
    BY <1>17 DEF Exit, Ended
  <1>18. ASSUME NEW c \in Cores, BeginDrain(c) PROVE LeaseFollows'
    BY <1>18 DEF BeginDrain, ParentGone
  <1>19. ASSUME NEW c \in Cores, Crash(c) PROVE LeaseFollows'
    BY <1>19 DEF Crash, Ended, Live
  <1>20. ASSUME NEW l \in Launchers, Spawn(l) PROVE LeaseFollows'
    BY <1>20 DEF Spawn, Refused, Live
  <1>21. ASSUME NEW l \in Launchers, LaunchStep(l) \/ LauncherDies(l), ~Spawn(l)
        PROVE  LeaseFollows'
    <2>1. UNCHANGED <<lease, core>>
      BY <1>21 DEF LaunchStep, Reserve, ReadClaim, ReadPrepared, ReadReady, LookRecord,
             LookHeld, VerifyChild, Commit, HandOff, LaunchFails, ReserveFails,
             CleanupLaunch, LauncherDies, ReadLine
    <2> QED BY <2>1
  <1>22. ASSUME NEW s \in Stoppers, StartStop(s) \/ StopStep(s)
        PROVE  LeaseFollows'
    <2>1. UNCHANGED <<lease, core>>
      BY <1>22 DEF StopStep, StartStop, LookRecord, LookHeld, StopNothing, NoopCleanup,
             StopVerified, AcceptStop, PollLease, PollProcess, FinishStop, StopFails
    <2> QED BY <2>1
  <1>23. CASE UNCHANGED vars
    BY <1>23 DEF vars
  <1> QED
    BY <1>1, <1>2, <1>3, <1>4, <1>5, <1>6, <1>7, <1>8, <1>9, <1>10, <1>11, <1>12, <1>13,
       <1>14, <1>15, <1>16, <1>17, <1>18, <1>19, <1>20, <1>21, <1>22, <1>23
       DEF Next, CoreStep, Killed, LaunchStep

LEMMA RecordStep ==
  ASSUME TypeOK, LeaseFollows, RecordFollows, Reservation, [Next]_vars PROVE RecordFollows'
  <1> USE ModeAssumption, ChildAssumption, NamesAssumption, RecordsAssumption
        DEF TypeOK, LeaseFollows, RecordFollows, Reservation, Holding, Published,
            IsCurrent, Goto, To, files, process, command
  <1>1. ASSUME NEW c \in Cores, StartProcess(c) PROVE RecordFollows'
    BY <1>1 DEF StartProcess
  <1>2. ASSUME NEW c \in Cores, AcquireLease(c) PROVE RecordFollows'
    BY <1>2 DEF AcquireLease, Report, ParentGone
  <1>3. ASSUME NEW c \in Cores, LeaseBusy(c) PROVE RecordFollows'
    BY <1>3 DEF LeaseBusy, Ended
  <1>4. ASSUME NEW c \in Cores, PublishStarting(c) PROVE RecordFollows'
    <2>1. IsCurrent(record') /\ record'.inst = c
      BY ZenonT(40), <1>4, RecordIsCurrent DEF PublishStarting, Publish, Phases
    <2> QED BY <1>4, <2>1 DEF PublishStarting
  <1>5. ASSUME NEW c \in Cores, PublishFails(c) PROVE RecordFollows'
    BY <1>5 DEF PublishFails, Ended
  <1>6. ASSUME NEW c \in Cores, CreateCapability(c) PROVE RecordFollows'
    BY <1>6 DEF CreateCapability
  <1>7. ASSUME NEW c \in Cores, BindListener(c) PROVE RecordFollows'
    <2>1. IsCurrent(record') /\ record'.inst = c
      BY ZenonT(40), <1>7, RecordIsCurrent DEF BindListener, Publish, Phases
    <2> QED BY <1>7, <2>1 DEF BindListener
  <1>8. ASSUME NEW c \in Cores, FailStartup(c) PROVE RecordFollows'
    <2>1. IsCurrent(record') /\ record'.inst = c
      <3>1. IsCurrent(record) /\ record.inst = c
        BY <1>8 DEF FailStartup
      <3>2. record \in [inst : Cores, phase : Phases, endpoint : BOOLEAN]
        BY <3>1 DEF Records
      <3>3. [record EXCEPT !.phase = "Failed"]
               \in [inst : Cores, phase : Phases, endpoint : BOOLEAN]
        BY <3>2 DEF Phases
      <3> QED BY <1>8, <3>1, <3>2, <3>3, RecordIsCurrent DEF FailStartup
    <2> QED BY <1>8, <2>1 DEF FailStartup
  <1>9. ASSUME NEW c \in Cores, ReportPrepared(c) PROVE RecordFollows'
    BY <1>9 DEF ReportPrepared, Report, ParentGone
  <1>10. ASSUME NEW c \in Cores, MarkReady(c) PROVE RecordFollows'
    BY <1>10 DEF MarkReady
  <1>11. ASSUME NEW c \in Cores, PublishReady(c) PROVE RecordFollows'
    <2>1. record' \in [inst : Cores, phase : Phases, endpoint : BOOLEAN] /\ record'.inst = c
      BY <1>11 DEF PublishReady, Publish, Phases
    <2>2. IsCurrent(record')
      BY <2>1, RecordIsCurrent
    <2> QED BY <1>11, <2>1, <2>2 DEF PublishReady
  <1>12. ASSUME NEW c \in Cores, ReportReady(c) PROVE RecordFollows'
    BY <1>12 DEF ReportReady, Report, ParentGone
  <1>13. ASSUME NEW c \in Cores, PublishStopping(c) PROVE RecordFollows'
    <2>1. IsCurrent(record') /\ record'.inst = c
      <3>1. IsCurrent(record) /\ record.inst = c
        BY <1>13 DEF PublishStopping
      <3>2. record \in [inst : Cores, phase : Phases, endpoint : BOOLEAN]
        BY <3>1 DEF Records
      <3>3. [record EXCEPT !.phase = "Stopping"]
               \in [inst : Cores, phase : Phases, endpoint : BOOLEAN]
        BY <3>2 DEF Phases
      <3> QED BY <1>13, <3>1, <3>2, <3>3, RecordIsCurrent DEF PublishStopping
    <2> QED BY <1>13, <2>1 DEF PublishStopping
  <1>14. ASSUME NEW c \in Cores, RemoveCapability(c) PROVE RecordFollows'
    BY <1>14 DEF RemoveCapability
  <1>15. ASSUME NEW c \in Cores, CleanupRecord(c) PROVE RecordFollows'
    BY <1>15 DEF CleanupRecord
  <1>16. ASSUME NEW c \in Cores, DropLease(c) PROVE RecordFollows'
    BY <1>16 DEF DropLease
  <1>17. ASSUME NEW c \in Cores, Exit(c) PROVE RecordFollows'
    BY <1>17 DEF Exit, Ended
  <1>18. ASSUME NEW c \in Cores, BeginDrain(c) PROVE RecordFollows'
    BY <1>18 DEF BeginDrain, ParentGone
  <1>19. ASSUME NEW c \in Cores, Crash(c) PROVE RecordFollows'
    BY <1>19 DEF Crash, Ended, Live
  <1>20. ASSUME NEW l \in Launchers, Spawn(l) PROVE RecordFollows'
    BY <1>20 DEF Spawn, Refused, Live
  <1>21. ASSUME NEW s \in Stoppers, NoopCleanup(s) PROVE RecordFollows'
    BY <1>21 DEF NoopCleanup
  <1>22. ASSUME NEW s \in Stoppers, FinishStop(s) PROVE RecordFollows'
    BY <1>22 DEF FinishStop, Live
  <1>23. ASSUME NEW l \in Launchers, LaunchStep(l) \/ LauncherDies(l), ~Spawn(l)
        PROVE  RecordFollows'
    <2>1. UNCHANGED <<lease, core, record>>
      BY <1>23 DEF LaunchStep, Reserve, ReadClaim, ReadPrepared, ReadReady, LookRecord,
             LookHeld, VerifyChild, Commit, HandOff, LaunchFails, ReserveFails,
             CleanupLaunch, LauncherDies, ReadLine
    <2> QED BY <2>1
  <1>24. ASSUME NEW s \in Stoppers, StartStop(s) \/ StopStep(s), ~NoopCleanup(s), ~FinishStop(s)
        PROVE  RecordFollows'
    <2>1. UNCHANGED <<lease, core, record>>
      BY <1>24 DEF StopStep, StartStop, LookRecord, LookHeld, StopNothing, StopVerified,
             AcceptStop, PollLease, PollProcess, StopFails
    <2> QED BY <2>1
  <1>25. CASE UNCHANGED vars
    BY <1>25 DEF vars
  <1> QED
    BY <1>1, <1>2, <1>3, <1>4, <1>5, <1>6, <1>7, <1>8, <1>9, <1>10, <1>11, <1>12, <1>13,
       <1>14, <1>15, <1>16, <1>17, <1>18, <1>19, <1>20, <1>21, <1>22, <1>23, <1>24, <1>25
       DEF Next, CoreStep, Killed, LaunchStep, StopStep

LEMMA ReservationStep ==
  ASSUME TypeOK, RecordFollows, Reservation, [Next]_vars PROVE Reservation'
  <1> USE ModeAssumption, ChildAssumption, NamesAssumption, RecordsAssumption
        DEF TypeOK, RecordFollows, Reservation, Clients, IsCurrent, Goto, To, Forget,
            files, process, command
  <1>1. ASSUME NEW c \in Cores, StartProcess(c) PROVE Reservation'
    BY <1>1 DEF StartProcess
  <1>2. ASSUME NEW c \in Cores, AcquireLease(c) PROVE Reservation'
    BY <1>2 DEF AcquireLease, Report, ParentGone
  <1>3. ASSUME NEW c \in Cores, LeaseBusy(c) PROVE Reservation'
    BY <1>3 DEF LeaseBusy, Ended
  <1>4. ASSUME NEW c \in Cores, PublishStarting(c) PROVE Reservation'
    BY <1>4 DEF PublishStarting, Publish
  <1>5. ASSUME NEW c \in Cores, PublishFails(c) PROVE Reservation'
    BY <1>5 DEF PublishFails, Ended
  <1>6. ASSUME NEW c \in Cores, CreateCapability(c) PROVE Reservation'
    BY <1>6 DEF CreateCapability
  <1>7. ASSUME NEW c \in Cores, BindListener(c) PROVE Reservation'
    BY <1>7 DEF BindListener, Publish
  <1>8. ASSUME NEW c \in Cores, FailStartup(c) PROVE Reservation'
    BY <1>8 DEF FailStartup
  <1>9. ASSUME NEW c \in Cores, ReportPrepared(c) PROVE Reservation'
    BY <1>9 DEF ReportPrepared, Report, ParentGone
  <1>10. ASSUME NEW c \in Cores, MarkReady(c) PROVE Reservation'
    BY <1>10 DEF MarkReady
  <1>11. ASSUME NEW c \in Cores, PublishReady(c) PROVE Reservation'
    BY <1>11 DEF PublishReady, Publish
  <1>12. ASSUME NEW c \in Cores, ReportReady(c) PROVE Reservation'
    BY <1>12 DEF ReportReady, Report, ParentGone
  <1>13. ASSUME NEW c \in Cores, PublishStopping(c) PROVE Reservation'
    BY <1>13 DEF PublishStopping
  <1>14. ASSUME NEW c \in Cores, RemoveCapability(c) PROVE Reservation'
    BY <1>14 DEF RemoveCapability
  <1>15. ASSUME NEW c \in Cores, CleanupRecord(c) PROVE Reservation'
    BY <1>15 DEF CleanupRecord
  <1>16. ASSUME NEW c \in Cores, DropLease(c) PROVE Reservation'
    BY <1>16 DEF DropLease
  <1>17. ASSUME NEW c \in Cores, Exit(c) PROVE Reservation'
    BY <1>17 DEF Exit, Ended
  <1>18. ASSUME NEW c \in Cores, BeginDrain(c) PROVE Reservation'
    BY <1>18 DEF BeginDrain, ParentGone
  <1>19. ASSUME NEW c \in Cores, Crash(c) PROVE Reservation'
    BY <1>19 DEF Crash, Ended, Live
  <1>20. ASSUME NEW l \in Launchers, Reserve(l) PROVE Reservation'
    BY <1>20 DEF Reserve
  <1>21. ASSUME NEW l \in Launchers, Spawn(l) PROVE Reservation'
    BY <1>21 DEF Spawn, Refused, Live
  <1>22. ASSUME NEW l \in Launchers, ReadClaim(l) PROVE Reservation'
    BY <1>22 DEF ReadClaim, ReadLine
  <1>23. ASSUME NEW l \in Launchers, ReadPrepared(l) PROVE Reservation'
    BY <1>23 DEF ReadPrepared, ReadLine
  <1>24. ASSUME NEW l \in Launchers, ReadReady(l) PROVE Reservation'
    BY <1>24 DEF ReadReady, ReadLine
  <1>25. ASSUME NEW l \in Launchers, LookRecord(l) PROVE Reservation'
    BY <1>25 DEF LookRecord
  <1>26. ASSUME NEW l \in Launchers, LookHeld(l) PROVE Reservation'
    BY <1>26 DEF LookHeld
  <1>27. ASSUME NEW l \in Launchers, VerifyChild(l) PROVE Reservation'
    BY <1>27 DEF VerifyChild, Observed
  <1>28. ASSUME NEW l \in Launchers, NEW c \in Cores, Commit(l, c) PROVE Reservation'
    BY <1>28 DEF Commit, Connected, Listening
  <1>29. ASSUME NEW l \in Launchers, NEW c \in Cores, HandOff(l, c) PROVE Reservation'
    BY <1>29 DEF HandOff, Connected, Listening
  <1>30. ASSUME NEW l \in Launchers, LaunchFails(l) PROVE Reservation'
    BY <1>30 DEF LaunchFails
  <1>31. ASSUME NEW l \in Launchers, ReserveFails(l) PROVE Reservation'
    BY <1>31 DEF ReserveFails
  <1>32. ASSUME NEW l \in Launchers, CleanupLaunch(l) PROVE Reservation'
    BY <1>32 DEF CleanupLaunch, Live
  <1>33. ASSUME NEW l \in Launchers, LauncherDies(l) PROVE Reservation'
    BY <1>33 DEF LauncherDies
  <1>34. ASSUME NEW s \in Stoppers, StartStop(s) PROVE Reservation'
    BY <1>34 DEF StartStop
  <1>35. ASSUME NEW s \in Stoppers, LookRecord(s) PROVE Reservation'
    BY <1>35 DEF LookRecord
  <1>36. ASSUME NEW s \in Stoppers, LookHeld(s) PROVE Reservation'
    BY <1>36 DEF LookHeld
  <1>37. ASSUME NEW s \in Stoppers, StopNothing(s) PROVE Reservation'
    BY <1>37 DEF StopNothing
  <1>38. ASSUME NEW s \in Stoppers, NoopCleanup(s) PROVE Reservation'
    BY <1>38 DEF NoopCleanup
  <1>39. ASSUME NEW s \in Stoppers, StopVerified(s) PROVE Reservation'
    BY <1>39 DEF StopVerified, Observed
  <1>40. ASSUME NEW s \in Stoppers, NEW c \in Cores, AcceptStop(s, c) PROVE Reservation'
    BY <1>40 DEF AcceptStop, Connected, Listening
  <1>41. ASSUME NEW s \in Stoppers, PollLease(s) PROVE Reservation'
    BY <1>41 DEF PollLease
  <1>42. ASSUME NEW s \in Stoppers, PollProcess(s) PROVE Reservation'
    BY <1>42 DEF PollProcess, Live
  <1>43. ASSUME NEW s \in Stoppers, FinishStop(s) PROVE Reservation'
    BY <1>43 DEF FinishStop, Live
  <1>44. ASSUME NEW s \in Stoppers, StopFails(s) PROVE Reservation'
    BY <1>44 DEF StopFails
  <1>45. CASE UNCHANGED vars
    BY <1>45 DEF vars
  <1> QED
    BY <1>1, <1>2, <1>3, <1>4, <1>5, <1>6, <1>7, <1>8, <1>9, <1>10, <1>11, <1>12, <1>13,
       <1>14, <1>15, <1>16, <1>17, <1>18, <1>19, <1>20, <1>21, <1>22, <1>23, <1>24, <1>25,
       <1>26, <1>27, <1>28, <1>29, <1>30, <1>31, <1>32, <1>33, <1>34, <1>35, <1>36, <1>37,
       <1>38, <1>39, <1>40, <1>41, <1>42, <1>43, <1>44, <1>45
       DEF Next, CoreStep, Killed, LaunchStep, StopStep

LEMMA ServedStep ==
  ASSUME TypeOK, LeaseFollows, RecordFollows, Reservation, Served, [Next]_vars PROVE Served'
  <1> USE ModeAssumption, ChildAssumption, NamesAssumption, RecordsAssumption
        DEF TypeOK, LeaseFollows, RecordFollows, Reservation, Served, Holding,
            Published, IsCurrent, Goto, To, files, process, command
  <1>1. ASSUME NEW c \in Cores, StartProcess(c) PROVE Served'
    BY <1>1 DEF StartProcess
  <1>2. ASSUME NEW c \in Cores, AcquireLease(c) PROVE Served'
    BY <1>2 DEF AcquireLease, Report, ParentGone
  <1>3. ASSUME NEW c \in Cores, LeaseBusy(c) PROVE Served'
    BY <1>3 DEF LeaseBusy, Ended
  <1>4. ASSUME NEW c \in Cores, PublishStarting(c) PROVE Served'
    BY <1>4 DEF PublishStarting, Publish
  <1>5. ASSUME NEW c \in Cores, PublishFails(c) PROVE Served'
    BY <1>5 DEF PublishFails, Ended
  <1>6. ASSUME NEW c \in Cores, CreateCapability(c) PROVE Served'
    BY <1>6 DEF CreateCapability
  <1>7. ASSUME NEW c \in Cores, BindListener(c) PROVE Served'
    BY <1>7 DEF BindListener, Publish
  <1>8. ASSUME NEW c \in Cores, FailStartup(c) PROVE Served'
    BY <1>8 DEF FailStartup
  <1>9. ASSUME NEW c \in Cores, ReportPrepared(c) PROVE Served'
    BY <1>9 DEF ReportPrepared, Report, ParentGone
  <1>10. ASSUME NEW c \in Cores, MarkReady(c) PROVE Served'
    BY <1>10 DEF MarkReady
  <1>11. ASSUME NEW c \in Cores, PublishReady(c) PROVE Served'
    BY <1>11 DEF PublishReady, Publish
  <1>12. ASSUME NEW c \in Cores, ReportReady(c) PROVE Served'
    BY <1>12 DEF ReportReady, Report, ParentGone
  <1>13. ASSUME NEW c \in Cores, PublishStopping(c) PROVE Served'
    BY <1>13 DEF PublishStopping
  <1>14. ASSUME NEW c \in Cores, RemoveCapability(c) PROVE Served'
    BY <1>14 DEF RemoveCapability
  <1>15. ASSUME NEW c \in Cores, CleanupRecord(c) PROVE Served'
    BY <1>15 DEF CleanupRecord
  <1>16. ASSUME NEW c \in Cores, DropLease(c) PROVE Served'
    BY <1>16 DEF DropLease
  <1>17. ASSUME NEW c \in Cores, Exit(c) PROVE Served'
    BY <1>17 DEF Exit, Ended
  <1>18. ASSUME NEW c \in Cores, BeginDrain(c) PROVE Served'
    BY <1>18 DEF BeginDrain, ParentGone
  <1>19. ASSUME NEW c \in Cores, Crash(c) PROVE Served'
    BY <1>19 DEF Crash, Ended, Live
  <1>20. ASSUME NEW l \in Launchers, Spawn(l) PROVE Served'
    BY <1>20 DEF Spawn, Refused, Live
  <1>21. ASSUME NEW s \in Stoppers, NoopCleanup(s) PROVE Served'
    BY <1>21 DEF NoopCleanup
  <1>22. ASSUME NEW s \in Stoppers, FinishStop(s) PROVE Served'
    BY <1>22 DEF FinishStop, Live
  <1>23. ASSUME NEW l \in Launchers, LaunchStep(l) \/ LauncherDies(l), ~Spawn(l)
        PROVE  Served'
    <2>1. UNCHANGED <<lease, core, record, capability>>
      BY <1>23 DEF LaunchStep, Reserve, ReadClaim, ReadPrepared, ReadReady, LookRecord,
             LookHeld, VerifyChild, Commit, HandOff, LaunchFails, ReserveFails,
             CleanupLaunch, LauncherDies, ReadLine
    <2> QED BY <2>1
  <1>24. ASSUME NEW s \in Stoppers, StartStop(s) \/ StopStep(s), ~NoopCleanup(s), ~FinishStop(s)
        PROVE  Served'
    <2>1. UNCHANGED <<lease, core, record, capability>>
      BY <1>24 DEF StopStep, StartStop, LookRecord, LookHeld, StopNothing, StopVerified,
             AcceptStop, PollLease, PollProcess, StopFails
    <2> QED BY <2>1
  <1>25. CASE UNCHANGED vars
    BY <1>25 DEF vars
  <1> QED
    BY <1>1, <1>2, <1>3, <1>4, <1>5, <1>6, <1>7, <1>8, <1>9, <1>10, <1>11, <1>12, <1>13,
       <1>14, <1>15, <1>16, <1>17, <1>18, <1>19, <1>20, <1>21, <1>22, <1>23, <1>24, <1>25
       DEF Next, CoreStep, Killed, LaunchStep, StopStep

LEMMA HandshakeStep ==
  ASSUME TypeOK, Handshake, [Next]_vars PROVE Handshake'
  <1> USE ModeAssumption, ChildAssumption, NamesAssumption, RecordsAssumption
        DEF TypeOK, Handshake, Daemons, Clients, Goto, To, files, process, command
  <1>1. ASSUME NEW c \in Cores, StartProcess(c) PROVE Handshake'
    BY <1>1 DEF StartProcess
  <1>2. ASSUME NEW c \in Cores, AcquireLease(c) PROVE Handshake'
    BY <1>2 DEF AcquireLease, Report, ParentGone
  <1>3. ASSUME NEW c \in Cores, LeaseBusy(c) PROVE Handshake'
    BY <1>3 DEF LeaseBusy, Ended
  <1>4. ASSUME NEW c \in Cores, PublishStarting(c) PROVE Handshake'
    BY <1>4 DEF PublishStarting, Publish
  <1>5. ASSUME NEW c \in Cores, PublishFails(c) PROVE Handshake'
    BY <1>5 DEF PublishFails, Ended
  <1>6. ASSUME NEW c \in Cores, CreateCapability(c) PROVE Handshake'
    BY <1>6 DEF CreateCapability
  <1>7. ASSUME NEW c \in Cores, BindListener(c) PROVE Handshake'
    BY <1>7 DEF BindListener, Publish
  <1>8. ASSUME NEW c \in Cores, FailStartup(c) PROVE Handshake'
    BY <1>8 DEF FailStartup
  <1>9. ASSUME NEW c \in Cores, ReportPrepared(c) PROVE Handshake'
    BY <1>9 DEF ReportPrepared, Report, ParentGone
  <1>10. ASSUME NEW c \in Cores, MarkReady(c) PROVE Handshake'
    BY <1>10 DEF MarkReady
  <1>11. ASSUME NEW c \in Cores, PublishReady(c) PROVE Handshake'
    BY <1>11 DEF PublishReady, Publish
  <1>12. ASSUME NEW c \in Cores, ReportReady(c) PROVE Handshake'
    BY <1>12 DEF ReportReady, Report, ParentGone
  <1>13. ASSUME NEW c \in Cores, PublishStopping(c) PROVE Handshake'
    BY <1>13 DEF PublishStopping
  <1>14. ASSUME NEW c \in Cores, RemoveCapability(c) PROVE Handshake'
    BY <1>14 DEF RemoveCapability
  <1>15. ASSUME NEW c \in Cores, CleanupRecord(c) PROVE Handshake'
    BY <1>15 DEF CleanupRecord
  <1>16. ASSUME NEW c \in Cores, DropLease(c) PROVE Handshake'
    BY <1>16 DEF DropLease
  <1>17. ASSUME NEW c \in Cores, Exit(c) PROVE Handshake'
    BY <1>17 DEF Exit, Ended
  <1>18. ASSUME NEW c \in Cores, BeginDrain(c) PROVE Handshake'
    BY <1>18 DEF BeginDrain, ParentGone
  <1>19. ASSUME NEW c \in Cores, Crash(c) PROVE Handshake'
    BY <1>19 DEF Crash, Ended, Live
  <1>20. ASSUME NEW l \in Launchers, Reserve(l) PROVE Handshake'
    BY <1>20 DEF Reserve
  <1>21. ASSUME NEW l \in Launchers, Spawn(l) PROVE Handshake'
    BY <1>21 DEF Spawn, Refused, Live
  <1>22. ASSUME NEW l \in Launchers, ReadClaim(l) PROVE Handshake'
    BY <1>22 DEF ReadClaim, ReadLine
  <1>23. ASSUME NEW l \in Launchers, ReadPrepared(l) PROVE Handshake'
    BY <1>23 DEF ReadPrepared, ReadLine
  <1>24. ASSUME NEW l \in Launchers, ReadReady(l) PROVE Handshake'
    BY <1>24 DEF ReadReady, ReadLine
  <1>25. ASSUME NEW l \in Launchers, LookRecord(l) PROVE Handshake'
    BY <1>25 DEF LookRecord
  <1>26. ASSUME NEW l \in Launchers, LookHeld(l) PROVE Handshake'
    BY <1>26 DEF LookHeld
  <1>27. ASSUME NEW l \in Launchers, VerifyChild(l) PROVE Handshake'
    BY <1>27 DEF VerifyChild, Observed
  <1>28. ASSUME NEW l \in Launchers, NEW c \in Cores, Commit(l, c) PROVE Handshake'
    BY <1>28 DEF Commit, Connected, Listening
  <1>29. ASSUME NEW l \in Launchers, NEW c \in Cores, HandOff(l, c) PROVE Handshake'
    BY <1>29 DEF HandOff, Connected, Listening
  <1>30. ASSUME NEW l \in Launchers, LaunchFails(l) PROVE Handshake'
    BY <1>30 DEF LaunchFails
  <1>31. ASSUME NEW l \in Launchers, ReserveFails(l) PROVE Handshake'
    BY <1>31 DEF ReserveFails
  <1>32. ASSUME NEW l \in Launchers, CleanupLaunch(l) PROVE Handshake'
    BY <1>32 DEF CleanupLaunch, Live
  <1>33. ASSUME NEW l \in Launchers, LauncherDies(l) PROVE Handshake'
    BY <1>33 DEF LauncherDies
  <1>34. ASSUME NEW s \in Stoppers, StartStop(s) PROVE Handshake'
    BY <1>34 DEF StartStop
  <1>35. ASSUME NEW s \in Stoppers, LookRecord(s) PROVE Handshake'
    BY <1>35 DEF LookRecord
  <1>36. ASSUME NEW s \in Stoppers, LookHeld(s) PROVE Handshake'
    BY <1>36 DEF LookHeld
  <1>37. ASSUME NEW s \in Stoppers, StopNothing(s) PROVE Handshake'
    BY <1>37 DEF StopNothing
  <1>38. ASSUME NEW s \in Stoppers, NoopCleanup(s) PROVE Handshake'
    BY <1>38 DEF NoopCleanup
  <1>39. ASSUME NEW s \in Stoppers, StopVerified(s) PROVE Handshake'
    BY <1>39 DEF StopVerified, Observed
  <1>40. ASSUME NEW s \in Stoppers, NEW c \in Cores, AcceptStop(s, c) PROVE Handshake'
    BY <1>40 DEF AcceptStop, Connected, Listening
  <1>41. ASSUME NEW s \in Stoppers, PollLease(s) PROVE Handshake'
    BY <1>41 DEF PollLease
  <1>42. ASSUME NEW s \in Stoppers, PollProcess(s) PROVE Handshake'
    BY <1>42 DEF PollProcess, Live
  <1>43. ASSUME NEW s \in Stoppers, FinishStop(s) PROVE Handshake'
    BY <1>43 DEF FinishStop, Live
  <1>44. ASSUME NEW s \in Stoppers, StopFails(s) PROVE Handshake'
    BY <1>44 DEF StopFails
  <1>45. CASE UNCHANGED vars
    BY <1>45 DEF vars
  <1> QED
    BY <1>1, <1>2, <1>3, <1>4, <1>5, <1>6, <1>7, <1>8, <1>9, <1>10, <1>11, <1>12, <1>13,
       <1>14, <1>15, <1>16, <1>17, <1>18, <1>19, <1>20, <1>21, <1>22, <1>23, <1>24, <1>25,
       <1>26, <1>27, <1>28, <1>29, <1>30, <1>31, <1>32, <1>33, <1>34, <1>35, <1>36, <1>37,
       <1>38, <1>39, <1>40, <1>41, <1>42, <1>43, <1>44, <1>45
       DEF Next, CoreStep, Killed, LaunchStep, StopStep

LEMMA OwnershipStep == OwnershipInv /\ [Next]_vars => OwnershipInv'
  BY TypeStep, LeaseStep, RecordStep, ReservationStep, ServedStep, HandshakeStep
     DEF OwnershipInv

LEMMA OwnershipInit == Init => OwnershipInv
  BY ModeAssumption, ChildAssumption, NamesAssumption
     DEF Init, OwnershipInv, TypeOK, LeaseFollows, RecordFollows, Reservation, Served,
         Handshake, Holding, Published, Records, Phases, CoreStates, ClientStates, Clients,
         Daemons, IsCurrent

\* OwnershipSound: whatever Cores, launches and stop commands do, a Core that has
\* published holds the lease and is the one in the record until it takes itself
\* out, and a launch whose child waits for the administrative lock has the line
\* that makes it give up the lock.
THEOREM OwnershipIsSound == Spec => []OwnershipSound
  <1>1. OwnershipInv => OwnershipSound
    BY NamesAssumption, ChildAssumption
       DEF OwnershipInv, OwnershipSound, OwnerPublished, ClaimFreesLock, LeaseFollows, Holding,
           RecordFollows, Served, Reservation, Handshake, Published, Daemons
  <1> QED BY <1>1, OwnershipInit, OwnershipStep, PTL DEF Spec

LEMMA StartedStep ==
  ASSUME TypeOK, RecordFollows, Started, [Next]_vars PROVE Started'
  <1> USE ModeAssumption, ChildAssumption, NamesAssumption, RecordsAssumption
        DEF TypeOK, RecordFollows, Started, Records, Clients, Published, IsCurrent,
            Goto, To, Forget, files, process, command
  <1>1. ASSUME NEW c \in Cores, StartProcess(c) PROVE Started'
    BY <1>1 DEF StartProcess
  <1>2. ASSUME NEW c \in Cores, AcquireLease(c) PROVE Started'
    BY <1>2 DEF AcquireLease, Report, ParentGone
  <1>3. ASSUME NEW c \in Cores, LeaseBusy(c) PROVE Started'
    BY <1>3 DEF LeaseBusy, Ended
  <1>4. ASSUME NEW c \in Cores, PublishStarting(c) PROVE Started'
    BY <1>4 DEF PublishStarting, Publish
  <1>5. ASSUME NEW c \in Cores, PublishFails(c) PROVE Started'
    BY <1>5 DEF PublishFails, Ended
  <1>6. ASSUME NEW c \in Cores, CreateCapability(c) PROVE Started'
    BY <1>6 DEF CreateCapability
  <1>7. ASSUME NEW c \in Cores, BindListener(c) PROVE Started'
    BY <1>7 DEF BindListener, Publish
  <1>8. ASSUME NEW c \in Cores, FailStartup(c) PROVE Started'
    BY <1>8 DEF FailStartup
  <1>9. ASSUME NEW c \in Cores, ReportPrepared(c) PROVE Started'
    BY <1>9 DEF ReportPrepared, Report, ParentGone
  <1>10. ASSUME NEW c \in Cores, MarkReady(c) PROVE Started'
    BY <1>10 DEF MarkReady
  <1>11. ASSUME NEW c \in Cores, PublishReady(c) PROVE Started'
    BY <1>11 DEF PublishReady, Publish
  <1>12. ASSUME NEW c \in Cores, ReportReady(c) PROVE Started'
    BY <1>12 DEF ReportReady, Report, ParentGone
  <1>13. ASSUME NEW c \in Cores, PublishStopping(c) PROVE Started'
    BY <1>13 DEF PublishStopping
  <1>14. ASSUME NEW c \in Cores, RemoveCapability(c) PROVE Started'
    BY <1>14 DEF RemoveCapability
  <1>15. ASSUME NEW c \in Cores, CleanupRecord(c) PROVE Started'
    BY <1>15 DEF CleanupRecord
  <1>16. ASSUME NEW c \in Cores, DropLease(c) PROVE Started'
    BY <1>16 DEF DropLease
  <1>17. ASSUME NEW c \in Cores, Exit(c) PROVE Started'
    BY <1>17 DEF Exit, Ended
  <1>18. ASSUME NEW c \in Cores, BeginDrain(c) PROVE Started'
    BY <1>18 DEF BeginDrain, ParentGone
  <1>19. ASSUME NEW c \in Cores, Crash(c) PROVE Started'
    BY <1>19 DEF Crash, Ended, Live
  <1>20. ASSUME NEW l \in Launchers, Reserve(l) PROVE Started'
    BY <1>20 DEF Reserve
  <1>21. ASSUME NEW l \in Launchers, Spawn(l) PROVE Started'
    BY <1>21 DEF Spawn, Refused, Live
  <1>22. ASSUME NEW l \in Launchers, ReadClaim(l) PROVE Started'
    BY <1>22 DEF ReadClaim, ReadLine
  <1>23. ASSUME NEW l \in Launchers, ReadPrepared(l) PROVE Started'
    BY <1>23 DEF ReadPrepared, ReadLine
  <1>24. ASSUME NEW l \in Launchers, ReadReady(l) PROVE Started'
    BY <1>24 DEF ReadReady, ReadLine
  <1>25. ASSUME NEW l \in Launchers, LookRecord(l) PROVE Started'
    BY <1>25 DEF LookRecord
  <1>26. ASSUME NEW l \in Launchers, LookHeld(l) PROVE Started'
    BY <1>26 DEF LookHeld
  <1>27. ASSUME NEW l \in Launchers, VerifyChild(l) PROVE Started'
    BY <1>27 DEF VerifyChild, Observed
  <1>28. ASSUME NEW l \in Launchers, NEW c \in Cores, Commit(l, c) PROVE Started'
    BY <1>28 DEF Commit, Connected, Listening
  <1>29. ASSUME NEW l \in Launchers, NEW c \in Cores, HandOff(l, c) PROVE Started'
    BY <1>29 DEF HandOff, Connected, Listening
  <1>30. ASSUME NEW l \in Launchers, LaunchFails(l) PROVE Started'
    BY <1>30 DEF LaunchFails
  <1>31. ASSUME NEW l \in Launchers, ReserveFails(l) PROVE Started'
    BY <1>31 DEF ReserveFails
  <1>32. ASSUME NEW l \in Launchers, CleanupLaunch(l) PROVE Started'
    BY <1>32 DEF CleanupLaunch, Live
  <1>33. ASSUME NEW l \in Launchers, LauncherDies(l) PROVE Started'
    BY <1>33 DEF LauncherDies
  <1>34. ASSUME NEW s \in Stoppers, StartStop(s) PROVE Started'
    BY <1>34 DEF StartStop
  <1>35. ASSUME NEW s \in Stoppers, LookRecord(s) PROVE Started'
    BY <1>35 DEF LookRecord
  <1>36. ASSUME NEW s \in Stoppers, LookHeld(s) PROVE Started'
    BY <1>36 DEF LookHeld
  <1>37. ASSUME NEW s \in Stoppers, StopNothing(s) PROVE Started'
    BY <1>37 DEF StopNothing
  <1>38. ASSUME NEW s \in Stoppers, NoopCleanup(s) PROVE Started'
    BY <1>38 DEF NoopCleanup
  <1>39. ASSUME NEW s \in Stoppers, StopVerified(s) PROVE Started'
    BY <1>39 DEF StopVerified, Observed
  <1>40. ASSUME NEW s \in Stoppers, NEW c \in Cores, AcceptStop(s, c) PROVE Started'
    BY <1>40 DEF AcceptStop, Connected, Listening
  <1>41. ASSUME NEW s \in Stoppers, PollLease(s) PROVE Started'
    BY <1>41 DEF PollLease
  <1>42. ASSUME NEW s \in Stoppers, PollProcess(s) PROVE Started'
    BY <1>42 DEF PollProcess, Live
  <1>43. ASSUME NEW s \in Stoppers, FinishStop(s) PROVE Started'
    BY <1>43 DEF FinishStop, Live
  <1>44. ASSUME NEW s \in Stoppers, StopFails(s) PROVE Started'
    BY <1>44 DEF StopFails
  <1>45. CASE UNCHANGED vars
    BY <1>45 DEF vars
  <1> QED
    BY <1>1, <1>2, <1>3, <1>4, <1>5, <1>6, <1>7, <1>8, <1>9, <1>10, <1>11, <1>12, <1>13,
       <1>14, <1>15, <1>16, <1>17, <1>18, <1>19, <1>20, <1>21, <1>22, <1>23, <1>24, <1>25,
       <1>26, <1>27, <1>28, <1>29, <1>30, <1>31, <1>32, <1>33, <1>34, <1>35, <1>36, <1>37,
       <1>38, <1>39, <1>40, <1>41, <1>42, <1>43, <1>44, <1>45
       DEF Next, CoreStep, Killed, LaunchStep, StopStep

LEMMA InformedStep ==
  ASSUME TypeOK, RecordFollows, Started, Informed, [Next]_vars PROVE Informed'
  <1> USE ModeAssumption, ChildAssumption, NamesAssumption, RecordsAssumption
        DEF TypeOK, Started, Informed, Records, Clients, Phases, IsCurrent, Goto, To,
            Forget, files, process, command
  <1>1. ASSUME NEW c \in Cores, StartProcess(c) PROVE Informed'
    BY <1>1 DEF StartProcess
  <1>2. ASSUME NEW c \in Cores, AcquireLease(c) PROVE Informed'
    BY <1>2 DEF AcquireLease, Report, ParentGone
  <1>3. ASSUME NEW c \in Cores, LeaseBusy(c) PROVE Informed'
    BY <1>3 DEF LeaseBusy, Ended
  <1>4. ASSUME NEW c \in Cores, PublishStarting(c) PROVE Informed'
    BY <1>4 DEF PublishStarting, Publish
  <1>5. ASSUME NEW c \in Cores, PublishFails(c) PROVE Informed'
    BY <1>5 DEF PublishFails, Ended
  <1>6. ASSUME NEW c \in Cores, CreateCapability(c) PROVE Informed'
    BY <1>6 DEF CreateCapability
  <1>7. ASSUME NEW c \in Cores, BindListener(c) PROVE Informed'
    BY <1>7 DEF BindListener, Publish
  <1>8. ASSUME NEW c \in Cores, FailStartup(c) PROVE Informed'
    BY <1>8 DEF FailStartup
  <1>9. ASSUME NEW c \in Cores, ReportPrepared(c) PROVE Informed'
    BY <1>9 DEF ReportPrepared, Report, ParentGone
  <1>10. ASSUME NEW c \in Cores, MarkReady(c) PROVE Informed'
    BY <1>10 DEF MarkReady
  <1>11. ASSUME NEW c \in Cores, PublishReady(c) PROVE Informed'
    BY <1>11 DEF PublishReady, Publish
  <1>12. ASSUME NEW c \in Cores, ReportReady(c) PROVE Informed'
    BY <1>12 DEF ReportReady, Report, ParentGone
  <1>13. ASSUME NEW c \in Cores, PublishStopping(c) PROVE Informed'
    BY <1>13 DEF PublishStopping
  <1>14. ASSUME NEW c \in Cores, RemoveCapability(c) PROVE Informed'
    BY <1>14 DEF RemoveCapability
  <1>15. ASSUME NEW c \in Cores, CleanupRecord(c) PROVE Informed'
    BY <1>15 DEF CleanupRecord
  <1>16. ASSUME NEW c \in Cores, DropLease(c) PROVE Informed'
    BY <1>16 DEF DropLease
  <1>17. ASSUME NEW c \in Cores, Exit(c) PROVE Informed'
    BY <1>17 DEF Exit, Ended
  <1>18. ASSUME NEW c \in Cores, BeginDrain(c) PROVE Informed'
    BY <1>18 DEF BeginDrain, ParentGone
  <1>19. ASSUME NEW c \in Cores, Crash(c) PROVE Informed'
    BY <1>19 DEF Crash, Ended, Live
  <1>20. ASSUME NEW l \in Launchers, Reserve(l) PROVE Informed'
    BY <1>20 DEF Reserve
  <1>21. ASSUME NEW l \in Launchers, Spawn(l) PROVE Informed'
    BY <1>21 DEF Spawn, Refused, Live
  <1>22. ASSUME NEW l \in Launchers, ReadClaim(l) PROVE Informed'
    BY <1>22 DEF ReadClaim, ReadLine
  <1>23. ASSUME NEW l \in Launchers, ReadPrepared(l) PROVE Informed'
    BY <1>23 DEF ReadPrepared, ReadLine
  <1>24. ASSUME NEW l \in Launchers, ReadReady(l) PROVE Informed'
    BY <1>24 DEF ReadReady, ReadLine
  <1>25. ASSUME NEW l \in Launchers, LookRecord(l) PROVE Informed'
    BY <1>25 DEF LookRecord
  <1>26. ASSUME NEW l \in Launchers, LookHeld(l) PROVE Informed'
    BY <1>26 DEF LookHeld
  <1>27. ASSUME NEW l \in Launchers, VerifyChild(l) PROVE Informed'
    BY <1>27 DEF VerifyChild, Observed
  <1>28. ASSUME NEW l \in Launchers, NEW c \in Cores, Commit(l, c) PROVE Informed'
    BY <1>28 DEF Commit, Connected, Listening
  <1>29. ASSUME NEW l \in Launchers, NEW c \in Cores, HandOff(l, c) PROVE Informed'
    BY <1>29 DEF HandOff, Connected, Listening
  <1>30. ASSUME NEW l \in Launchers, LaunchFails(l) PROVE Informed'
    BY <1>30 DEF LaunchFails
  <1>31. ASSUME NEW l \in Launchers, ReserveFails(l) PROVE Informed'
    BY <1>31 DEF ReserveFails
  <1>32. ASSUME NEW l \in Launchers, CleanupLaunch(l) PROVE Informed'
    BY <1>32 DEF CleanupLaunch, Live
  <1>33. ASSUME NEW l \in Launchers, LauncherDies(l) PROVE Informed'
    BY <1>33 DEF LauncherDies
  <1>34. ASSUME NEW s \in Stoppers, StartStop(s) PROVE Informed'
    BY <1>34 DEF StartStop
  <1>35. ASSUME NEW s \in Stoppers, LookRecord(s) PROVE Informed'
    BY <1>35 DEF LookRecord
  <1>36. ASSUME NEW s \in Stoppers, LookHeld(s) PROVE Informed'
    BY <1>36 DEF LookHeld
  <1>37. ASSUME NEW s \in Stoppers, StopNothing(s) PROVE Informed'
    BY <1>37 DEF StopNothing
  <1>38. ASSUME NEW s \in Stoppers, NoopCleanup(s) PROVE Informed'
    BY <1>38 DEF NoopCleanup
  <1>39. ASSUME NEW s \in Stoppers, StopVerified(s) PROVE Informed'
    BY <1>39 DEF StopVerified, Observed
  <1>40. ASSUME NEW s \in Stoppers, NEW c \in Cores, AcceptStop(s, c) PROVE Informed'
    BY <1>40 DEF AcceptStop, Connected, Listening
  <1>41. ASSUME NEW s \in Stoppers, PollLease(s) PROVE Informed'
    BY <1>41 DEF PollLease
  <1>42. ASSUME NEW s \in Stoppers, PollProcess(s) PROVE Informed'
    BY <1>42 DEF PollProcess, Live
  <1>43. ASSUME NEW s \in Stoppers, FinishStop(s) PROVE Informed'
    BY <1>43 DEF FinishStop, Live
  <1>44. ASSUME NEW s \in Stoppers, StopFails(s) PROVE Informed'
    BY <1>44 DEF StopFails
  <1>45. CASE UNCHANGED vars
    BY <1>45 DEF vars
  <1> QED
    BY <1>1, <1>2, <1>3, <1>4, <1>5, <1>6, <1>7, <1>8, <1>9, <1>10, <1>11, <1>12, <1>13,
       <1>14, <1>15, <1>16, <1>17, <1>18, <1>19, <1>20, <1>21, <1>22, <1>23, <1>24, <1>25,
       <1>26, <1>27, <1>28, <1>29, <1>30, <1>31, <1>32, <1>33, <1>34, <1>35, <1>36, <1>37,
       <1>38, <1>39, <1>40, <1>41, <1>42, <1>43, <1>44, <1>45
       DEF Next, CoreStep, Killed, LaunchStep, StopStep

LEMMA CoresLeaveCommands ==
  ASSUME NEW c \in Cores, StartProcess(c) \/ CoreStep(c) \/ BeginDrain(c) \/ Crash(c)
  PROVE  UNCHANGED <<client, seen, stopAsked>>
  BY DEF CoreStep, StartProcess, AcquireLease, LeaseBusy, PublishStarting, PublishFails,
         CreateCapability, BindListener, FailStartup, ReportPrepared, MarkReady,
         PublishReady, ReportReady, PublishStopping, RemoveCapability, CleanupRecord,
         DropLease, Exit, BeginDrain, Crash, process, command

LEMMA SentStep ==
  ASSUME TypeOK, Sent, Informed, [Next]_vars PROVE Sent'
  <1> USE ModeAssumption, ChildAssumption, NamesAssumption, RecordsAssumption
        DEF TypeOK, Sent, Informed, Clients, IsCurrent, To, Forget, files, process,
            command
  <1>1. ASSUME NEW c \in Cores, StartProcess(c) \/ CoreStep(c) \/ BeginDrain(c) \/ Crash(c)
        PROVE  Sent'
    BY <1>1, CoresLeaveCommands
  <1>2. ASSUME NEW l \in Launchers, Reserve(l) PROVE Sent'
    BY <1>2 DEF Reserve
  <1>3. ASSUME NEW l \in Launchers, Spawn(l) PROVE Sent'
    BY <1>3 DEF Spawn, Refused, Live
  <1>4. ASSUME NEW l \in Launchers, ReadClaim(l) PROVE Sent'
    BY <1>4 DEF ReadClaim, ReadLine
  <1>5. ASSUME NEW l \in Launchers, ReadPrepared(l) PROVE Sent'
    BY <1>5 DEF ReadPrepared, ReadLine
  <1>6. ASSUME NEW l \in Launchers, ReadReady(l) PROVE Sent'
    BY <1>6 DEF ReadReady, ReadLine
  <1>7. ASSUME NEW l \in Launchers, LookRecord(l) PROVE Sent'
    BY <1>7 DEF LookRecord
  <1>8. ASSUME NEW l \in Launchers, LookHeld(l) PROVE Sent'
    BY <1>8 DEF LookHeld
  <1>9. ASSUME NEW l \in Launchers, VerifyChild(l) PROVE Sent'
    BY <1>9 DEF VerifyChild, Observed
  <1>10. ASSUME NEW l \in Launchers, NEW c \in Cores, Commit(l, c) PROVE Sent'
    BY <1>10 DEF Commit, Connected, Listening
  <1>11. ASSUME NEW l \in Launchers, NEW c \in Cores, HandOff(l, c) PROVE Sent'
    BY <1>11 DEF HandOff, Connected, Listening
  <1>12. ASSUME NEW l \in Launchers, LaunchFails(l) PROVE Sent'
    BY <1>12 DEF LaunchFails
  <1>13. ASSUME NEW l \in Launchers, ReserveFails(l) PROVE Sent'
    <2>1. \A s \in Stoppers : client'[s] = client[s] /\ seen'[s] = seen[s]
      <3>1. CASE To(l, "deciding", "failed")
        BY <1>13, <3>1 DEF ReserveFails
      <3>2. CASE To(l, "idle", "failed")
        BY <1>13, <3>2 DEF ReserveFails
      <3> QED BY <1>13, <3>1, <3>2 DEF ReserveFails
    <2> QED BY <1>13, <2>1 DEF ReserveFails
  <1>14. ASSUME NEW l \in Launchers, CleanupLaunch(l) PROVE Sent'
    BY <1>14 DEF CleanupLaunch, Live
  <1>15. ASSUME NEW l \in Launchers, LauncherDies(l) PROVE Sent'
    BY <1>15 DEF LauncherDies
  <1>16. ASSUME NEW s \in Stoppers, StartStop(s) PROVE Sent'
    BY <1>16 DEF StartStop
  <1>17. ASSUME NEW s \in Stoppers, LookRecord(s) PROVE Sent'
    BY <1>17 DEF LookRecord
  <1>18. ASSUME NEW s \in Stoppers, LookHeld(s) PROVE Sent'
    BY <1>18 DEF LookHeld
  <1>19. ASSUME NEW s \in Stoppers, StopNothing(s) PROVE Sent'
    BY <1>19 DEF StopNothing
  <1>20. ASSUME NEW s \in Stoppers, NoopCleanup(s) PROVE Sent'
    BY <1>20 DEF NoopCleanup
  <1>21. ASSUME NEW s \in Stoppers, StopVerified(s) PROVE Sent'
    BY <1>21 DEF StopVerified, Observed
  <1>22. ASSUME NEW s \in Stoppers, NEW c \in Cores, AcceptStop(s, c) PROVE Sent'
    BY <1>22 DEF AcceptStop, Connected, Listening
  <1>23. ASSUME NEW s \in Stoppers, PollLease(s) PROVE Sent'
    BY <1>23 DEF PollLease
  <1>24. ASSUME NEW s \in Stoppers, PollProcess(s) PROVE Sent'
    BY <1>24 DEF PollProcess, Live
  <1>25. ASSUME NEW s \in Stoppers, FinishStop(s) PROVE Sent'
    BY <1>25 DEF FinishStop, Live
  <1>26. ASSUME NEW s \in Stoppers, StopFails(s) PROVE Sent'
    BY <1>26 DEF StopFails
  <1>27. CASE UNCHANGED vars
    BY <1>27 DEF vars
  <1> QED
    BY <1>1, <1>2, <1>3, <1>4, <1>5, <1>6, <1>7, <1>8, <1>9, <1>10, <1>11, <1>12, <1>13,
       <1>14, <1>15, <1>16, <1>17, <1>18, <1>19, <1>20, <1>21, <1>22, <1>23, <1>24, <1>25,
       <1>26, <1>27
       DEF Next, Killed, LaunchStep, StopStep

LEMMA StopConfirmedStep ==
  ASSUME TypeOK, RecordFollows, Informed, StopConfirmed, [Next]_vars PROVE StopConfirmed'
  <1> USE ModeAssumption, ChildAssumption, NamesAssumption, RecordsAssumption
        DEF TypeOK, RecordFollows, Informed, StopConfirmed, Published, Clients,
            IsCurrent, Goto, To, Forget, files, process, command
  <1>1. ASSUME NEW c \in Cores, StartProcess(c) PROVE StopConfirmed'
    BY <1>1 DEF StartProcess
  <1>2. ASSUME NEW c \in Cores, AcquireLease(c) PROVE StopConfirmed'
    BY <1>2 DEF AcquireLease, Report, ParentGone
  <1>3. ASSUME NEW c \in Cores, LeaseBusy(c) PROVE StopConfirmed'
    BY <1>3 DEF LeaseBusy, Ended
  <1>4. ASSUME NEW c \in Cores, PublishStarting(c) PROVE StopConfirmed'
    BY <1>4 DEF PublishStarting, Publish
  <1>5. ASSUME NEW c \in Cores, PublishFails(c) PROVE StopConfirmed'
    BY <1>5 DEF PublishFails, Ended
  <1>6. ASSUME NEW c \in Cores, CreateCapability(c) PROVE StopConfirmed'
    BY <1>6 DEF CreateCapability
  <1>7. ASSUME NEW c \in Cores, BindListener(c) PROVE StopConfirmed'
    BY <1>7 DEF BindListener, Publish
  <1>8. ASSUME NEW c \in Cores, FailStartup(c) PROVE StopConfirmed'
    <2>1. IsCurrent(record) /\ record.inst = c /\ core'[c] # "exited"
      BY <1>8 DEF FailStartup
    <2>2. record \in [inst : Cores, phase : Phases, endpoint : BOOLEAN]
      BY <2>1 DEF Records
    <2>3. record' = record \/ record'.inst = c
      BY <1>8, <2>1, <2>2 DEF FailStartup
    <2> QED BY <1>8, <2>1, <2>3 DEF FailStartup
  <1>9. ASSUME NEW c \in Cores, ReportPrepared(c) PROVE StopConfirmed'
    BY <1>9 DEF ReportPrepared, Report, ParentGone
  <1>10. ASSUME NEW c \in Cores, MarkReady(c) PROVE StopConfirmed'
    BY <1>10 DEF MarkReady
  <1>11. ASSUME NEW c \in Cores, PublishReady(c) PROVE StopConfirmed'
    BY <1>11 DEF PublishReady, Publish
  <1>12. ASSUME NEW c \in Cores, ReportReady(c) PROVE StopConfirmed'
    BY <1>12 DEF ReportReady, Report, ParentGone
  <1>13. ASSUME NEW c \in Cores, PublishStopping(c) PROVE StopConfirmed'
    <2>1. IsCurrent(record) /\ record.inst = c /\ core'[c] # "exited"
      BY <1>13 DEF PublishStopping
    <2>2. record \in [inst : Cores, phase : Phases, endpoint : BOOLEAN]
      BY <2>1 DEF Records
    <2>3. record' = record \/ record'.inst = c
      BY <1>13, <2>1, <2>2 DEF PublishStopping
    <2> QED BY <1>13, <2>1, <2>3 DEF PublishStopping
  <1>14. ASSUME NEW c \in Cores, RemoveCapability(c) PROVE StopConfirmed'
    BY <1>14 DEF RemoveCapability
  <1>15. ASSUME NEW c \in Cores, CleanupRecord(c) PROVE StopConfirmed'
    BY <1>15 DEF CleanupRecord
  <1>16. ASSUME NEW c \in Cores, DropLease(c) PROVE StopConfirmed'
    BY <1>16 DEF DropLease
  <1>17. ASSUME NEW c \in Cores, Exit(c) PROVE StopConfirmed'
    BY <1>17 DEF Exit, Ended
  <1>18. ASSUME NEW c \in Cores, BeginDrain(c) PROVE StopConfirmed'
    BY <1>18 DEF BeginDrain, ParentGone
  <1>19. ASSUME NEW c \in Cores, Crash(c) PROVE StopConfirmed'
    BY <1>19 DEF Crash, Ended, Live
  <1>20. ASSUME NEW l \in Launchers, Reserve(l) PROVE StopConfirmed'
    BY <1>20 DEF Reserve
  <1>21. ASSUME NEW l \in Launchers, Spawn(l) PROVE StopConfirmed'
    BY <1>21 DEF Spawn, Refused, Live
  <1>22. ASSUME NEW l \in Launchers, ReadClaim(l) PROVE StopConfirmed'
    BY <1>22 DEF ReadClaim, ReadLine
  <1>23. ASSUME NEW l \in Launchers, ReadPrepared(l) PROVE StopConfirmed'
    BY <1>23 DEF ReadPrepared, ReadLine
  <1>24. ASSUME NEW l \in Launchers, ReadReady(l) PROVE StopConfirmed'
    BY <1>24 DEF ReadReady, ReadLine
  <1>25. ASSUME NEW l \in Launchers, LookRecord(l) PROVE StopConfirmed'
    BY <1>25 DEF LookRecord
  <1>26. ASSUME NEW l \in Launchers, LookHeld(l) PROVE StopConfirmed'
    BY <1>26 DEF LookHeld
  <1>27. ASSUME NEW l \in Launchers, VerifyChild(l) PROVE StopConfirmed'
    BY <1>27 DEF VerifyChild, Observed
  <1>28. ASSUME NEW l \in Launchers, NEW c \in Cores, Commit(l, c) PROVE StopConfirmed'
    BY <1>28 DEF Commit, Connected, Listening
  <1>29. ASSUME NEW l \in Launchers, NEW c \in Cores, HandOff(l, c) PROVE StopConfirmed'
    BY <1>29 DEF HandOff, Connected, Listening
  <1>30. ASSUME NEW l \in Launchers, LaunchFails(l) PROVE StopConfirmed'
    BY <1>30 DEF LaunchFails
  <1>31. ASSUME NEW l \in Launchers, ReserveFails(l) PROVE StopConfirmed'
    BY <1>31 DEF ReserveFails
  <1>32. ASSUME NEW l \in Launchers, CleanupLaunch(l) PROVE StopConfirmed'
    BY <1>32 DEF CleanupLaunch, Live
  <1>33. ASSUME NEW l \in Launchers, LauncherDies(l) PROVE StopConfirmed'
    BY <1>33 DEF LauncherDies
  <1>34. ASSUME NEW s \in Stoppers, StartStop(s) PROVE StopConfirmed'
    BY <1>34 DEF StartStop
  <1>35. ASSUME NEW s \in Stoppers, LookRecord(s) PROVE StopConfirmed'
    BY <1>35 DEF LookRecord
  <1>36. ASSUME NEW s \in Stoppers, LookHeld(s) PROVE StopConfirmed'
    BY <1>36 DEF LookHeld
  <1>37. ASSUME NEW s \in Stoppers, StopNothing(s) PROVE StopConfirmed'
    BY <1>37 DEF StopNothing
  <1>38. ASSUME NEW s \in Stoppers, NoopCleanup(s) PROVE StopConfirmed'
    BY <1>38 DEF NoopCleanup
  <1>39. ASSUME NEW s \in Stoppers, StopVerified(s) PROVE StopConfirmed'
    BY <1>39 DEF StopVerified, Observed
  <1>40. ASSUME NEW s \in Stoppers, NEW c \in Cores, AcceptStop(s, c) PROVE StopConfirmed'
    BY <1>40 DEF AcceptStop, Connected, Listening
  <1>41. ASSUME NEW s \in Stoppers, PollLease(s) PROVE StopConfirmed'
    BY <1>41 DEF PollLease
  <1>42. ASSUME NEW s \in Stoppers, PollProcess(s) PROVE StopConfirmed'
    BY <1>42 DEF PollProcess, Live
  <1>43. ASSUME NEW s \in Stoppers, FinishStop(s) PROVE StopConfirmed'
    BY <1>43 DEF FinishStop, Live
  <1>44. ASSUME NEW s \in Stoppers, StopFails(s) PROVE StopConfirmed'
    BY <1>44 DEF StopFails
  <1>45. CASE UNCHANGED vars
    BY <1>45 DEF vars
  <1> QED
    BY <1>1, <1>2, <1>3, <1>4, <1>5, <1>6, <1>7, <1>8, <1>9, <1>10, <1>11, <1>12, <1>13,
       <1>14, <1>15, <1>16, <1>17, <1>18, <1>19, <1>20, <1>21, <1>22, <1>23, <1>24, <1>25,
       <1>26, <1>27, <1>28, <1>29, <1>30, <1>31, <1>32, <1>33, <1>34, <1>35, <1>36, <1>37,
       <1>38, <1>39, <1>40, <1>41, <1>42, <1>43, <1>44, <1>45
       DEF Next, CoreStep, Killed, LaunchStep, StopStep

LEMMA CommandInit == Init => OwnershipInv /\ CommandInv
  BY OwnershipInit DEF Init, CommandInv, Started, Informed, Sent, StopConfirmed, IsCurrent,
                       Clients

LEMMA CommandStep ==
  OwnershipInv /\ CommandInv /\ [Next]_vars => (OwnershipInv /\ CommandInv)'
  BY OwnershipStep, StartedStep, InformedStep, SentStep, StopConfirmedStep
     DEF OwnershipInv, CommandInv

\* StopSound: the instance a confirmed stop talked to has exited and the record
\* does not name it, and no Core gets a stop but the daemon some stop command
\* read from the record.
THEOREM StopIsSound == Spec => []StopSound
  <1>1. OwnershipInv /\ CommandInv => StopSound
    BY DEF CommandInv, Sent, StopSound, StopReachesTarget
  <1> QED BY <1>1, CommandInit, CommandStep, PTL DEF Spec

LEMMA LaunchConfirmedStep ==
  ASSUME TypeOK, LeaseFollows, Informed, [Next]_vars PROVE LaunchConfirmed
  <1> SUFFICES ASSUME NEW l \in Launchers, client[l] # "ok", client'[l] = "ok"
               PROVE  lease = Child[l] /\ life[Child[l]] = "Ready"
    BY DEF LaunchConfirmed
  <1>1. PICK m \in Launchers : LaunchStep(m) \/ LauncherDies(m)
    <2>1. ASSUME NEW s \in Stoppers, StartStop(s) \/ StopStep(s) PROVE client'[l] # "ok"
      BY <2>1, NamesAssumption
         DEF TypeOK, Clients, To,
             StopStep, StartStop, LookRecord, LookHeld, StopNothing, NoopCleanup,
             StopVerified, AcceptStop, PollLease, PollProcess, FinishStop, StopFails
    <2> QED BY <2>1, CoresLeaveCommands DEF Next, Killed, vars, command
  <1>2. m = l /\ \E c \in Cores : HandOff(l, c)
    BY <1>1 DEF TypeOK, Clients, To,
              ReadLine, LaunchStep, Reserve, Spawn, ReadClaim, ReadPrepared, ReadReady,
              LookRecord, LookHeld, VerifyChild, Commit, HandOff, LaunchFails,
              ReserveFails, CleanupLaunch, LauncherDies
  <1>3. PICK c \in Cores : HandOff(l, c)
    BY <1>2
  <1>4. lease = c /\ seen[l].inst = c /\ life[c] = "Ready"
    BY <1>3 DEF HandOff, Connected, Listening, LeaseFollows, Holding, Published
  <1>5. seen[l].inst = Child[l]
    BY <1>3 DEF HandOff, To, Informed
  <1> QED BY <1>4, <1>5

LEMMA LegacyStep ==
  ASSUME TypeOK, RecordFollows, Reservation, [Next]_vars PROVE LegacyRetained
  <1> USE ModeAssumption, ChildAssumption, NamesAssumption, RecordsAssumption
        DEF TypeOK, RecordFollows, Reservation, LegacyRetained, Published, IsCurrent,
            Goto, To, files, process, command
  <1>1. ASSUME NEW c \in Cores, StartProcess(c) PROVE LegacyRetained
    BY <1>1 DEF StartProcess
  <1>2. ASSUME NEW c \in Cores, AcquireLease(c) PROVE LegacyRetained
    BY <1>2 DEF AcquireLease, Report, ParentGone
  <1>3. ASSUME NEW c \in Cores, LeaseBusy(c) PROVE LegacyRetained
    BY <1>3 DEF LeaseBusy, Ended
  <1>4. ASSUME NEW c \in Cores, PublishStarting(c) PROVE LegacyRetained
    <2>1. record' \in [inst : Cores, phase : Phases, endpoint : BOOLEAN]
      BY <1>4 DEF PublishStarting, Publish, Phases
    <2> QED BY <2>1, RecordIsCurrent
  <1>5. ASSUME NEW c \in Cores, PublishFails(c) PROVE LegacyRetained
    BY <1>5 DEF PublishFails, Ended
  <1>6. ASSUME NEW c \in Cores, CreateCapability(c) PROVE LegacyRetained
    BY <1>6 DEF CreateCapability
  <1>7. ASSUME NEW c \in Cores, BindListener(c) PROVE LegacyRetained
    <2>1. record' \in [inst : Cores, phase : Phases, endpoint : BOOLEAN]
      BY <1>7 DEF BindListener, Publish, Phases
    <2> QED BY <2>1, RecordIsCurrent
  <1>8. ASSUME NEW c \in Cores, FailStartup(c) PROVE LegacyRetained
    BY <1>8 DEF FailStartup
  <1>9. ASSUME NEW c \in Cores, ReportPrepared(c) PROVE LegacyRetained
    BY <1>9 DEF ReportPrepared, Report, ParentGone
  <1>10. ASSUME NEW c \in Cores, MarkReady(c) PROVE LegacyRetained
    BY <1>10 DEF MarkReady
  <1>11. ASSUME NEW c \in Cores, PublishReady(c) PROVE LegacyRetained
    <2>1. record' \in [inst : Cores, phase : Phases, endpoint : BOOLEAN]
      BY <1>11 DEF PublishReady, Publish, Phases
    <2> QED BY <2>1, RecordIsCurrent
  <1>12. ASSUME NEW c \in Cores, ReportReady(c) PROVE LegacyRetained
    BY <1>12 DEF ReportReady, Report, ParentGone
  <1>13. ASSUME NEW c \in Cores, PublishStopping(c) PROVE LegacyRetained
    BY <1>13 DEF PublishStopping
  <1>14. ASSUME NEW c \in Cores, RemoveCapability(c) PROVE LegacyRetained
    BY <1>14 DEF RemoveCapability
  <1>15. ASSUME NEW c \in Cores, CleanupRecord(c) PROVE LegacyRetained
    BY <1>15 DEF CleanupRecord
  <1>16. ASSUME NEW c \in Cores, DropLease(c) PROVE LegacyRetained
    BY <1>16 DEF DropLease
  <1>17. ASSUME NEW c \in Cores, Exit(c) PROVE LegacyRetained
    BY <1>17 DEF Exit, Ended
  <1>18. ASSUME NEW c \in Cores, BeginDrain(c) PROVE LegacyRetained
    BY <1>18 DEF BeginDrain, ParentGone
  <1>19. ASSUME NEW c \in Cores, Crash(c) PROVE LegacyRetained
    BY <1>19 DEF Crash, Ended, Live
  <1>20. ASSUME NEW l \in Launchers, Spawn(l) PROVE LegacyRetained
    BY <1>20 DEF Spawn, Refused, Live
  <1>21. ASSUME NEW s \in Stoppers, NoopCleanup(s) PROVE LegacyRetained
    BY <1>21 DEF NoopCleanup
  <1>22. ASSUME NEW s \in Stoppers, FinishStop(s) PROVE LegacyRetained
    BY <1>22 DEF FinishStop, Live
  <1>23. ASSUME NEW l \in Launchers, LaunchStep(l) \/ LauncherDies(l), ~Spawn(l)
        PROVE  LegacyRetained
    <2>1. UNCHANGED record
      BY <1>23 DEF LaunchStep, Reserve, ReadClaim, ReadPrepared, ReadReady, LookRecord,
             LookHeld, VerifyChild, Commit, HandOff, LaunchFails, ReserveFails,
             CleanupLaunch, LauncherDies, ReadLine
    <2> QED BY <2>1
  <1>24. ASSUME NEW s \in Stoppers, StartStop(s) \/ StopStep(s), ~NoopCleanup(s), ~FinishStop(s)
        PROVE  LegacyRetained
    <2>1. UNCHANGED record
      BY <1>24 DEF StopStep, StartStop, LookRecord, LookHeld, StopNothing, StopVerified,
             AcceptStop, PollLease, PollProcess, StopFails
    <2> QED BY <2>1
  <1>25. CASE UNCHANGED vars
    BY <1>25 DEF vars
  <1> QED
    BY <1>1, <1>2, <1>3, <1>4, <1>5, <1>6, <1>7, <1>8, <1>9, <1>10, <1>11, <1>12, <1>13,
       <1>14, <1>15, <1>16, <1>17, <1>18, <1>19, <1>20, <1>21, <1>22, <1>23, <1>24, <1>25
       DEF Next, CoreStep, Killed, LaunchStep, StopStep

\* LaunchSound: a launch that reports success has its own child for the owner of
\* the data directory, ready; a legacy record whose process may live is replaced
\* by a Core only.
THEOREM LaunchIsSound == Spec => LaunchSound
  <1>1. OwnershipInv /\ CommandInv /\ [Next]_vars => [LaunchConfirmed /\ LegacyRetained]_vars
    BY LaunchConfirmedStep, LegacyStep DEF OwnershipInv, CommandInv
  <1> QED BY <1>1, CommandInit, CommandStep, PTL DEF Spec, LaunchSound

(***************************************************************************)
(* An operation through a child process.                                   *)
(***************************************************************************)
Stages == {"none", "initialize", "legacy", "initialized", "list", "call", "execute",
           "shutdown", "cancel"}
Waiting == pc \in {"write", "read", "answer"}
Messages == [id : Nat, stage : Stages \cup {"answer"}, large : BOOLEAN]
OutLines == [kind : {"result", "error", "malformed", "note", "junk", "ask"}, id : Nat]

\* Types, and the steps each kind of operation can be at.
ChildShape ==
  /\ ChildTypeOK
  /\ pc \in {"begin", "spawn", "send", "write", "read", "answer", "terminate", "drop",
             "poll", "cleanup", "join", "returned"}
  /\ stage \in Stages /\ inbox \in Seq(Messages) /\ outbox \in Seq(OutLines)
  /\ helper \in BOOLEAN /\ unkilled \in BOOLEAN
  /\ read \subseteq [id : Nat, stage : Stages \cup {"answer"}]
  /\ op \in {"command", "http"} =>
       pc \in {"begin", "spawn", "poll", "cleanup", "join", "returned"} /\ source = "none"
  /\ op \notin {"command", "http"} => pc \notin {"poll", "cleanup", "join"} /\ ~helper
  /\ stage = "list" => op \in {"discover", "checked"}
  /\ stage = "call" => op \in {"node", "agent", "direct", "checked"}
  /\ stage \in {"initialize", "legacy", "initialized"} => op \in ServerOps
  /\ stage \in {"execute", "shutdown", "cancel"} => Plugin
  /\ pc \in {"send", "write", "read", "answer"} => stage # "none"
  /\ Notice => pc \notin {"read", "answer"}

\* How many requests have been sent when the operation is at one.
Counted ==
  LET sent == IF pc = "send" THEN 0 ELSE 1 IN
  /\ pc \in {"begin", "spawn"} => stage = "none" /\ pages = 0
  /\ stage = "none" => id = 0
  /\ stage \in {"initialize", "execute"} => id <= sent
  /\ stage \in {"legacy", "shutdown"} => id <= 1 + sent
  /\ stage \in {"initialized", "cancel"} => id <= 2
  /\ stage \in {"initialize", "legacy", "initialized", "execute", "shutdown", "cancel"} =>
       pages = 0
  /\ stage = "list" => id <= 2 + pages + sent
  /\ stage = "list" /\ (pc = "send" \/ Waiting) => pages < MaxPages
  /\ stage = "call" => id <= 2 + pages + sent

\* A request with the id that waits is the request that waits, whether the
\* process has read it yet or not.
Current ==
  /\ \A k \in 1 .. Len(inbox) :
       /\ inbox[k].id # 0 => inbox[k].stage \in Stages /\ inbox[k].id <= id
       /\ inbox[k].id = id /\ id # 0 /\ Waiting /\ ~Notice => inbox[k].stage = stage
  /\ \A r \in read : r.id = id /\ Waiting /\ ~Notice => r.stage = stage

\* The responses have ids of requests that were read.
Answerable ==
  \A k \in 1 .. Len(outbox) :
    outbox[k].kind \in {"result", "error"} => \E r \in read : r.id = outbox[k].id

Expected == IF Plugin THEN "execute" ELSE IF op = "discover" THEN "list"
            ELSE IF Server THEN "call" ELSE "none"

\* A result that is kept is the one asked for.
Kept == outcome = "ok" => source = Expected

\* What is left of the process at the steps where it may be gone.
Reaped ==
  /\ pc \in {"begin", "spawn"} => child = "none" /\ ~helper
  /\ pc = "join" => child # "alive" /\ ~helper
  /\ NoChildLeft

ChildInv == ChildShape /\ Counted /\ Current /\ Answerable /\ Kept /\ Reaped

LEMMA SeqTail ==
  ASSUME NEW S, NEW s \in Seq(S), s # <<>>
  PROVE  /\ Head(s) = s[1] /\ Head(s) \in S /\ 1 \in 1 .. Len(s)
         /\ Tail(s) \in Seq(S)
         /\ \A k \in 1 .. Len(Tail(s)) : k + 1 \in 1 .. Len(s) /\ Tail(s)[k] = s[k + 1]
  BY HeadTailProperties, Len(s) \in Nat, Len(s) # 0, ElementOfSeq

LEMMA SeqAppend ==
  ASSUME NEW S, NEW s \in Seq(S), NEW x \in S
  PROVE  /\ Append(s, x) \in Seq(S)
         /\ \A k \in 1 .. Len(Append(s, x)) :
              \/ k \in 1 .. Len(s) /\ Append(s, x)[k] = s[k]
              \/ Append(s, x)[k] = x
  BY AppendProperties

\* The requests of each operation.
LEMMA CallsOf ==
  ASSUME op \in AllOps
  PROVE  /\ op \in {"node", "agent", "direct"} => This.calls = <<"call">>
         /\ op = "discover" => This.calls = <<"list">> /\ Len(This.calls) = 1
         /\ op = "checked" => This.calls = <<"list", "call">> /\ Len(This.calls) = 2
                             /\ Len(This.calls) # 1
         /\ op = "plugin" => This.calls = <<"execute", "shutdown">>
  BY DEF AllOps, ServerOps, This, ExecutePluginNode, ExecuteMcp, ExecuteAgentMcpTool, CallMcp,
         ListMcpTools, CallValidatedTool, Unspoken

LEMMA ShapeStep ==
  ASSUME ChildShape, Counted, Current, [ChildNext]_childVars PROVE ChildShape'
  <1> USE OperationAssumption
        DEF ChildShape, ChildTypeOK, Counted, Current, Stages, Messages, OutLines,
            AllOps, ServerOps, clientVars, processVars, Plugin, Server, Notice, Waiting
  <1>a. op \in AllOps
    BY DEF ChildShape, ChildTypeOK
  <1> USE <1>a, CallsOf
  <1>1. CASE Prepare
    BY <1>1 DEF Prepare, Return
  <1>2. CASE SpawnChild
    BY <1>2 DEF SpawnChild, Return, FirstStage
  <1>3. CASE Send
    <2>1. CASE child # "alive"
      BY <1>3, <2>1 DEF Send, GiveUp, Quits
    <2>2. CASE child = "alive"
      <3>1. PICK large \in BOOLEAN :
               inbox' = Append(inbox, [id |-> IF Notice THEN 0 ELSE id + 1,
                                       stage |-> stage, large |-> large])
        BY <1>3, <2>2 DEF Send
      <3>2. CASE Notice
        BY <1>3, <2>2, <3>1, <3>2 DEF Send
      <3>3. CASE ~Notice
        BY SMTT(30), <1>3, <2>2, <3>1, <3>3 DEF Send
      <3> QED BY <3>2, <3>3
    <2> QED BY <2>1, <2>2
  <1>4. CASE Written
    BY <1>4 DEF Written, GiveUp, Quits, NextPc, NextStage
  <1>5. CASE Receive
    <2> DEFINE l == Head(outbox)
    <2>1. /\ pc = "read" /\ l \in OutLines /\ outbox' = Tail(outbox) /\ outbox' \in Seq(OutLines)
          /\ UNCHANGED <<op, id, child, helper, read, lines, stopped, cancelled, unkilled>>
      BY <1>5, SeqTail DEF Receive
    <2> HIDE DEF l
    <2>2. CASE /\ l.kind = "note" /\ NoteTaken
               /\ notes' = IF Plugin /\ notes = MaxNotes THEN notes ELSE notes + 1
               /\ UNCHANGED <<pc, stage, outcome, pages, source, inbox>>
      BY SMTT(30), <2>1, <2>2 DEF NoteTaken
    <2>3. CASE Broken /\ UNCHANGED <<notes, inbox>>
      BY <2>1, <2>3 DEF Broken, GiveUp, Quits
    <2>4. CASE /\ inbox' = Append(inbox, [id |-> 0, stage |-> "answer", large |-> FALSE])
               /\ pc' = "answer" /\ UNCHANGED <<stage, outcome, pages, source, notes>>
      BY <2>1, <2>4
    <2>5. CASE Matches(l) /\ Settle(l) /\ UNCHANGED <<notes, inbox>>
      <3>1. CASE SettleInitialize(l)
        BY <2>1, <2>5, <3>1 DEF SettleInitialize, Fail
      <3>2. CASE SettleList(l)
        <4>1. pages' \in 0 .. MaxPages
          BY <2>1, <2>5, <3>2 DEF SettleList
        <4>2. op = "discover" \/ (op = "checked" /\ This.calls[2] = "call")
          BY <3>2 DEF SettleList
        <4>3. op = "discover" => Len(This.calls) = 1
          OBVIOUS
        <4>4. stage' = "list" \/ (op = "checked" /\ stage' = "call")
          BY <3>2, <4>2, <4>3 DEF SettleList
        <4>5. pc' \in {"send", "terminate"} /\ outcome' \in {outcome, "ok", "failed"}
          BY <3>2 DEF SettleList, Fail
        <4>6. op' = op /\ notes' = notes /\ inbox' = inbox /\ source' \in {source, Asked(l)}
          BY <2>1, <2>5, <3>2 DEF SettleList
        <4> QED BY SMTT(30), <2>1, <4>1, <4>2, <4>4, <4>5, <4>6
      <3>3. CASE SettleCall(l)
        BY <2>1, <2>5, <3>3 DEF SettleCall
      <3>4. CASE SettleExecute(l)
        BY <2>1, <2>5, <3>4 DEF SettleExecute
      <3>5. CASE SettleError(l)
        BY <2>1, <2>5, <3>5 DEF SettleError
      <3>6. CASE SettleShutdown(l)
        BY <2>1, <2>5, <3>6 DEF SettleShutdown
      <3> QED BY <2>5, <3>1, <3>2, <3>3, <3>4, <3>5, <3>6 DEF Settle
    <2> QED BY <1>5, <2>2, <2>3, <2>4, <2>5 DEF Receive, l
  <1>6. CASE EndOfOutput
    BY <1>6 DEF EndOfOutput, Broken, GiveUp, Quits
  <1>7. CASE Answered
    BY <1>7 DEF Answered, GiveUp, Quits
  <1>8. CASE Timeout
    BY <1>8 DEF Timeout, Broken, GiveUp, Quits
  <1>9. CASE CancelOperation
    BY <1>9 DEF CancelOperation
  <1>10. CASE Terminate
    BY <1>10 DEF Terminate
  <1>11. CASE DropClient
    BY <1>11 DEF DropClient, Return
  <1>12. CASE BadInput
    BY <1>12 DEF BadInput, Return
  <1>13. CASE Poll
    BY <1>13 DEF Poll
  <1>14. CASE KillGroup
    BY <1>14 DEF KillGroup
  <1>15. CASE Join
    BY <1>15 DEF Join
  <1>16. CASE PollHttp
    BY <1>16 DEF PollHttp, Return
  <1>17. CASE ThreadEnds
    BY <1>17 DEF ThreadEnds
  <1>18. CASE RequestCancel
    BY <1>18 DEF RequestCancel
  <1>19. CASE ChildReads
    <2> DEFINE m == Head(inbox)
    <2>a. inbox \in Seq(Messages) /\ inbox # <<>> /\ inbox' = Tail(inbox)
      BY <1>19 DEF ChildReads
    <2>1. /\ m = inbox[1] /\ m \in Messages /\ 1 \in 1 .. Len(inbox)
          /\ inbox' \in Seq(Messages)
          /\ \A k \in 1 .. Len(inbox') : k + 1 \in 1 .. Len(inbox) /\ inbox'[k] = inbox[k + 1]
      BY ONLY <2>a, SeqTail
    <2> HIDE DEF m
    <2>2. CASE m.id = 0
      BY <1>19, <2>1, <2>2 DEF ChildReads, m
    <2>3. CASE m.id # 0
      <3>1. read' = read \cup {[id |-> m.id, stage |-> m.stage]}
        BY <1>19, <2>3 DEF ChildReads, m
      <3> QED BY SMTT(30), <1>19, <2>1, <2>3, <3>1 DEF ChildReads
    <2> QED BY <2>2, <2>3
  <1>20. CASE ChildWrites
    BY SMTT(30), <1>20 DEF ChildWrites, Lines
  <1>21. CASE ChildForks
    BY <1>21 DEF ChildForks
  <1>22. CASE ChildExits
    BY <1>22 DEF ChildExits
  <1>23. CASE UNCHANGED childVars
    BY <1>23 DEF childVars
  <1> QED
    BY <1>1, <1>2, <1>3, <1>4, <1>5, <1>6, <1>7, <1>8, <1>9, <1>10, <1>11, <1>12, <1>13,
       <1>14, <1>15, <1>16, <1>17, <1>18, <1>19, <1>20, <1>21, <1>22, <1>23
       DEF ChildNext, Client

LEMMA CountedStep ==
  ASSUME ChildShape, Counted, [ChildNext]_childVars PROVE Counted'
  <1> USE OperationAssumption
        DEF ChildShape, ChildTypeOK, Counted, AllOps, ServerOps, Stages, clientVars,
            processVars, Plugin, Server, Notice, Waiting
  <1>a. op \in AllOps
    BY DEF ChildShape, ChildTypeOK
  <1> USE <1>a, CallsOf
  <1>1. CASE Prepare
    BY <1>1 DEF Prepare, Return
  <1>2. CASE SpawnChild
    BY <1>2 DEF SpawnChild, Return, FirstStage
  <1>3. CASE Send
    <2>1. CASE child # "alive"
      BY <1>3, <2>1 DEF Send, GiveUp, Quits
    <2>2. CASE child = "alive" /\ Notice
      BY <1>3, <2>2 DEF Send
    <2>3. CASE child = "alive" /\ ~Notice
      BY <1>3, <2>3 DEF Send
    <2> QED BY <2>1, <2>2, <2>3
  <1>4. CASE Written
    BY SMTT(30), <1>4 DEF Written, GiveUp, Quits, NextPc, NextStage
  <1>5. CASE Receive
    <2> DEFINE l == Head(outbox)
    <2>1. /\ pc = "read" /\ l \in OutLines /\ outbox' = Tail(outbox) /\ outbox' \in Seq(OutLines)
          /\ UNCHANGED <<op, id, child, helper, read, lines, stopped, cancelled, unkilled>>
      BY <1>5, SeqTail DEF Receive
    <2> HIDE DEF l
    <2>2. CASE /\ l.kind = "note" /\ NoteTaken
               /\ notes' = IF Plugin /\ notes = MaxNotes THEN notes ELSE notes + 1
               /\ UNCHANGED <<pc, stage, outcome, pages, source, inbox>>
      BY <2>1, <2>2 DEF NoteTaken
    <2>3. CASE Broken /\ UNCHANGED <<notes, inbox>>
      BY <2>1, <2>3 DEF Broken, GiveUp, Quits
    <2>4. CASE /\ inbox' = Append(inbox, [id |-> 0, stage |-> "answer", large |-> FALSE])
               /\ pc' = "answer" /\ UNCHANGED <<stage, outcome, pages, source, notes>>
      BY <2>1, <2>4
    <2>5. CASE Matches(l) /\ Settle(l) /\ UNCHANGED <<notes, inbox>>
      <3>1. CASE SettleInitialize(l)
        BY <2>1, <2>5, <3>1 DEF SettleInitialize, Fail
      <3>2. CASE SettleList(l)
        BY <2>1, <2>5, <3>2 DEF SettleList, Fail
      <3>3. CASE SettleCall(l)
        BY <2>1, <2>5, <3>3 DEF SettleCall
      <3>4. CASE SettleExecute(l)
        BY <2>1, <2>5, <3>4 DEF SettleExecute
      <3>5. CASE SettleError(l)
        BY <2>1, <2>5, <3>5 DEF SettleError
      <3>6. CASE SettleShutdown(l)
        BY <2>1, <2>5, <3>6 DEF SettleShutdown
      <3> QED BY <2>5, <3>1, <3>2, <3>3, <3>4, <3>5, <3>6 DEF Settle
    <2> QED BY <1>5, <2>2, <2>3, <2>4, <2>5 DEF Receive, l
  <1>6. CASE EndOfOutput
    BY <1>6 DEF EndOfOutput, Broken, GiveUp, Quits
  <1>7. CASE Answered
    BY <1>7 DEF Answered, GiveUp, Quits
  <1>8. CASE Timeout
    BY <1>8 DEF Timeout, Broken, GiveUp, Quits
  <1>9. CASE CancelOperation
    BY <1>9 DEF CancelOperation
  <1>10. CASE Terminate
    BY <1>10 DEF Terminate
  <1>11. CASE DropClient
    BY <1>11 DEF DropClient, Return
  <1>12. CASE BadInput
    BY <1>12 DEF BadInput, Return
  <1>13. CASE Poll
    BY <1>13 DEF Poll
  <1>14. CASE KillGroup
    BY <1>14 DEF KillGroup
  <1>15. CASE Join
    BY <1>15 DEF Join
  <1>16. CASE PollHttp
    BY <1>16 DEF PollHttp, Return
  <1>17. CASE ThreadEnds
    BY <1>17 DEF ThreadEnds
  <1>18. CASE RequestCancel
    BY <1>18 DEF RequestCancel
  <1>19. CASE ChildReads
    BY <1>19 DEF ChildReads
  <1>20. CASE ChildWrites
    BY <1>20 DEF ChildWrites, Lines
  <1>21. CASE ChildForks
    BY <1>21 DEF ChildForks
  <1>22. CASE ChildExits
    BY <1>22 DEF ChildExits
  <1>23. CASE UNCHANGED childVars
    BY <1>23 DEF childVars
  <1> QED
    BY <1>1, <1>2, <1>3, <1>4, <1>5, <1>6, <1>7, <1>8, <1>9, <1>10, <1>11, <1>12, <1>13,
       <1>14, <1>15, <1>16, <1>17, <1>18, <1>19, <1>20, <1>21, <1>22, <1>23
       DEF ChildNext, Client

LEMMA CurrentStep ==
  ASSUME ChildShape, Current, [ChildNext]_childVars PROVE Current'
  <1> USE OperationAssumption
        DEF ChildShape, ChildTypeOK, Current, Stages, Messages, clientVars, processVars,
            Plugin, Server, Notice, Waiting
  <1>b. stage = "initialized" => NextPc = "send"
    BY DEF NextPc
  <1>1. CASE Prepare
    BY <1>1 DEF Prepare, Return
  <1>2. CASE SpawnChild
    BY <1>2 DEF SpawnChild, Return, FirstStage
  <1>3. CASE Send
    <2>1. CASE child # "alive"
      BY <1>3, <2>1 DEF Send, GiveUp, Quits
    <2>2. CASE child = "alive"
      <3> DEFINE n == IF Notice THEN 0 ELSE id + 1
      <3>1. PICK large \in BOOLEAN :
               inbox' = Append(inbox, [id |-> n, stage |-> stage, large |-> large])
        BY <1>3, <2>2 DEF Send
      <3>2. [id |-> n, stage |-> stage, large |-> large] \in Messages
        BY <3>1
      <3>3. \A k \in 1 .. Len(inbox') :
               \/ k \in 1 .. Len(inbox) /\ inbox'[k] = inbox[k]
               \/ inbox'[k] = [id |-> n, stage |-> stage, large |-> large]
        BY SMTT(30), <3>1, <3>2, SeqAppend
      <3>4. id' = (IF Notice THEN id ELSE id + 1) /\ stage' = stage /\ read' = read
        BY <1>3, <2>2 DEF Send
      <3>5. \A k \in 1 .. Len(inbox) : inbox[k] \in Messages
        BY ElementOfSeq
      <3> HIDE DEF n
      <3>6. n = (IF Notice THEN 0 ELSE id + 1) /\ pc' = "write"
        BY <1>3, <2>2 DEF Send, n
      <3>7. ASSUME NEW k \in 1 .. Len(inbox')
            PROVE  /\ inbox'[k].id # 0 => inbox'[k].stage \in Stages /\ inbox'[k].id <= id'
                   /\ inbox'[k].id = id' /\ id' # 0 /\ Waiting' /\ ~Notice' =>
                        inbox'[k].stage = stage'
        <4>1. CASE k \in 1 .. Len(inbox) /\ inbox'[k] = inbox[k]
          <5>a. inbox[k] \in Messages /\ id \in Nat
            BY <3>5, <4>1
          <5>b. inbox[k].id # 0 => inbox[k].stage \in Stages /\ inbox[k].id <= id
            BY <4>1
          <5>1. /\ inbox[k].id \in Nat /\ id \in Nat
                /\ inbox[k].id # 0 => inbox[k].stage \in Stages /\ inbox[k].id <= id
            BY ONLY <5>a, <5>b
          <5>2. (Notice /\ Notice' /\ id' = id) \/ id' = id + 1
            BY <3>4
          <5> QED BY ONLY <4>1, <5>1, <5>2
        <4>2. CASE inbox'[k] = [id |-> n, stage |-> stage, large |-> large]
          BY <3>4, <3>6, <4>2
        <4> QED BY <3>3, <4>1, <4>2
      <3>8. ASSUME NEW r \in read', r.id = id', Waiting', ~Notice' PROVE r.stage = stage'
        BY <3>4, <3>8
      <3> QED BY <3>7, <3>8
    <2> QED BY <2>1, <2>2
  <1>4. CASE Written
    BY <1>4, <1>b DEF Written, GiveUp, Quits, NextPc, NextStage
  <1>5. CASE Receive
    <2>1. pc = "read" /\ id' = id /\ read' = read /\ (Waiting' => stage' = stage)
      BY <1>5 DEF Receive, Broken, GiveUp, Settle, SettleInitialize, SettleList, SettleCall,
               SettleExecute, SettleError, SettleShutdown, Fail
    <2>2. CASE inbox' = inbox
      BY <2>1, <2>2
    <2>3. CASE inbox' = Append(inbox, [id |-> 0, stage |-> "answer", large |-> FALSE])
      <3>1. \A k \in 1 .. Len(inbox') :
               (k \in 1 .. Len(inbox) /\ inbox'[k] = inbox[k]) \/ inbox'[k].id = 0
        BY <2>3, SeqAppend
      <3> QED BY <2>1, <3>1
    <2> QED BY <1>5, <2>2, <2>3 DEF Receive
  <1>6. CASE EndOfOutput
    BY <1>6 DEF EndOfOutput, Broken, GiveUp, Quits
  <1>7. CASE Answered
    BY <1>7 DEF Answered, GiveUp, Quits
  <1>8. CASE Timeout
    BY <1>8 DEF Timeout, Broken, GiveUp, Quits
  <1>9. CASE CancelOperation
    BY <1>9 DEF CancelOperation
  <1>10. CASE Terminate
    BY <1>10 DEF Terminate
  <1>11. CASE DropClient
    BY <1>11 DEF DropClient, Return
  <1>12. CASE BadInput
    BY <1>12 DEF BadInput, Return
  <1>13. CASE Poll
    BY <1>13 DEF Poll
  <1>14. CASE KillGroup
    BY <1>14 DEF KillGroup
  <1>15. CASE Join
    BY <1>15 DEF Join
  <1>16. CASE PollHttp
    BY <1>16 DEF PollHttp, Return
  <1>17. CASE ThreadEnds
    BY <1>17 DEF ThreadEnds
  <1>18. CASE RequestCancel
    BY <1>18 DEF RequestCancel
  <1>19. CASE ChildReads
    <2> DEFINE m == Head(inbox)
    <2>a. inbox \in Seq(Messages) /\ inbox # <<>> /\ inbox' = Tail(inbox)
      BY <1>19 DEF ChildReads
    <2>1. /\ m = inbox[1] /\ m \in Messages /\ 1 \in 1 .. Len(inbox)
          /\ inbox' \in Seq(Messages)
          /\ \A k \in 1 .. Len(inbox') : k + 1 \in 1 .. Len(inbox) /\ inbox'[k] = inbox[k + 1]
      BY ONLY <2>a, SeqTail
    <2> HIDE DEF m
    <2>2. CASE m.id = 0
      BY <1>19, <2>1, <2>2 DEF ChildReads, m
    <2>3. CASE m.id # 0
      <3>1. read' = read \cup {[id |-> m.id, stage |-> m.stage]}
        BY <1>19, <2>3 DEF ChildReads, m
      <3> QED BY SMTT(30), <1>19, <2>1, <2>3, <3>1 DEF ChildReads
    <2> QED BY <2>2, <2>3
  <1>20. CASE ChildWrites
    BY <1>20 DEF ChildWrites, Lines
  <1>21. CASE ChildForks
    BY <1>21 DEF ChildForks
  <1>22. CASE ChildExits
    BY <1>22 DEF ChildExits
  <1>23. CASE UNCHANGED childVars
    BY <1>23 DEF childVars
  <1> QED
    BY <1>1, <1>2, <1>3, <1>4, <1>5, <1>6, <1>7, <1>8, <1>9, <1>10, <1>11, <1>12, <1>13,
       <1>14, <1>15, <1>16, <1>17, <1>18, <1>19, <1>20, <1>21, <1>22, <1>23
       DEF ChildNext, Client

LEMMA AnswerableStep ==
  ASSUME ChildShape, Answerable, [ChildNext]_childVars PROVE Answerable'
  <1> USE OperationAssumption
        DEF ChildShape, Answerable, OutLines, clientVars, processVars, Plugin, Server,
            Notice, Waiting, ChildTypeOK
  <1>1. CASE Receive
    BY SMTT(30), <1>1, SeqTail DEF Receive
  <1>2. CASE ChildReads
    BY <1>2 DEF ChildReads
  <1>3. CASE ChildWrites
    <2>1. PICK x \in Lines : outbox' = Append(outbox, x)
      BY <1>3 DEF ChildWrites
    <2>2. x \in OutLines /\ (x.kind \in {"result", "error"} => \E r \in read : r.id = x.id)
      BY <2>1 DEF Lines
    <2>3. outbox \in Seq(OutLines) /\ read' = read
      BY <1>3 DEF ChildWrites
    <2>4. \A k \in 1 .. Len(outbox') :
             (k \in 1 .. Len(outbox) /\ outbox'[k] = outbox[k]) \/ outbox'[k] = x
      BY ONLY <2>1, <2>2, <2>3, SeqAppend
    <2> QED BY ZenonT(40), <2>2, <2>3, <2>4
  <1>4. CASE Prepare \/ SpawnChild \/ Send \/ Written \/ EndOfOutput \/ Answered \/
             Timeout \/ CancelOperation \/ Terminate \/ DropClient \/ BadInput \/ Poll
             \/ KillGroup \/ Join \/ PollHttp \/ ThreadEnds \/ RequestCancel \/
             ChildForks \/ ChildExits
    <2>1. UNCHANGED <<outbox, read>>
      BY <1>4 DEF Prepare, SpawnChild, Send, Written, EndOfOutput, Answered, Timeout,
             CancelOperation, Terminate, DropClient, BadInput, Poll, KillGroup, Join,
             PollHttp, ThreadEnds, RequestCancel, ChildForks, ChildExits, Broken,
             FirstStage, GiveUp, NextPc, NextStage, Quits, Return
    <2> QED BY <2>1
  <1>5. CASE UNCHANGED childVars
    BY <1>5 DEF childVars
  <1> QED
    BY <1>1, <1>2, <1>3, <1>4, <1>5
       DEF ChildNext, Client

LEMMA KeptStep ==
  ASSUME ChildShape, Current, Answerable, Kept, [ChildNext]_childVars PROVE Kept'
  <1> USE OperationAssumption
        DEF ChildShape, ChildTypeOK, Current, Kept, Expected, AllOps, ServerOps,
            clientVars, processVars, Plugin, Server, Notice, Waiting
  <1>a. op \in AllOps
    BY DEF ChildShape, ChildTypeOK
  <1> USE <1>a, CallsOf
  <1>1. CASE Prepare
    BY <1>1 DEF Prepare, Return
  <1>2. CASE SpawnChild
    BY <1>2 DEF SpawnChild, Return, FirstStage
  <1>3. CASE Send
    BY <1>3 DEF Send, GiveUp, Quits
  <1>4. CASE Written
    BY <1>4 DEF Written, GiveUp, Quits, NextPc, NextStage
  <1>5. CASE Receive
    <2> DEFINE l == Head(outbox)
    <2>1. /\ pc = "read" /\ ~Notice /\ op' = op /\ l = outbox[1] /\ 1 \in 1 .. Len(outbox)
          /\ l \in OutLines
      BY <1>5, SeqTail DEF Receive
    <2>2. ASSUME Matches(l) PROVE Asked(l) = stage
      <3>1. \E r \in read : r.id = l.id
        BY <2>1, <2>2 DEF Matches, Answerable
      <3>2. (CHOOSE r \in read : r.id = l.id) \in {r \in read : r.id = l.id}
        BY <3>1
      <3> QED BY <2>1, <2>2, <3>2 DEF Matches, Asked
    <2> HIDE DEF l
    <2>3. CASE ~(Matches(l) /\ Settle(l))
      BY <1>5, <2>1, <2>3 DEF Receive, Broken, GiveUp, Quits, l
    <2>4. CASE Matches(l) /\ Settle(l)
      <3>1. CASE SettleInitialize(l)
        BY <2>1, <2>2, <2>4, <3>1 DEF SettleInitialize, Fail
      <3>2. CASE SettleList(l)
        <4>1. op \in {"discover", "checked"} /\ (op = "checked" => Len(This.calls) # 1)
          BY <3>2 DEF SettleList
        <4>2. \/ outcome' = outcome /\ source' = source
              \/ Len(This.calls) = 1 /\ source' = Asked(l)
              \/ outcome' = "failed"
          BY <3>2 DEF SettleList, Fail
        <4>3. stage = "list" /\ (Len(This.calls) = 1 => op = "discover")
          BY <3>2, <4>1 DEF SettleList
        <4> QED BY <2>1, <2>2, <2>4, <4>1, <4>2, <4>3
      <3>3. CASE SettleCall(l)
        BY <2>1, <2>2, <2>4, <3>3 DEF SettleCall
      <3>4. CASE SettleExecute(l)
        BY <2>1, <2>2, <2>4, <3>4 DEF SettleExecute
      <3>5. CASE SettleError(l)
        BY <2>1, <2>2, <2>4, <3>5 DEF SettleError
      <3>6. CASE SettleShutdown(l)
        BY <2>1, <2>2, <2>4, <3>6 DEF SettleShutdown
      <3> QED BY <2>4, <3>1, <3>2, <3>3, <3>4, <3>5, <3>6 DEF Settle
    <2> QED BY <2>3, <2>4
  <1>6. CASE EndOfOutput
    BY <1>6 DEF EndOfOutput, Broken, GiveUp, Quits
  <1>7. CASE Answered
    BY <1>7 DEF Answered, GiveUp, Quits
  <1>8. CASE Timeout
    BY <1>8 DEF Timeout, Broken, GiveUp, Quits
  <1>9. CASE CancelOperation
    BY <1>9 DEF CancelOperation
  <1>10. CASE Terminate
    BY <1>10 DEF Terminate
  <1>11. CASE DropClient
    BY <1>11 DEF DropClient, Return
  <1>12. CASE BadInput
    BY <1>12 DEF BadInput, Return
  <1>13. CASE Poll
    BY <1>13 DEF Poll
  <1>14. CASE KillGroup
    BY <1>14 DEF KillGroup
  <1>15. CASE Join
    BY <1>15 DEF Join
  <1>16. CASE PollHttp
    BY <1>16 DEF PollHttp, Return
  <1>17. CASE ThreadEnds
    BY <1>17 DEF ThreadEnds
  <1>18. CASE RequestCancel
    BY <1>18 DEF RequestCancel
  <1>19. CASE ChildReads
    BY <1>19 DEF ChildReads
  <1>20. CASE ChildWrites
    BY <1>20 DEF ChildWrites, Lines
  <1>21. CASE ChildForks
    BY <1>21 DEF ChildForks
  <1>22. CASE ChildExits
    BY <1>22 DEF ChildExits
  <1>23. CASE UNCHANGED childVars
    BY <1>23 DEF childVars
  <1> QED
    BY <1>1, <1>2, <1>3, <1>4, <1>5, <1>6, <1>7, <1>8, <1>9, <1>10, <1>11, <1>12, <1>13,
       <1>14, <1>15, <1>16, <1>17, <1>18, <1>19, <1>20, <1>21, <1>22, <1>23
       DEF ChildNext, Client

LEMMA ReapedStep ==
  ASSUME ChildShape, Reaped, [ChildNext]_childVars PROVE Reaped'
  <1> USE OperationAssumption
        DEF ChildShape, ChildTypeOK, Reaped, NoChildLeft, clientVars, processVars,
            Plugin, Server, Notice, Waiting
  <1>1. CASE Prepare
    BY <1>1 DEF Prepare, Return
  <1>2. CASE SpawnChild
    BY <1>2 DEF SpawnChild, Return, FirstStage
  <1>3. CASE Send
    BY <1>3 DEF Send, GiveUp, Quits
  <1>4. CASE Written
    BY <1>4 DEF Written, GiveUp, Quits, NextPc, NextStage
  <1>5. CASE Receive
    BY <1>5 DEF Receive, Broken, GiveUp, Quits, NoteTaken, Matches, Settle, SettleInitialize,
           SettleList, SettleCall, SettleExecute, SettleError, SettleShutdown, Fail
  <1>6. CASE EndOfOutput
    BY <1>6 DEF EndOfOutput, Broken, GiveUp, Quits
  <1>7. CASE Answered
    BY <1>7 DEF Answered, GiveUp, Quits
  <1>8. CASE Timeout
    BY <1>8 DEF Timeout, Broken, GiveUp, Quits
  <1>9. CASE CancelOperation
    BY <1>9 DEF CancelOperation
  <1>10. CASE Terminate
    BY <1>10 DEF Terminate
  <1>11. CASE DropClient
    BY <1>11 DEF DropClient, Return
  <1>12. CASE BadInput
    BY <1>12 DEF BadInput, Return
  <1>13. CASE Poll
    BY <1>13 DEF Poll
  <1>14. CASE KillGroup
    BY <1>14 DEF KillGroup
  <1>15. CASE Join
    BY <1>15 DEF Join
  <1>16. CASE PollHttp
    BY <1>16 DEF PollHttp, Return
  <1>17. CASE ThreadEnds
    BY <1>17 DEF ThreadEnds
  <1>18. CASE RequestCancel
    BY <1>18 DEF RequestCancel
  <1>19. CASE ChildReads
    BY <1>19 DEF ChildReads
  <1>20. CASE ChildWrites
    BY <1>20 DEF ChildWrites, Lines
  <1>21. CASE ChildForks
    BY <1>21 DEF ChildForks
  <1>22. CASE ChildExits
    BY <1>22 DEF ChildExits
  <1>23. CASE UNCHANGED childVars
    BY <1>23 DEF childVars
  <1> QED
    BY <1>1, <1>2, <1>3, <1>4, <1>5, <1>6, <1>7, <1>8, <1>9, <1>10, <1>11, <1>12, <1>13,
       <1>14, <1>15, <1>16, <1>17, <1>18, <1>19, <1>20, <1>21, <1>22, <1>23
       DEF ChildNext, Client

LEMMA ChildInvariant == ChildSpec => []ChildInv
  <1>1. ASSUME ChildInit PROVE ChildInv
    <2>1. inbox \in Seq(Messages) /\ outbox \in Seq(OutLines) /\ Len(inbox) = 0 /\ Len(outbox) = 0
      BY <1>1 DEF ChildInit
    <2>2. ChildTypeOK
      BY <1>1, OperationAssumption DEF ChildInit, ChildTypeOK
    <2>3. ChildShape
      BY <1>1, <2>1, <2>2, OperationAssumption
         DEF ChildInit, ChildShape, Stages, AllOps, Plugin, Notice
    <2>4. Counted /\ Current /\ Answerable
      BY <1>1, <2>1 DEF ChildInit, Counted, Current, Answerable
    <2>5. Kept /\ Reaped
      BY <1>1 DEF ChildInit, Kept, Reaped, NoChildLeft
    <2> QED BY <2>3, <2>4, <2>5 DEF ChildInv
  <1>2. ChildInv /\ [ChildNext]_childVars => ChildInv'
    BY ShapeStep, CountedStep, CurrentStep, AnswerableStep, KeptStep, ReapedStep DEF ChildInv
  <1> QED BY <1>1, <1>2, PTL DEF ChildSpec

\* AnswersItsRequest: whatever the process writes, late, twice or with ids of
\* earlier requests, the result an operation returns is the response to the
\* request that does its work.
THEOREM OperationAnswersItsRequest == ChildSpec => []AnswersItsRequest
  <1>1. ChildInv => AnswersItsRequest
    BY DEF ChildInv, ChildShape, Kept, Expected, AnswersItsRequest
  <1> QED BY <1>1, ChildInvariant, PTL

\* NoChildLeft: on every path but the one that returns before its kill, an
\* operation returns with its process and the helpers of its command gone.
THEOREM OperationLeavesNoChild == ChildSpec => []NoChildLeft
  <1>1. ChildInv => NoChildLeft
    BY DEF ChildInv, Reaped
  <1> QED BY <1>1, ChildInvariant, PTL

=============================================================================
