----------------------- MODULE EdgeSupervisor_proofs -----------------------
(***************************************************************************)
(* Proofs about EdgeSupervisor, for any points, groups, periods, intervals *)
(* and numbers of faults and crashes: a status file without faults means   *)
(* that no read had failed and that it does not say "degraded", and while  *)
(* no cycle raises the file is recent.                                     *)
(***************************************************************************)
EXTENDS EdgeSupervisor, TLAPS

File == [kind : {"none", "torn", "whole"}, degraded : BOOLEAN, faults : SUBSET ErrorKeys,
         age : 0 .. FileBound + 1, missed : BOOLEAN]

\* the conjuncts of TypeOK about the timers and the health of the device
TimersOK ==
    /\ groupDue \in [Group -> Nat] /\ \A g \in Group : groupDue[g] <= Period[g]
    /\ commandDue \in 0 .. CommandEvery
    /\ statusDue \in 0 .. StatusEvery

HealthOK ==
    /\ okAge \in [Point -> 0 .. Never]
    /\ stale \subseteq Point
    /\ healthy \in BOOLEAN
    /\ failed \in BOOLEAN

LEMMA Bounds ==
    /\ Never \in Nat /\ FileBound \in Nat
    /\ Interval \in Nat \ {0} /\ Slack \in Nat
    /\ CommandEvery \in Nat \ {0} /\ StatusEvery \in Nat \ {0}
    /\ FileBound = StatusEvery + Interval + Slack
BY SupervisorAssumption DEF SupervisorAssumption, Never, StaleAfter, FileBound

LEMMA NoFileType == NoFile \in File
BY Bounds DEF NoFile, File

LEMMA SnapshotType == TypeOK => Snapshot \in File
BY Bounds DEF TypeOK, Snapshot, File

LEMMA TornType ==
    ASSUME NEW f \in File PROVE [f EXCEPT !.kind = "torn"] \in File
BY DEF File

LEMMA AgedType ==
    ASSUME NEW f \in File PROVE [f EXCEPT !.age = More(@, FileBound + 1)] \in File
<1>1. More(f.age, FileBound + 1) \in 0 .. FileBound + 1
    BY Bounds DEF More, File
<1> QED BY <1>1 DEF File

-----------------------------------------------------------------------------
(* Types *)

LEMMA ReadsKeepTypes ==
    ASSUME TypeOK, ReadPoints
    PROVE  /\ groupDue' \in [Group -> Nat]
           /\ \A g \in Group : groupDue'[g] <= Period[g]
           /\ okAge' \in [Point -> 0 .. Never]
           /\ failed' \in BOOLEAN
<1> USE SupervisorAssumption DEF SupervisorAssumption
<1>1. groupDue' \in [Group -> Nat] /\ \A g \in Group : groupDue'[g] <= Period[g]
    BY DEF ReadPoints, TypeOK
<1>2. okAge' \in [Point -> 0 .. Never]
    BY Bounds DEF ReadPoints, TypeOK
<1>3. failed' \in BOOLEAN
    BY DEF ReadPoints, TypeOK
<1> QED BY <1>1, <1>2, <1>3

LEMMA RecordsKeepTypes ==
    ASSUME stale \subseteq Point, StoreRecords
    PROVE  stale' \subseteq Point
BY DEF StoreRecords, Missed, Polled

LEMMA ForgottenTypes ==
    ASSUME Forgotten
    PROVE  /\ TimersOK' /\ HealthOK'
           /\ stop' \in BOOLEAN /\ spent' = 0 /\ errors' = {} /\ degraded' \in BOOLEAN
<1> USE SupervisorAssumption DEF SupervisorAssumption
<1>1. TimersOK'
    BY DEF Forgotten, TimersOK
<1>2. HealthOK'
    <2>1. okAge' \in [Point -> 0 .. Never] /\ stale' \subseteq Point
        BY Bounds DEF Forgotten
    <2>2. healthy' \in BOOLEAN /\ failed' \in BOOLEAN
        BY Zenon DEF Forgotten
    <2> QED BY <2>1, <2>2 DEF HealthOK
<1> QED BY <1>1, <1>2 DEF Forgotten

LEMMA InitType == Init => TypeOK
<1> SUFFICES ASSUME Init PROVE TypeOK
    OBVIOUS
<1> USE SupervisorAssumption DEF SupervisorAssumption
<1>1. TimersOK
    BY DEF Init, TimersOK
<1>2. HealthOK
    <2>1. okAge \in [Point -> 0 .. Never] /\ stale \subseteq Point
        BY Bounds DEF Init
    <2>2. healthy \in BOOLEAN /\ failed \in BOOLEAN
        BY Zenon DEF Init
    <2> QED BY <2>1, <2>2 DEF HealthOK
<1>3. file \in File
    BY NoFileType DEF Init
<1>4. spent \in Nat /\ spent <= Interval + Slack
    BY Bounds DEF Init
<1>5. /\ pc \in {"poll", "commands", "status", "pause", "stopped", "down"}
      /\ errors \subseteq ErrorKeys /\ answers \subseteq Point
      /\ faults \in 0 .. Faults /\ crashes \in 0 .. Crashes
    BY DEF Init
<1>6. stop \in BOOLEAN /\ degraded \in BOOLEAN /\ excused \in BOOLEAN
    BY Zenon DEF Init
<1> QED BY <1>1, <1>2, <1>3, <1>4, <1>5, <1>6 DEF TypeOK, TimersOK, HealthOK, File

LEMMA StepType == TypeOK /\ [Next]_vars => TypeOK'
<1> SUFFICES ASSUME TypeOK, [Next]_vars PROVE TypeOK'
    OBVIOUS
<1> USE SupervisorAssumption DEF SupervisorAssumption, TypeOK, timers, health, ErrorKeys
<1>1. CASE PollCycle
    BY <1>1, ReadsKeepTypes, RecordsKeepTypes DEF PollCycle, MarkHealth
<1>2. CASE PollRaises
    BY <1>2, ReadsKeepTypes DEF PollRaises, Caught
<1>3. CASE ReplayRaises
    BY <1>3, ReadsKeepTypes, RecordsKeepTypes DEF ReplayRaises, Caught
<1>4. CASE Commands
    BY <1>4 DEF Commands
<1>5. CASE CommandsRaise
    BY <1>5 DEF CommandsRaise, Caught
<1>6. CASE Status
    <2>1. file' \in File
        BY <1>6, SnapshotType DEF Status, File
    <2>2. degraded' \in BOOLEAN /\ excused' \in BOOLEAN
        BY <1>6, Zenon DEF Status, CycleDone
    <2>3. statusDue' \in 0 .. StatusEvery
        BY <1>6 DEF Status
    <2> QED BY <1>6, <2>1, <2>2, <2>3 DEF Status, CycleDone, File
<1>7. CASE StatusRaises
    <2>1. file' \in File
        BY <1>7, TornType DEF StatusRaises, File
    <2> QED BY <1>7, <2>1 DEF StatusRaises, Caught, File
<1>8. CASE NextCycle
    BY <1>8, Bounds DEF NextCycle
<1>9. CASE Finish
    <2>1. file' \in File
        BY <1>9, SnapshotType DEF Finish
    <2> QED BY <1>9, <2>1 DEF Finish, File
<1>10. CASE Shutdown
    BY <1>10 DEF Shutdown
<1>11. CASE Crash
    <2>1. file' \in File
        BY <1>11, TornType DEF Crash, File
    <2> QED BY <1>11, <2>1, ForgottenTypes, Bounds DEF Crash, File, TimersOK, HealthOK
<1>12. CASE Start
    BY <1>12, ForgottenTypes, Bounds DEF Start, TimersOK, HealthOK
<1>13. ASSUME NEW p \in Point, Toggle(p) PROVE TypeOK'
    BY <1>13 DEF Toggle
<1>14. CASE Tick
    <2>1. spent' \in Nat /\ spent' <= Interval + Slack
        BY <1>14, Bounds DEF Tick
    <2>2. groupDue' \in [Group -> Nat] /\ \A g \in Group : groupDue'[g] <= Period[g]
        BY <1>14 DEF Tick, Less
    <2>3. commandDue' \in 0 .. CommandEvery /\ statusDue' \in 0 .. StatusEvery
        BY <1>14 DEF Tick, Less
    <2>4. okAge' \in [Point -> 0 .. Never]
        BY <1>14, Bounds DEF Tick, More
    <2>5. file' \in File
        BY <1>14, AgedType DEF Tick, File
    <2> QED BY <1>14, <2>1, <2>2, <2>3, <2>4, <2>5 DEF Tick, File
<1>15. CASE UNCHANGED vars
    BY <1>15 DEF vars
<1> QED BY <1>1, <1>2, <1>3, <1>4, <1>5, <1>6, <1>7, <1>8, <1>9, <1>10, <1>11, <1>12, <1>13,
           <1>14, <1>15 DEF Next, Thread

\* Every reachable state of the loop, the device and the file is well typed
\* (run_forever, poll_once, mark_device_health, _write_status_file).
THEOREM TypeCorrect == Spec => []TypeOK
BY InitType, StepType, PTL DEF Spec

-----------------------------------------------------------------------------
(* What a file without faults means *)

LEMMA InitMark == Init => MarkInv /\ CleanFileMeansCleanReads
BY DEF Init, MarkInv, CleanFileMeansCleanReads, NoFile

\* a read that fails in this poll is the reason of an error in this cycle
LEMMA PollMarks ==
    ASSUME MarkInv, ReadPoints,
           errors \subseteq errors', Missed # {} => errors' # {},
           ~healthy' => ~healthy \/ Missed # {}, UNCHANGED degraded
    PROVE  MarkInv'
BY DEF MarkInv, ReadPoints

\* a cycle that raises counts it
LEMMA CaughtMarks ==
    ASSUME errors' = errors \cup {"supervisor_loop_error"} PROVE MarkInv'
BY DEF MarkInv

LEMMA MarkStep == TypeOK /\ MarkInv /\ [Next]_vars => MarkInv'
<1> SUFFICES ASSUME TypeOK, MarkInv, [Next]_vars PROVE MarkInv'
    OBVIOUS
<1>1. CASE PollCycle
    BY <1>1, PollMarks DEF PollCycle, MarkHealth
<1>2. CASE PollRaises
    BY <1>2, CaughtMarks DEF PollRaises
<1>3. CASE ReplayRaises
    BY <1>3 DEF ReplayRaises, MarkInv
<1>4. CASE CommandsRaise \/ StatusRaises
    BY <1>4, CaughtMarks DEF CommandsRaise, StatusRaises
<1>5. CASE Commands \/ Status
    BY <1>5 DEF Commands, Status, CycleDone, health, MarkInv
<1>6. CASE NextCycle \/ Finish \/ Shutdown \/ Tick
    BY <1>6 DEF NextCycle, Finish, Shutdown, Tick, health, MarkInv
<1>7. CASE Crash \/ Start
    BY <1>7 DEF Crash, Start, Forgotten, MarkInv
<1>8. ASSUME NEW p \in Point, Toggle(p) PROVE MarkInv'
    BY <1>8 DEF Toggle, health, MarkInv
<1>9. CASE UNCHANGED vars
    BY <1>9 DEF vars, MarkInv
<1> QED BY <1>1, <1>2, <1>3, <1>4, <1>5, <1>6, <1>7, <1>8, <1>9 DEF Next, Thread

LEMMA SnapshotIsClean ==
    ASSUME MarkInv, file' = Snapshot PROVE CleanFileMeansCleanReads'
BY DEF MarkInv, Snapshot, CleanFileMeansCleanReads

LEMMA CleanStep == TypeOK /\ MarkInv /\ CleanFileMeansCleanReads /\ [Next]_vars => CleanFileMeansCleanReads'
<1> SUFFICES ASSUME TypeOK, MarkInv, CleanFileMeansCleanReads, [Next]_vars
             PROVE  CleanFileMeansCleanReads'
    OBVIOUS
<1>0. file \in File
    BY DEF TypeOK, File
<1>1. CASE UNCHANGED file
    BY <1>1 DEF CleanFileMeansCleanReads
<1>2. CASE Status
    BY <1>1, <1>2, SnapshotIsClean DEF Status
<1>3. CASE Finish
    BY <1>3, SnapshotIsClean DEF Finish
<1>4. CASE file' = [file EXCEPT !.kind = "torn"]
    BY <1>0, <1>4 DEF CleanFileMeansCleanReads, File
<1>5. CASE StatusRaises \/ Crash
    BY <1>1, <1>4, <1>5 DEF StatusRaises, Crash
<1>6. CASE Tick
    BY <1>0, <1>6 DEF Tick, CleanFileMeansCleanReads, File
<1>7. CASE PollCycle \/ PollRaises \/ ReplayRaises \/ Commands \/ CommandsRaise \/ NextCycle
    BY <1>1, <1>7 DEF PollCycle, PollRaises, ReplayRaises, Commands, CommandsRaise, NextCycle
<1>8. CASE Shutdown \/ Start \/ \E p \in Point : Toggle(p)
    BY <1>1, <1>8 DEF Shutdown, Start, Toggle
<1> QED BY <1>1, <1>2, <1>3, <1>5, <1>6, <1>7, <1>8 DEF Next, Thread, vars

\* A whole status file without a fault was written by a process whose every
\* read had succeeded until then, and does not say "degraded"
\* (mark_device_health, increment_error, status_snapshot, _write_status_file).
THEOREM CleanFileCorrect == Spec => []CleanFileMeansCleanReads
<1>1. Init => TypeOK /\ MarkInv /\ CleanFileMeansCleanReads
    BY InitType, InitMark
<1>2. TypeOK /\ MarkInv /\ CleanFileMeansCleanReads /\ [Next]_vars
      => (TypeOK /\ MarkInv /\ CleanFileMeansCleanReads)'
    BY StepType, MarkStep, CleanStep
<1> QED BY <1>1, <1>2, PTL DEF Spec

-----------------------------------------------------------------------------
(* How old the file can be *)

LEMMA InitAge == Init => AgeInv
BY Bounds DEF Init, AgeInv, NoFile

\* a cycle that raises excuses an old file until it is written again
LEMMA CaughtKeepsAge ==
    ASSUME Caught PROVE AgeInv'
BY DEF Caught, AgeInv

LEMMA AgeStep == TypeOK /\ AgeInv /\ [Next]_vars => AgeInv'
<1> SUFFICES ASSUME TypeOK, AgeInv, [Next]_vars PROVE AgeInv'
    OBVIOUS
<1>0. /\ file \in File /\ file.age \in 0 .. FileBound + 1
      /\ spent \in Nat /\ statusDue \in 0 .. StatusEvery
    BY DEF TypeOK, File
<1>1. CASE PollCycle
    BY <1>0, <1>1, Bounds DEF PollCycle, ReadPoints, AgeInv
<1>2. CASE PollRaises \/ ReplayRaises \/ CommandsRaise \/ StatusRaises
    BY <1>2, CaughtKeepsAge DEF PollRaises, ReplayRaises, CommandsRaise, StatusRaises
<1>3. CASE Commands
    BY <1>0, <1>3, Bounds DEF Commands, AgeInv
<1>4. CASE Status
    BY <1>0, <1>4, Bounds DEF Status, StatusDue, Snapshot, CycleDone, AgeInv
<1>5. CASE NextCycle
    BY <1>0, <1>5, Bounds DEF NextCycle, timers, AgeInv
<1>6. CASE Finish
    BY <1>6 DEF Finish, AgeInv
<1>7. CASE Shutdown
    BY <1>7 DEF Shutdown, timers, AgeInv
<1>8. CASE Crash
    BY <1>8 DEF Crash, AgeInv
<1>9. CASE Start
    BY <1>0, <1>9, Bounds DEF Start, Forgotten, AgeInv
<1>10. ASSUME NEW p \in Point, Toggle(p) PROVE AgeInv'
    BY <1>10 DEF Toggle, timers, AgeInv
<1>11. CASE Tick
    <2>1. file'.age <= file.age + 1 /\ file'.age \in Nat
        BY <1>0, <1>11, Bounds DEF Tick, More, File
    <2>2. spent' = spent + 1 /\ pc' = pc /\ excused' = excused
        BY <1>11 DEF Tick
    <2>3. statusDue' = IF statusDue = 0 THEN 0 ELSE statusDue - 1
        BY <1>11 DEF Tick, Less
    <2>4. IF pc = "pause" THEN spent < Interval ELSE spent < Slack
        BY <1>11 DEF Tick
    <2> QED BY <1>0, <2>1, <2>2, <2>3, <2>4, Bounds DEF AgeInv
<1>12. CASE UNCHANGED vars
    BY <1>12 DEF vars, AgeInv
<1> QED BY <1>1, <1>2, <1>3, <1>4, <1>5, <1>6, <1>7, <1>8, <1>9, <1>10, <1>11, <1>12 DEF Next, Thread

LEMMA AgeImpliesRecent == TypeOK /\ AgeInv => FileIsRecent
BY Bounds DEF TypeOK, AgeInv, FileIsRecent

\* While no cycle raises, the file is at most one status interval, one polling
\* interval and the work of one cycle old, whatever the three are
\* (run_forever, status_snapshot).
THEOREM FileIsRecentCorrect == Spec => []FileIsRecent
<1>1. Init => TypeOK /\ AgeInv
    BY InitType, InitAge
<1>2. TypeOK /\ AgeInv /\ [Next]_vars => (TypeOK /\ AgeInv)'
    BY StepType, AgeStep
<1> QED BY <1>1, <1>2, AgeImpliesRecent, PTL DEF Spec
=============================================================================
