--------------------------- MODULE EdgeSupervisor ---------------------------
(***************************************************************************)
(* What the gateway tells about itself: the loop of the supervisor         *)
(* (edge/supervisor.py), the groups of points that fall due and the        *)
(* staleness of each point (edge/poller.py, edge/staleness.py), the health *)
(* of the device and the error counts (edge/observability.py,              *)
(* edge/runtime.py), and the status file that operators read.              *)
(*                                                                         *)
(* Time passes between the steps of a cycle as well as in its pause, so    *)
(* two cycles may call the poller less than a polling interval apart.      *)
(*                                                                         *)
(* Abstractions.  The commands and the telemetry buffer are the subject of *)
(* EdgeCommands and TelemetryReplay; here they are steps that may raise.   *)
(* Of the error counts the two that this module causes are kept, as        *)
(* counted or not: fault_state lists the keys with a count, and no count   *)
(* ever falls.  The heartbeat is left out: over HTTP it raises inside      *)
(* report_heartbeat, which swallows it, and over MQTT nobody subscribes.   *)
(***************************************************************************)
EXTENDS Integers, FiniteSets

CONSTANTS
    Point,          \* the mappings that are polled
    Group,          \* poll groups, with "fast" and "verify"
    GroupOf,        \* the group of each point
    Period,         \* group_intervals
    Interval,       \* poll_interval_seconds
    CommandEvery,   \* command_interval_seconds
    StatusEvery,    \* status_interval_seconds
    Slack,          \* bound: the work of a cycle takes at most this long
    Faults,         \* bound: cycles that raise
    Crashes,        \* bound: crashes of the process
    Continue        \* continue_on_poll_error

StaleAfter == 2 * Interval

\* how old the status file can get while no cycle raises
FileBound == StatusEvery + Interval + Slack

ASSUME SupervisorAssumption ==
    /\ {"fast", "verify"} \subseteq Group
    /\ GroupOf \in [Point -> Group]
    /\ Period \in [Group -> Nat \ {0}]
    /\ Interval \in Nat \ {0} /\ CommandEvery \in Nat \ {0} /\ StatusEvery \in Nat \ {0}
    /\ Slack \in Nat /\ Faults \in Nat /\ Crashes \in Nat
    /\ Continue \in BOOLEAN

VARIABLES
    pc,             \* where the thread is in run_forever
    stop,           \* _stop_event
    spent,          \* time since loop_started
    groupDue,       \* _next_group_due, as the time that is left
    commandDue,     \* next_command_cycle
    statusDue,      \* next_status_emit
    okAge,          \* time since last_ok_at of each point
    stale,          \* points whose latest stored record is stale
    healthy,        \* device_health of the device
    errors,         \* keys of error_counts
    degraded,       \* _degraded
    file,           \* the status file
    answers,        \* points that the device answers with a valid value
    failed,         \* history: a read failed since the process started
    excused,        \* history: a cycle raised since the file was written
    faults, crashes

vars == <<pc, stop, spent, groupDue, commandDue, statusDue, okAge, stale, healthy, errors,
          degraded, file, answers, failed, excused, faults, crashes>>

ErrorKeys == {"poll_quality_issue", "supervisor_loop_error"}

Never == StaleAfter + 1

NoFile == [kind |-> "none", degraded |-> FALSE, faults |-> {}, age |-> 0, missed |-> FALSE]

TypeOK ==
    /\ pc \in {"poll", "commands", "status", "pause", "stopped", "down"}
    /\ stop \in BOOLEAN
    /\ spent \in Nat /\ spent <= Interval + Slack
    /\ groupDue \in [Group -> Nat] /\ \A g \in Group : groupDue[g] <= Period[g]
    /\ commandDue \in 0 .. CommandEvery
    /\ statusDue \in 0 .. StatusEvery
    /\ okAge \in [Point -> 0 .. Never]
    /\ stale \subseteq Point
    /\ healthy \in BOOLEAN
    /\ errors \subseteq ErrorKeys
    /\ degraded \in BOOLEAN
    /\ file \in [kind : {"none", "torn", "whole"}, degraded : BOOLEAN, faults : SUBSET ErrorKeys,
                 age : 0 .. FileBound + 1, missed : BOOLEAN]
    /\ answers \subseteq Point
    /\ failed \in BOOLEAN /\ excused \in BOOLEAN
    /\ faults \in 0 .. Faults /\ crashes \in 0 .. Crashes

\* the memory of a process that has not done anything yet
Forgotten ==
    /\ stop' = FALSE /\ spent' = 0
    /\ groupDue' = [g \in Group |-> 0] /\ commandDue' = 0 /\ statusDue' = 0
    /\ okAge' = [p \in Point |-> Never] /\ stale' = {}
    /\ healthy' = TRUE /\ errors' = {} /\ degraded' = FALSE
    /\ failed' = FALSE

\* supervisor.py:28-34, 66-67, poller.py:30-42, observability.py:17-18
Init ==
    /\ pc = "poll" /\ stop = FALSE /\ spent = 0
    /\ groupDue = [g \in Group |-> 0] /\ commandDue = 0 /\ statusDue = 0
    /\ okAge = [p \in Point |-> Never] /\ stale = {}
    /\ healthy = TRUE /\ errors = {} /\ degraded = FALSE
    /\ file = NoFile
    /\ answers = Point
    /\ failed = FALSE /\ excused = FALSE
    /\ faults = 0 /\ crashes = 0

timers == <<groupDue, commandDue, statusDue>>
health == <<okAge, stale, healthy, failed>>

-----------------------------------------------------------------------------
(* One cycle *)

Due == {g \in Group : groupDue[g] = 0}

\* poller.py:44-51 -- nothing due means the fast group
Selected == IF Due = {} THEN {"fast"} ELSE Due

Polled == {p \in Point : GroupOf[p] \in Selected}
Missed == Polled \ answers

\* staleness.py:20-52 -- a decode failure is stale at once, a failed read when
\* the last good one is too old
Judged(p, decodeFailed) == decodeFailed \/ okAge[p] > StaleAfter

\* Mutant: a read that failed still renews the time of the point.
ReadPoints_Renewing ==
    /\ groupDue' = [g \in Group |-> IF g \in Due THEN Period[g] ELSE groupDue[g]]
    /\ okAge' = [p \in Point |-> IF p \in Polled THEN 0 ELSE okAge[p]]
    /\ failed' = (failed \/ Missed # {})

\* Mutant: the next time counts from the end of the pause.
ReadPoints_FromPause ==
    /\ groupDue' = [g \in Group |-> IF g \in Due THEN Period[g] + Interval ELSE groupDue[g]]
    /\ okAge' = [p \in Point |-> IF p \in Polled \cap answers THEN 0 ELSE okAge[p]]
    /\ failed' = (failed \/ Missed # {})

\* poller.py:44-103, staleness.py:46-48 -- the groups are marked as polled, and
\* a point that answers with a valid value is good
ReadPoints ==
    /\ groupDue' = [g \in Group |-> IF g \in Due THEN Period[g] ELSE groupDue[g]]
    /\ okAge' = [p \in Point |-> IF p \in Polled \cap answers THEN 0 ELSE okAge[p]]
    /\ failed' = (failed \/ Missed # {})

\* poller.py:105-128, runtime.py:95 -- of the points that do not answer,
\* "undecoded" answered with registers that do not decode
StoreRecords ==
    \E undecoded \in SUBSET Missed :
        stale' = (stale \ Polled) \cup {p \in Missed : Judged(p, p \in undecoded)}

\* Mutant: an issue is counted only when the poll before had one too.
MarkHealth_Debounced ==
    /\ healthy' = (Missed = {})
    /\ errors' = IF Missed # {} /\ ~healthy THEN errors \cup {"poll_quality_issue"} ELSE errors

\* runtime.py:100-103, observability.py:23-28, 48-49 -- the device is as healthy
\* as the records of this poll, which may have read none of the failing points
MarkHealth ==
    /\ healthy' = (Missed = {})
    /\ errors' = IF Missed # {} THEN errors \cup {"poll_quality_issue"} ELSE errors

\* supervisor.py:81-82, runtime.py:84-116
PollCycle ==
    /\ pc = "poll" /\ ~stop
    /\ ReadPoints
    /\ StoreRecords
    /\ MarkHealth
    /\ pc' = "commands"
    /\ UNCHANGED <<stop, spent, commandDue, statusDue, degraded, file, answers, excused, faults, crashes>>

\* supervisor.py:100-105
Caught ==
    /\ faults < Faults
    /\ faults' = faults + 1
    /\ degraded' = TRUE
    /\ excused' = TRUE
    /\ pc' = IF Continue THEN "pause" ELSE "down"

\* runtime.py:94-95 -- the buffer cannot be written: the records are lost and
\* the device is not marked
PollRaises ==
    /\ pc = "poll" /\ ~stop
    /\ ReadPoints
    /\ errors' = errors \cup {"supervisor_loop_error"}
    /\ Caught
    /\ UNCHANGED <<stop, spent, commandDue, statusDue, stale, healthy, file, answers, crashes>>

\* runtime.py:105 -- the replay raises
ReplayRaises ==
    /\ pc = "poll" /\ ~stop
    /\ ReadPoints
    /\ StoreRecords
    /\ healthy' = (Missed = {})
    /\ errors' = errors \cup {"supervisor_loop_error"}
                        \cup IF Missed # {} THEN {"poll_quality_issue"} ELSE {}
    /\ Caught
    /\ UNCHANGED <<stop, spent, commandDue, statusDue, file, answers, crashes>>

\* supervisor.py:84-87
Commands ==
    /\ pc = "commands"
    /\ commandDue' = IF commandDue = 0 THEN CommandEvery ELSE commandDue
    /\ pc' = "status"
    /\ UNCHANGED <<stop, spent, groupDue, statusDue, health, errors, degraded, file, answers,
                   excused, faults, crashes>>

CommandsRaise ==
    /\ pc = "commands" /\ commandDue = 0
    /\ errors' = errors \cup {"supervisor_loop_error"}
    /\ Caught
    /\ UNCHANGED <<stop, spent, timers, health, file, answers, crashes>>

\* supervisor.py:119-146
Snapshot ==
    [kind |-> "whole", degraded |-> degraded \/ ~healthy, faults |-> errors, age |-> 0, missed |-> failed]

\* Mutant: the status is emitted only in a cycle that processed commands.
StatusDue_WithCommands == statusDue = 0 /\ commandDue = CommandEvery

\* supervisor.py:89
StatusDue == statusDue = 0

\* Mutant: the flag stays once a cycle has raised.
CycleDone_Sticky ==
    /\ degraded' = degraded
    /\ pc' = "pause"

\* supervisor.py:99
CycleDone ==
    /\ degraded' = FALSE
    /\ pc' = "pause"

\* supervisor.py:89-99, 148-151 -- the file is written before the flag is reset
Status ==
    /\ pc = "status"
    /\ IF StatusDue
       THEN /\ file' = Snapshot
            /\ statusDue' = StatusEvery
            /\ excused' = FALSE
       ELSE UNCHANGED <<file, statusDue, excused>>
    /\ CycleDone
    /\ UNCHANGED <<stop, spent, groupDue, commandDue, health, errors, answers, faults, crashes>>

\* supervisor.py:148-151 -- write_text truncates the file before it writes
StatusRaises ==
    /\ pc = "status" /\ StatusDue
    /\ file' \in {file, [file EXCEPT !.kind = "torn"]}
    /\ errors' = errors \cup {"supervisor_loop_error"}
    /\ Caught
    /\ UNCHANGED <<stop, spent, timers, health, answers, crashes>>

\* supervisor.py:69-70, 107-109
NextCycle ==
    /\ pc = "pause"
    /\ spent >= Interval \/ stop
    /\ pc' = "poll"
    /\ spent' = 0
    /\ UNCHANGED <<stop, timers, health, errors, degraded, file, answers, excused, faults, crashes>>

\* supervisor.py:111-113
Finish ==
    /\ pc = "poll" /\ stop
    /\ file' = Snapshot
    /\ pc' = "stopped"
    /\ UNCHANGED <<stop, spent, timers, health, errors, degraded, answers, excused, faults, crashes>>

-----------------------------------------------------------------------------
(* The environment *)

\* supervisor.py:115-117, main.py:113-118
Shutdown ==
    /\ pc \notin {"stopped", "down"}
    /\ ~stop
    /\ stop' = TRUE
    /\ UNCHANGED <<pc, spent, timers, health, errors, degraded, file, answers, excused, faults, crashes>>

\* the process dies, in the middle of writing the file or elsewhere
Crash ==
    /\ pc \notin {"stopped", "down"}
    /\ crashes < Crashes
    /\ crashes' = crashes + 1
    /\ pc' = "down"
    /\ file' = IF pc = "status" /\ StatusDue THEN [file EXCEPT !.kind = "torn"] ELSE file
    /\ excused' = TRUE
    /\ Forgotten
    /\ UNCHANGED <<answers, faults>>

\* the gateway is started again; the status file is the one it left
Start ==
    /\ pc = "down"
    /\ pc' = "poll"
    /\ Forgotten
    /\ UNCHANGED <<file, answers, excused, faults, crashes>>

\* the device loses a point or has it again
Toggle(p) ==
    /\ pc \notin {"stopped", "down"}
    /\ answers' = IF p \in answers THEN answers \ {p} ELSE answers \cup {p}
    /\ UNCHANGED <<pc, stop, spent, timers, health, errors, degraded, file, excused, faults, crashes>>

Less(n) == IF n = 0 THEN 0 ELSE n - 1
More(n, bound) == IF n < bound THEN n + 1 ELSE n

Tick ==
    /\ pc \notin {"stopped", "down"}
    /\ IF pc = "pause" THEN spent < Interval ELSE spent < Slack
    /\ spent' = spent + 1
    /\ groupDue' = [g \in Group |-> Less(groupDue[g])]
    /\ commandDue' = Less(commandDue)
    /\ statusDue' = Less(statusDue)
    /\ okAge' = [p \in Point |-> More(okAge[p], Never)]
    /\ file' = [file EXCEPT !.age = More(@, FileBound + 1)]
    /\ UNCHANGED <<pc, stop, stale, healthy, errors, degraded, answers, failed, excused, faults, crashes>>

Thread ==
    \/ PollCycle \/ PollRaises \/ ReplayRaises
    \/ Commands \/ CommandsRaise
    \/ Status \/ StatusRaises
    \/ NextCycle \/ Finish

Next ==
    \/ Thread
    \/ Shutdown \/ Crash \/ Start
    \/ \E p \in Point : Toggle(p)
    \/ Tick

\* the thread runs and a pause ends; nothing is assumed of the device, of the
\* faults, and of a restart, which the repository leaves to the operator
Fairness ==
    /\ WF_vars(Thread)
    /\ WF_vars(pc = "pause" /\ Tick)

Spec == Init /\ [][Next]_vars
FairSpec == Spec /\ Fairness

-----------------------------------------------------------------------------
(* Properties *)

\* A whole status file without a fault was written by a process whose every
\* read had succeeded until then: an issue that a later poll of other groups
\* covers up, or that an exception kept from being counted as what it was,
\* still leaves its mark.  Nor does it say "degraded": whatever degrades the
\* gateway, the file names a fault for it.
CleanFileMeansCleanReads ==
    file.kind = "whole" /\ file.faults = {} => ~file.missed /\ ~file.degraded

\* While no cycle raises, the file is never older than the status interval, one
\* polling interval and the work of a cycle: an older one means that the loop
\* is failing or gone, although the file itself may say that all is well.
FileIsRecent ==
    pc \notin {"stopped", "down"} /\ ~excused => file.age <= FileBound

Up == pc \notin {"stopped", "down"} /\ ~stop

\* While the gateway is up, a point that stops answering for good is in the end
\* on file as a quality issue and its records are stale, in whatever group it
\* is and whichever cycles raise, as long as they are finitely many.
DeadPointIsReported ==
    \A p \in Point :
        <>[](Up /\ p \notin answers) =>
            <>[](p \in stale /\ "poll_quality_issue" \in file.faults)

\* Once every point answers for good and the gateway stays up, the file says in
\* the end that the gateway is not degraded, and goes on to say so.
HealthReturns ==
    <>[](Up /\ answers = Point) => <>[](file.kind = "whole" /\ ~file.degraded /\ stale = {})

-----------------------------------------------------------------------------
(* The inductive invariants behind CleanFileMeansCleanReads and FileIsRecent *)

\* a read that failed has left a count of errors, and so has whatever made the
\* device unhealthy or the loop degraded
MarkInv == failed \/ degraded \/ ~healthy => errors # {}

\* the file ages with the timer of the status; once that has run out, only the
\* rest of the cycle that ran past the status and the work of the next are left
AgeInv ==
    /\ pc = "down" => excused
    /\ pc \in {"poll", "commands", "status"} => spent <= Slack
    /\ pc \in {"poll", "commands", "status", "pause"} /\ ~excused =>
          IF statusDue > 0 THEN file.age + statusDue <= StatusEvery
          ELSE IF pc = "pause" THEN spent <= Interval /\ file.age <= StatusEvery + spent
          ELSE file.age <= StatusEvery + Interval + spent
=============================================================================
