--------------------------- MODULE TelemetryReplay ---------------------------
(***************************************************************************)
(* Store and forward of telemetry: the durable buffer                      *)
(* (edge/storage/sqlite.py), the poll cycle of the supervisor thread that  *)
(* fills it and replays it (edge/runtime.py, edge/replay.py), the clients  *)
(* that send a row (edge/cloud_client.py, edge/messaging.py) and the ingest *)
(* of the cloud (control/repository.py).                                   *)
(*                                                                         *)
(* A reading is its row id: ids grow in the order of polling.  Between the *)
(* listing, the upload and the statement that settles a row the process    *)
(* may crash, a store transaction may fail, and the answer of an upload    *)
(* that was delivered may be lost.  With messaging_mode "mqtt" an upload   *)
(* queues the reading in the memory of the client library, from where it   *)
(* reaches a broker; nothing in the repository takes it from there.  Where *)
(* the library is not installed (it is no dependency of the project) the   *)
(* same mode runs as "mock": an upload succeeds and drops the reading.     *)
(*                                                                         *)
(* Abstractions.  next_attempt_at is kept as the seconds left until it     *)
(* (the wall clock is assumed not to be set back); attempt_count saturates *)
(* at MaxAttempts, where the delay has reached its cap.                    *)
(***************************************************************************)
EXTENDS Naturals, FiniteSets

CONSTANTS
    Readings,           \* bound: readings 1 .. Readings are ever polled
    Stream,             \* Stream[i]: the telemetry stream of reading i
    NullReading,        \* readings whose value is None
    Poison,             \* readings that the cloud refuses as invalid
    Transports,         \* the clients of main.py:74-89: "http", "mqtt", "mock"
    PollSize,           \* most readings of one poll
    ReplayLimit,        \* replay_once(limit), 500 in the code
    BackoffCap,         \* 60 in the code
    PermanentBackoff,   \* 999999 in the code
    MaxAttempts,        \* bound: attempt_count saturates here
    CycleSeconds,       \* bound: seconds from one listing to the next
    MaxFailures,        \* bound: failing uploads (outages end)
    MaxFaults,          \* bound: failing store transactions or polls
    MaxCrashes          \* bound: crashes of the process

Reading == 1 .. Readings

ASSUME ReplayAssumption ==
    /\ Readings \in Nat
    /\ Stream \in [Reading -> STRING]
    /\ NullReading \subseteq Reading
    /\ Poison \subseteq Reading \ NullReading
    /\ Transports \subseteq {"http", "mqtt", "mock"}
    /\ PollSize \in Nat /\ ReplayLimit \in Nat \ {0}
    /\ BackoffCap \in Nat \ {0} /\ PermanentBackoff \in Nat
    /\ BackoffCap <= PermanentBackoff
    /\ MaxAttempts \in Nat \ {0}
    /\ CycleSeconds \in Nat
    /\ MaxFailures \in Nat /\ MaxFaults \in Nat /\ MaxCrashes \in Nat

\* the saturation of attempt_count changes no delay
ASSUME SaturationAssumption == 2 ^ MaxAttempts >= BackoffCap

VARIABLES
    transport,  \* the messaging client of this gateway
    polled,     \* readings 1 .. polled were committed to telemetry_buffer
    buffer,     \* rows of telemetry_buffer
    attempts,   \* attempt_count of each row
    wait,       \* seconds until next_attempt_at of each row
    rowClass,   \* failure_class of each row, "none" while NULL
    pc,         \* control point of the supervisor thread
    batch,      \* listed rows still to visit
    cur,        \* the row being sent, 0 if none
    error,      \* failure class of the exception being handled
    outbox,     \* messages queued in the MQTT client
    broker,     \* readings that reached the MQTT broker
    stored,     \* telemetry_points rows that hold each reading
    elapsed,    \* seconds since the last listing
    owed,       \* history: seconds of backoff still owed after a failed upload
    early,      \* history: uploads made while backoff was owed
    failures, faults, crashes

rowVars   == <<polled, buffer, attempts, wait, rowClass>>
loopVars  == <<pc, batch, cur, error>>
cloudVars == <<outbox, broker, stored>>
histVars  == <<owed, early>>
vars == <<transport, polled, buffer, attempts, wait, rowClass, pc, batch, cur, error,
          outbox, broker, stored, elapsed, owed, early, failures, faults, crashes>>

Permanent == {"auth_failure", "validation_failure"}
Temporary == {"transport_failure", "transient_server_error", "unknown"}
Unclassified == "unclassified_exception"
Class == Permanent \cup Temporary \cup {Unclassified}

LoopState == {"down", "poll", "list", "loop", "sent", "failed"}

TypeOK ==
    /\ transport \in Transports
    /\ polled \in 0 .. Readings
    /\ buffer \subseteq 1 .. polled
    /\ attempts \in [Reading -> 0 .. MaxAttempts]
    /\ wait \in [Reading -> 0 .. PermanentBackoff]
    /\ rowClass \in [Reading -> Class \cup {"none"}]
    /\ pc \in LoopState
    /\ batch \subseteq Reading
    /\ cur \in Reading \cup {0}
    /\ error \in Class \cup {"none"}
    /\ outbox \subseteq Reading /\ broker \subseteq Reading
    /\ stored \in [Reading -> Nat]
    /\ elapsed \in 0 .. CycleSeconds
    /\ owed \in [Reading -> 0 .. PermanentBackoff]
    /\ early \in Nat
    /\ failures \in 0 .. MaxFailures
    /\ faults \in 0 .. MaxFaults
    /\ crashes \in 0 .. MaxCrashes

Init ==
    /\ transport \in Transports
    /\ polled = 0
    /\ buffer = {}
    /\ attempts = [i \in Reading |-> 0]
    /\ wait = [i \in Reading |-> 0]
    /\ rowClass = [i \in Reading |-> "none"]
    /\ pc = "down"
    /\ batch = {}
    /\ cur = 0
    /\ error = "none"
    /\ outbox = {}
    /\ broker = {}
    /\ stored = [i \in Reading |-> 0]
    /\ elapsed = 0
    /\ owed = [i \in Reading |-> 0]
    /\ early = 0
    /\ failures = 0
    /\ faults = 0
    /\ crashes = 0

-----------------------------------------------------------------------------
(* Delays *)

\* replay.py:103-105 -- min(60, 2^attempt)
Exponential(attempt) ==
    IF 2 ^ attempt \in 1 .. BackoffCap THEN 2 ^ attempt ELSE BackoffCap

\* Mutant: what the docstring says, 0 seconds for a refusal.
Backoff_Docstring(class, attempt) ==
    IF class \in Permanent THEN 0 ELSE Exponential(attempt)

\* Mutant: a refusal waits for the exponential delay as well.
Backoff_OnTop(class, attempt) ==
    (IF class \in Permanent THEN PermanentBackoff ELSE 0) + Exponential(attempt)

\* replay.py:98-105
Backoff(class, attempt) ==
    IF class \in Permanent THEN PermanentBackoff ELSE Exponential(attempt)

Bump(n) == IF n < MaxAttempts THEN n + 1 ELSE MaxAttempts

-----------------------------------------------------------------------------
(* The poll cycle *)

\* supervisor.py:57 -- startup_recovery only reads the buffer
Boot ==
    /\ pc = "down"
    /\ pc' = "poll"
    /\ UNCHANGED <<transport, rowVars, batch, cur, error, cloudVars, histVars, elapsed, failures, faults, crashes>>

\* runtime.py:95-96, sqlite.py:96-118 -- poll, then insert every record in one
\* transaction; a poll may find no group due
Poll(k) ==
    /\ pc = "poll"
    /\ polled + k <= Readings
    /\ polled' = polled + k
    /\ buffer' = buffer \cup ((polled + 1) .. (polled + k))
    /\ pc' = "list"
    /\ UNCHANGED <<transport, attempts, wait, rowClass, batch, cur, error, cloudVars, histVars,
                   elapsed, failures, faults, crashes>>

\* sqlite.py:127
Due(i) == i \in buffer /\ wait[i] = 0

\* sqlite.py:120-149 -- the first ReplayLimit due rows in id order
ListPending ==
    /\ pc = "list"
    /\ batch' = {i \in Reading : Due(i) /\ Cardinality({j \in Reading : Due(j) /\ j < i}) < ReplayLimit}
    /\ pc' = "loop"
    /\ elapsed' = 0
    /\ UNCHANGED <<transport, rowVars, cur, error, cloudVars, histVars, failures, faults, crashes>>

\* Mutant: the loop makes a new messaging client after an exception.
CycleFault_NewClient ==
    /\ pc \in {"poll", "list"}
    /\ faults < MaxFaults
    /\ faults' = faults + 1
    /\ pc' = "poll"
    /\ outbox' = {}
    /\ UNCHANGED <<transport, rowVars, batch, cur, error, broker, stored, histVars, elapsed, failures, crashes>>

\* an exception of the poll, of the insert or of the listing ends the cycle
\* (supervisor.py:100-105); the readings of the poll were never buffered
CycleFault ==
    /\ pc \in {"poll", "list"}
    /\ faults < MaxFaults
    /\ faults' = faults + 1
    /\ pc' = "poll"
    /\ UNCHANGED <<transport, rowVars, batch, cur, error, cloudVars, histVars, elapsed, failures, crashes>>

\* replay.py:78-84
BatchDone ==
    /\ pc = "loop" /\ batch = {}
    /\ pc' = "poll"
    /\ UNCHANGED <<transport, rowVars, batch, cur, error, cloudVars, histVars, elapsed, failures, faults, crashes>>

-----------------------------------------------------------------------------
(* One row of replay_once: upload, then settle the row *)

\* Mutant: the newest row first.
IsHead_Newest(i) == i \in batch /\ \A j \in batch : i >= j

IsHead(i) == i \in batch /\ \A j \in batch : i <= j

\* replay.py:49-51
Attempt(i) ==
    /\ pc = "loop" /\ IsHead(i)
    /\ cur' = i
    /\ batch' = batch \ {i}
    /\ early' = early + (IF owed[i] > 0 THEN 1 ELSE 0)

\* Mutant: the statement without its ON CONFLICT clause.
Insert_Always(i) == stored' = [stored EXCEPT ![i] = @ + 1]

\* repository.py:363-387 -- ON CONFLICT (stream_id, ts) DO NOTHING
Insert(i) == stored' = [stored EXCEPT ![i] = IF @ = 0 THEN 1 ELSE @]

Raised(i, class) ==
    /\ pc' = "failed"
    /\ error' = class
    /\ owed' = [owed EXCEPT ![i] = Backoff(class, Bump(attempts[i]))]

\* cloud_client.py:42-44 -- a reading without a value is not sent at all
UploadSkipped(i) ==
    /\ transport = "http" /\ i \in NullReading
    /\ Attempt(i)
    /\ pc' = "sent"
    /\ UNCHANGED <<transport, rowVars, error, cloudVars, owed, elapsed, failures, faults, crashes>>

UploadAccepted(i) ==
    /\ transport = "http" /\ i \notin NullReading \cup Poison
    /\ Attempt(i)
    /\ Insert(i)
    /\ pc' = "sent"
    /\ UNCHANGED <<transport, rowVars, error, outbox, broker, owed, elapsed, failures, faults, crashes>>

\* control_loop.py:360-370 -- 400 missing_streams, a ValidationFailure
UploadRefused(i) ==
    /\ transport = "http" /\ i \in Poison
    /\ Attempt(i)
    /\ Raised(i, "validation_failure")
    /\ UNCHANGED <<transport, rowVars, cloudVars, elapsed, failures, faults, crashes>>

\* cloud_client.py:71-95 -- refused, unreachable, denied or failing: not stored
UploadFailed(i, class) ==
    /\ transport = "http" /\ i \notin NullReading
    /\ failures < MaxFailures
    /\ failures' = failures + 1
    /\ Attempt(i)
    /\ Raised(i, class)
    /\ UNCHANGED <<transport, rowVars, cloudVars, elapsed, faults, crashes>>

\* stored, but the answer timed out, was a 5xx or could not be parsed
\* (cloud_client.py:86-97)
UploadUnanswered(i, class) ==
    /\ transport = "http" /\ i \notin NullReading \cup Poison
    /\ failures < MaxFailures
    /\ failures' = failures + 1
    /\ Attempt(i)
    /\ Insert(i)
    /\ Raised(i, class)
    /\ UNCHANGED <<transport, rowVars, outbox, broker, elapsed, faults, crashes>>

\* messaging.py:76-86 -- publish queues the message and does not wait for the
\* broker; a reading without a value is published too
Publish(i) ==
    /\ transport = "mqtt"
    /\ Attempt(i)
    /\ outbox' = outbox \cup {i}
    /\ pc' = "sent"
    /\ UNCHANGED <<transport, rowVars, error, broker, stored, owed, elapsed, failures, faults, crashes>>

\* messaging.py:87-88 -- without the library the message is only logged
PublishMock(i) ==
    /\ transport = "mock"
    /\ Attempt(i)
    /\ pc' = "sent"
    /\ UNCHANGED <<transport, rowVars, error, cloudVars, owed, elapsed, failures, faults, crashes>>

\* sqlite.py:164-166
AckTelemetry ==
    /\ pc = "sent"
    /\ buffer' = buffer \ {cur}
    /\ cur' = 0
    /\ pc' = "loop"
    /\ UNCHANGED <<transport, polled, attempts, wait, rowClass, batch, error, cloudVars, histVars,
                   elapsed, failures, faults, crashes>>

\* replay.py:64-67 -- the DELETE fails after the upload succeeded
AckFault ==
    /\ pc = "sent"
    /\ faults < MaxFaults
    /\ faults' = faults + 1
    /\ pc' = "failed"
    /\ error' = Unclassified
    /\ UNCHANGED <<transport, rowVars, batch, cur, cloudVars, histVars, elapsed, failures, crashes>>

\* Mutant: a row that has failed often is given up.
MarkRetry_GiveUp ==
    /\ pc = "failed"
    /\ attempts' = [attempts EXCEPT ![cur] = Bump(@)]
    /\ buffer' = IF Bump(attempts[cur]) = MaxAttempts THEN buffer \ {cur} ELSE buffer
    /\ wait' = [wait EXCEPT ![cur] = Backoff(error, Bump(attempts[cur]))]
    /\ rowClass' = [rowClass EXCEPT ![cur] = error]
    /\ cur' = 0 /\ error' = "none"
    /\ pc' = "loop"
    /\ UNCHANGED <<transport, polled, batch, cloudVars, histVars, elapsed, failures, faults, crashes>>

\* Mutant: the class and the count are saved, next_attempt_at is not.
MarkRetry_AtOnce ==
    /\ pc = "failed"
    /\ attempts' = [attempts EXCEPT ![cur] = Bump(@)]
    /\ rowClass' = [rowClass EXCEPT ![cur] = error]
    /\ cur' = 0 /\ error' = "none"
    /\ pc' = "loop"
    /\ UNCHANGED <<transport, polled, buffer, wait, batch, cloudVars, histVars, elapsed, failures, faults, crashes>>

\* replay.py:53-76, sqlite.py:168-182
MarkRetry ==
    /\ pc = "failed"
    /\ attempts' = [attempts EXCEPT ![cur] = Bump(@)]
    /\ wait' = [wait EXCEPT ![cur] = Backoff(error, Bump(attempts[cur]))]
    /\ rowClass' = [rowClass EXCEPT ![cur] = error]
    /\ cur' = 0 /\ error' = "none"
    /\ pc' = "loop"
    /\ UNCHANGED <<transport, polled, buffer, batch, cloudVars, histVars, elapsed, failures, faults, crashes>>

\* the UPDATE fails: the exception leaves replay_once and ends the cycle
\* (supervisor.py:100-105), the rest of the batch is not visited
MarkFault ==
    /\ pc = "failed"
    /\ faults < MaxFaults
    /\ faults' = faults + 1
    /\ batch' = {}
    /\ cur' = 0 /\ error' = "none"
    /\ pc' = "poll"
    /\ UNCHANGED <<transport, rowVars, cloudVars, histVars, elapsed, failures, crashes>>

-----------------------------------------------------------------------------
(* The environment *)

\* the client library hands a message to the broker (qos 1)
BrokerDeliver(i) ==
    /\ i \in outbox
    /\ outbox' = outbox \ {i}
    /\ broker' = broker \cup {i}
    /\ UNCHANGED <<transport, rowVars, loopVars, stored, histVars, elapsed, failures, faults, crashes>>

Elapse(f) == [i \in Reading |-> IF f[i] > 0 THEN f[i] - 1 ELSE 0]

\* one second passes; a cycle of the thread takes CycleSeconds at most
Tick ==
    /\ elapsed < CycleSeconds
    /\ elapsed' = elapsed + 1
    /\ \E i \in Reading : wait[i] > 0 \/ owed[i] > 0
    /\ wait' = Elapse(wait)
    /\ owed' = Elapse(owed)
    /\ UNCHANGED <<transport, polled, buffer, attempts, rowClass, loopVars, cloudVars, early,
                   failures, faults, crashes>>

Crash ==
    /\ pc # "down"
    /\ crashes < MaxCrashes
    /\ crashes' = crashes + 1
    /\ pc' = "down"
    /\ batch' = {} /\ cur' = 0 /\ error' = "none"
    /\ outbox' = {}
    /\ UNCHANGED <<transport, rowVars, broker, stored, histVars, elapsed, failures, faults>>

-----------------------------------------------------------------------------
Upload(i) ==
    \/ UploadSkipped(i) \/ UploadAccepted(i) \/ UploadRefused(i)
    \/ Publish(i) \/ PublishMock(i)
    \/ \E class \in Permanent \cup Temporary : UploadFailed(i, class)
    \/ \E class \in Temporary \cup {Unclassified} : UploadUnanswered(i, class)

\* what the supervisor thread does when nothing fails under it
Work ==
    \/ Boot \/ ListPending \/ BatchDone \/ AckTelemetry \/ MarkRetry
    \/ \E k \in 0 .. PollSize : Poll(k)
    \/ \E i \in Reading : Upload(i)

Next ==
    \/ Work
    \/ CycleFault \/ AckFault \/ MarkFault
    \/ \E i \in Reading : BrokerDeliver(i)
    \/ Tick
    \/ Crash

Spec == Init /\ [][Next]_vars

\* the supervisor thread keeps running and time passes
FairSpec ==
    /\ Spec
    /\ WF_vars(Work)
    /\ WF_vars(Tick)

-----------------------------------------------------------------------------
(* Properties *)

Released(i) == i <= polled /\ i \notin buffer

\* No reading leaves the durable buffer (ack_telemetry) before the cloud holds
\* it, unless it has no value, across crashes, store faults and lost answers.
\* (Only over HTTP: what is published over MQTT is never stored by the cloud.)
NoLoss == \A i \in Reading : Released(i) => stored[i] > 0 \/ i \in NullReading

\* deleted from the buffer and held nowhere else
Lost == {i \in Reading : Released(i) /\ stored[i] = 0 /\ i \notin outbox \cup broker}

\* Which step can lose which readings.  Over HTTP none that has a value is ever
\* lost; over MQTT a crash loses what waited in the outbox of the client, and
\* neither the replay, nor a failing store transaction, nor the way to the
\* broker loses any; the mock client loses the rows one by one as it "sends"
\* them, never one that it was not handed.
Accounted ==
    [][Lost' \ Lost \subseteq
          CASE transport = "http" -> NullReading
            [] transport = "mqtt" -> IF crashes' = crashes THEN {} ELSE outbox
            [] OTHER -> {cur}]_vars

\* A failed upload is repeated before its backoff has passed only when a crash
\* or a failing UPDATE came between the failure and mark_telemetry_retry, and
\* then once: next_attempt_at survives restarts, so there is no tight loop.
EarlyRetriesBounded == early <= crashes + faults

Overtakes(i, j) ==
    /\ i > j /\ Stream[i] = Stream[j]
    /\ j \notin NullReading \cup Poison
    /\ stored'[i] > 0 /\ stored'[j] = 0

\* Only a failed upload lets a reading be overtaken: crashes, failing store
\* transactions and repeated uploads keep the order of each stream.
OrderedUntilFailure ==
    [][failures = 0 => \A i, j \in Reading : stored[i] = 0 => ~Overtakes(i, j)]_vars

\* Every buffered reading that the cloud does not refuse leaves the buffer
\* once outages end; a refused row in front of it does not hold it up.
Drains == \A i \in Reading \ Poison : (i \in buffer) ~> (i \notin buffer)

\* The replay over HTTP implements the pipe: a reading is released only when
\* the cloud has a row for it, and every repeated upload, after a lost answer,
\* a failed DELETE or a crash, is a stutter that adds no second row.
Stage(i) == IF i > polled THEN "new" ELSE IF i \in buffer THEN "buffered" ELSE "released"

Pipe == INSTANCE TelemetryPipe WITH
    stage <- [i \in Reading |-> Stage(i)],
    rows <- stored

ImplementsPipe == Pipe!Spec

-----------------------------------------------------------------------------
(* Inductive strengthenings *)

\* The thread only holds rows that are still buffered.
LoopInv ==
    /\ batch \subseteq buffer
    /\ pc \in {"down", "poll", "list"} => batch = {}
    /\ IF pc \in {"sent", "failed"} THEN cur \in buffer \ batch ELSE cur = 0
    /\ pc = "failed" => error \in Class

\* Over HTTP a sent row is stored, what is stored was polled, what was released
\* is stored or null.
SettleInv ==
    /\ pc = "sent" => stored[cur] > 0 \/ cur \in NullReading
    /\ outbox = {}
    /\ \A i \in Reading : stored[i] > 0 => i <= polled
    /\ NoLoss

\* What MQTT took out of the hands of the thread is in the outbox or at the broker
\* while the row waits for its DELETE.
OutboxInv == transport = "mqtt" /\ pc = "sent" => cur \in outbox \cup broker

\* Until the first failed upload every row that is not stored is due, and no
\* listing and no head of a batch passes it by.
OrderInv ==
    /\ \A i \in Reading : i > polled => wait[i] = 0
    /\ failures = 0 =>
          \A j \in buffer \ (NullReading \cup Poison) : stored[j] = 0 =>
              /\ wait[j] = 0 /\ cur # j
              /\ \A i \in batch : j < i => j \in batch

\* the delay a row in the hands of the thread is about to be given
Pledged(i) ==
    IF pc = "failed" /\ cur = i THEN Backoff(error, Bump(attempts[i])) ELSE wait[i]

\* rows that may be uploaded while they owe backoff
Indebted == {i \in buffer : owed[i] > Pledged(i) /\ ~(pc = "sent" /\ cur = i)}

\* Each crash and each fault lets one row at most escape its backoff.
DebtInv ==
    /\ \A i \in batch : wait[i] = 0
    /\ \A i \in Reading : i > polled => owed[i] = 0
    /\ early + Cardinality(Indebted) <= crashes + faults

ReplayInv == LoopInv /\ SettleInv /\ DebtInv
=============================================================================
