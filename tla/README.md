# Smart-Grid: TLA+ models of the edge gateway and the cloud control loop

This directory holds TLA+ modules that model the Smart-Grid energy backend
(`src/energy_api` of the repository), the TLC configurations that check them on small
instances, and theorems about them that TLAPS checks for every instance.
Every definition is translated from the Python source; the documents under `docs/`
only supply the claims that some runs test.

## 1. The system and its parts

An **edge gateway** on a site runs one supervisor thread. It polls a battery inverter
over Modbus, buffers every reading in a SQLite file, replays the buffer to the cloud, and
executes commands against the inverter's registers. The **cloud API** (FastAPI over
PostgreSQL) ingests the readings, derives the state of a site from them, lets a battery
policy decide, and dispatches commands to devices. Operators acknowledge alerts and
manage users through the same API.

| Component | State it keeps | Operations | Interacts with |
|---|---|---|---|
| Command queue (`edge/storage/sqlite.py`) | `command_queue` rows: id, idempotency key, status | `upsert_command`, `update_command_status`, `list_unresolved_commands`, `has_unresolved_command` | every statement is a transaction of its own |
| Edge runtime (`edge/runtime.py`) | `_recovery_done`, the batch of a backlog pass | `startup_recovery`, `run_poll_cycle`, `submit_command`, `process_command_backlog` | called by the supervisor thread and by external callers |
| Command executor (`edge/commands.py`) and Modbus adapter | write history of the circuit breaker; the registers are the device's | `execute_and_reconcile`, `reconcile_only` | device profile, device |
| Device profiles (`edge/device_profiles.py`, `edge/profile_validation.py`) | the point map that was loaded | `load_profile`, `merge_profile_overrides`, `validate_profile` | read once at start |
| Telemetry buffer and replay (`edge/replay.py`, `edge/storage/sqlite.py`) | `telemetry_buffer` rows with attempt count and due time | `enqueue_telemetry`, `replay_once` | messaging client, cloud ingest |
| Upload clients (`edge/cloud_client.py`, `edge/messaging.py`, `edge/failures.py`) | session, failure classes | `upload_record`, `publish_telemetry` | `POST /telemetry/ingest`, MQTT broker |
| Supervisor and observability (`edge/supervisor.py`, `edge/observability.py`) | loop timers, degraded flag, health of the device, error counts, status file | `run_forever`, `status_snapshot`, `shutdown` | runtime, operators who read the file |
| Poller, decoder, staleness (`edge/poller.py`, `edge/decoder.py`, `edge/staleness.py`) | next time of each group, last good time of each key | `poll_once`, `decode`, `evaluate` | Modbus adapter |
| Backoff (`edge/backoff.py`) | attempts, cooldown | `record_failure`, `should_retry` | not wired into the runtime |
| Dispatcher (`control/dispatcher.py`) and commands API (`routers/control_loop.py`) | `commands` rows | `dispatch`, `acknowledge_command` | repository, device |
| Battery policy, rule and state engines (`control/*.py`) | last action and its time | `decide`, `evaluate`, `build_site_state` | telemetry rows |
| Telemetry ingest (`control/repository.py`) | `telemetry_points` | `insert_telemetry_points`, `get_latest_state_rows` | edge replay |
| Alerts (`control/repository.py`, `routers/alerts.py`) | `alerts` rows | `create_alert`, `acknowledge_alert`, `resolve_alert` | no caller that works, see 4 |
| Edge gateways (`routers/edge.py`) | `edge_gateways` rows | provisioning, heartbeat | no client, see 4 |
| Simulator (`simulation/engine.py`, `edge/simulation/`) | state of charge, fault mode | `run_simulation`, `set_fault_mode` | - |
| Savings, ROI (`savings/`, `roi.py`) | none | pure computation | - |
| Users, auth, security (`routers/users.py`, `routers/auth.py`, `security.py`) | users, memberships, audit log; tokens carry a role | sign-up, login with the seeding of a development account, password, status and role changes | PostgreSQL, every statement committed on its own |
| Application shell, user interface (`main.py`, `core/`, `src/ui`) | settings | wiring | all routers |


### How the parts interact

- The gateway is one thread: `run_forever` calls `startup_recovery` once, then in a loop a
  poll cycle (poll, enqueue, `replay_once`), the command backlog and a status snapshot.
  `submit_command` is called by others, while the thread runs.
- All sharing on the gateway goes through SQLite, and every store method opens a
  connection, runs one statement sequence and commits. Whatever was read by one call may
  be different at the next one.
- The edge reaches the cloud over HTTP (the answer tells whether the points were
  stored) or over MQTT (`publish` returns once the message is in the memory of the client;
  without `paho-mqtt`, which the project does not depend on, it drops the message).
- The API serves requests concurrently. A repository method is a transaction of its own,
  so a request that first reads and then writes can be overtaken between the two.
- The policy reads the newest telemetry row of each stream and the memory of the engine
  object it is called on. Its command goes to the dispatcher, and the acknowledgement comes
  back as a separate request.

### Which behaviours are hard, and what makes each part correct

| Part | What is hard | What must hold |
|---|---|---|
| Command path of the edge | crashes between saving a status, writing a register and saving the verdict; callers that interleave with the thread; failing statements; stale listings | a command is written at most once; the journal is ahead of the device; one command is applied at a time; verdicts stay; accepted commands are resolved |
| Telemetry replay | lost answers, crash between upload and DELETE, rows in backoff before a LIMIT, failing UPDATE | over HTTP nothing leaves the buffer before the cloud has it, over MQTT each loss has its step; no tight retry loop; order per stream; the buffer drains |
| Dispatch | check and INSERT are two transactions; acknowledgements overtake the sender; any repository call may raise; restarts | what the pending check still guarantees; a key names one command; acknowledgements stay; a row is forgotten only by a call that raised or a restart |
| Control | two clocks; late, repeated and reordered readings; aliases of a stream; memory that safety overwrites | movements rest on fresh readings; the reserve and the one limit that is read are kept; reversals are spaced |
| Supervisor | an exception ends a cycle anywhere; the status snapshot comes last; a poll may read none of the failing points; the file is torn by a crash | a file without faults means clean reads; the file is recent unless a cycle raised; a dead point is reported in the end; health returns |
| Registers and profiles | 16-bit fields, four orders of bytes and words, a battery that follows late, frozen or garbled answers, restarts that forget the write history | what is confirmed is what the device does; the rate of writes is bounded; validation excludes a command without a register; decoding inverts the layout |
| Accounts | sign-ups and seedings of one address at once; a request that dies between two statements; tokens that outlive a role or were minted; administrators who change each other | one account for an address, no membership twice; the seeded account can be used; one account alone locks nobody out |

`PROJECT.json` lists each hazard at the line where it bites, with the properties that
cover it or the reason why none does.

## 2. Modules

    CommandJournal      TelemetryPipe       CommandLedger           abstract specifications
         ^ implements        ^ implements        ^ implements
    EdgeCommands        TelemetryReplay     CloudDispatch    SiteControl
    EdgeSupervisor      Accounts             DeviceCommand --EXTENDS--> RegisterCodec
         ^ EXTENDS
    MC<module>             values for TLC
    <module>_proofs        theorems (seven modules: all of the above but the abstract ones
                           and RegisterCodec, whose theorems are in DeviceCommand_proofs)

EdgeCommands and DeviceCommand are two views of one path: the first has the journal and its
interleavings and takes what the device does as an outcome, the second has one command at a
time and takes the journal as a call that a crash may interrupt. EdgeSupervisor is the loop
around EdgeCommands and TelemetryReplay, which appear in it as steps that may raise.

An operator named `X_Something`, under a comment that begins with "Mutant:", is a
plausible bug of `X`. It is part of no specification: it documents which property would
notice the bug, and `PROJECT.json` pairs them.

### EdgeCommands: the command path of the gateway

| Model | Code |
|---|---|
| `status` | `command_queue.status`; "absent" for no row |
| `device`, `writes` | what a readback observes; history of register writes |
| `pc`, `batch`, `cmd`, `seen`, `ok` | the supervisor thread: its place, the listed rows still to visit with their listed status, the row in hand, the verdict |
| `spc`, `scmd` | each caller inside `submit_command` |
| `SubmitDedup`, `SubmitGate`, `UpsertRecheck`, `UpsertInsert` | the four store calls of `submit_command` and `upsert_command`, in their order; the last with both conflict outcomes |
| `Boot`, `ListUnresolved`, `RecoverCommand`, `LogRecovery`, `RecoveryDone` | `startup_recovery`: its first two calls, the listing, the loop. Callers may submit from `Boot` on, also before the listing, as in the code |
| `ListBacklog`, `GateCommand`, `MarkApplying`, `Execute...`, `ReconcileOnly`, `Readback`, `SaveVerdict`, `LogVerdict`, `FailOnException`, `FinishBatch` | `process_command_backlog`, one step for each store or device call |
| `FaultInTry`, `FaultOutsideTry`, `FaultInRecovery` | a store call that raises: caught by the except branch, by the supervisor's loop, or by that of recovery |
| `Crash`, `DeviceDrift` | the environment |

The abstract `CommandJournal` has a phase for each command (unknown, pending, resolved)
and a count of applications: accepted once, applied at most once and only while
pending, resolved for good. `Phase` maps the statuses to it and `writes` is the count.

### TelemetryReplay: store and forward

| Model | Code |
|---|---|
| `buffer`, `attempts`, `wait`, `rowClass` | rows of `telemetry_buffer`, `attempt_count`, seconds to `next_attempt_at`, `failure_class` |
| `pc`, `batch`, `cur`, `error` | the thread inside `run_poll_cycle` and `replay_once` |
| `transport` | `messaging_mode` of the gateway, and whether its MQTT client is real ("mqtt") or runs without the library ("mock") |
| `outbox`, `broker`, `stored` | memory of the MQTT client; what the broker has, which nothing under `src` subscribes to; `telemetry_points` |
| `owed`, `early` | history: backoff still owed, uploads made in spite of it |
| `Poll`, `ListPending`, `BatchDone` | poll and enqueue, `list_pending_telemetry`, the return of `replay_once` |
| `UploadAccepted`, `UploadSkipped`, `UploadRefused`, `UploadFailed`, `UploadUnanswered`, `Publish`, `PublishMock` | the outcomes of `upload_record` and `publish_telemetry`, with the class each raises |
| `AckTelemetry`, `MarkRetry` | the statement that settles the row |
| `CycleFault`, `AckFault`, `MarkFault` | a store call that raises, and what its exception skips |
| `BrokerDeliver`, `Tick`, `Crash` | the environment |

The abstract `TelemetryPipe` has a stage for each reading (new, buffered, released) and
the set the cloud holds: released only when held or without a value, held only once
buffered.

### CloudDispatch: a command in the cloud

| Model | Code |
|---|---|
| `status`, `device`, `key`, `acked`, `age` | rows of `commands` |
| `by`, `win` | history: the slot of the API whose request made the row, and the block window of that request |
| `rpc`, `req`, `rcmd` | the request in each slot: its place in `dispatch`, its arguments with its window, its row |
| `acking` | acknowledgements between their SELECT and their UPDATE |
| `Arrive`, `CheckPending`, `CreateCommand`, `CreateRejected`, `SendToDevice`, `MarkSent`, `MarkFailed` | `dispatch`, one step for each repository call |
| `CallRaises`, `CreateUnanswered` | a repository call of a request that raises, before or after its INSERT took effect |
| `AckRead`, `AckWrite`, `AckRaises` | the two halves of `acknowledge_command`, and the second one raising |
| `Tick`, `Restart` | the environment |

The abstract `CommandLedger` has a phase for each command (none, open, settled), its device
and its key: a key issues one command on a device, a command is settled once and never opened
again. `PhaseOf` reads it off the row. A row that its dispatcher marks as sent after it
was acknowledged has the status "sent" again and is settled all the same, because the pending
query asks for `acked_at IS NULL` and no status write clears it.

### SiteControl: from readings to a decision

| Model | Code |
|---|---|
| `row` | the newest point of each stream: age of its timestamp, of the reading, or no point |
| `engine`, `last` | whether the policy object lives for one request or is kept; its last action and the age of it |
| `moved` | history: the last charge or discharge |
| `Ingest` | `insert_telemetry_points` and the LATERAL query for the newest row |
| `Lookup`, `Fresh`, `Online` | `StateEngine` |
| `HardSafety`, `Within`, `Continue`, `ChangeBlocked`, `Economic`, `DeratedLimit`, `Decision`, `Remember` | `BatteryPolicyEngine.decide`, branch by branch, in its order |
| `Optimize` | `optimize_run` up to the action |

### DeviceCommand and RegisterCodec: one command on the registers

| Model | Code |
|---|---|
| `profile`, `allowed` | the loaded profile, or the executor without one; `allow_writes` |
| `reg` | the four registers of the device that the commands touch |
| `history` | `_write_history`, as ages |
| `call` | the command inside the executor: its stage, whether it was written, whether the device took it |
| `issued`, `boots`, `acked` | history: writes and restarts of the last minute, the command that was last acknowledged for each register and not overwritten |
| `Merge`, `LastPoint`, `CommandFor`, `Valid`, `Loaded` | `merge_profile_overrides`, the dict of `validate_profile`, `command_for`, `validate_profile`, `load_profile` |
| `Encoded`, `Asked`, `Confirms`, `VerifyAddr`, `ReadsBack` | encoding and readback, of a profile and of the legacy commands |
| `Younger`, `Recent`, `BreakerAllows`, `RecordWrite` | `_check_circuit_breaker`, `_record_write` |
| `Refuse`, `Misconfigured`, `Write`, `WriteIgnored`, `WriteRaises` | `execute_and_reconcile` up to the write, with the faults of the simulated device |
| `Reconcile`, `ReconcileGarbage`, `ReconcileRaises` | the readback and its verdict |
| `Restart`, `Recover`, `RecoverRaises` | a crash and `reconcile_only` at startup |
| `Settle`, `Tick` | the battery, which follows its setpoint late or stops; time |
| `Encode16`, `Int16`, `RegistersToBytes`, `FromBytes`, `Decode` | the 16-bit fields of `commands.py` and the decoder; `Layout` is the reference they are compared with |

### EdgeSupervisor: what the gateway tells about itself

| Model | Code |
|---|---|
| `pc`, `stop`, `spent` | the place in `run_forever`, `_stop_event`, the time since `loop_started` |
| `groupDue`, `commandDue`, `statusDue` | the timers, as time left |
| `okAge`, `stale` | `last_ok_at` of each point, its latest record |
| `healthy`, `errors`, `degraded` | `device_health`, the keys of `error_counts`, `_degraded` |
| `file` | the status file: none, torn or whole, and its content |
| `answers` | the points the device answers |
| `failed`, `excused` | history: a read failed; a cycle raised since the file was written |
| `ReadPoints`, `StoreRecords`, `MarkHealth` | `poll_once` with its records, their INSERT, the health of the device |
| `PollCycle`, `PollRaises`, `ReplayRaises` | `run_poll_cycle`, and where an exception leaves it: the records of a poll that raises are lost |
| `Commands`, `CommandsRaise`, `Status`, `StatusRaises`, `NextCycle`, `Finish` | the rest of the cycle, its pause and the end of the loop |
| `Shutdown`, `Crash`, `Start`, `Toggle`, `Tick` | the environment |

### Accounts: sign-up, seeding, administration

| Model | Code |
|---|---|
| `users`, `memberships`, `audit` | the tables; an id is an index, so the oldest membership is the first |
| `tokens` | tokens that have not expired, with the role they were issued with |
| `req` | the request each thread serves, between its statements |
| `seedEmail`, `devMode` | the deployment: `EA_DEV_ADMIN_EMAIL` and whether development mode is on |
| `meddlers`, `seeded`, `minted` | history: who changed another, a login got past the seeding, a token was minted |
| `Signup`, `InsertUser`, `InsertMember` | `signup`, one step for each statement |
| `Login`, `SeedSelect`, `SeedInsert`, `SeedPassword`, `SeedMember`, `SeedGrant`, `Find` | `login` with `_ensure_dev_seed_user` and `_find_user_for_login` |
| `MintDevToken`, `Principals` | `mint_dev_token`: any subject, any role; who may send a request: tokens and service keys |
| `ChangePassword`, `WritePassword` | `change_password` |
| `UpdateUser`, `UpdateStatus`, `UpdateRole` | `update_user` |
| `SetStatus`, `LogAudit`, `LogFails` | `deactivate_user`, `reactivate_user`, `_log_audit` |
| `Expire`, `Crash` | the environment |

## 3. Runs

| Run | Instance | What it shows |
|---|---|---|
| `commands_concurrent` | 3 commands, two under one key; 2 callers with ids of their own; 2 crashes, 2 store faults (74 932 states) | `AtMostOneWrite`, `WriteAhead`, `ApplyExclusion`, `TerminalIsFinal`, `AckedMeansApplied`; `ImplementsJournal` |
| `commands_live` | 1 caller, 1 crash, 1 fault, fairness (9 726) | `OneOutstanding`; `Converges` |
| `commands_race` | 2 callers, no crash, no fault | **violated**: `Converges` |
| `commands_duplicate` | both callers deliver the same ids | **violated**: `AtMostOneWrite` |
| `telemetry_http` | 3 readings on 2 streams, one without a value; 2 failed uploads, 1 fault, 1 crash (835 900) | `NoLoss`, `EarlyRetriesBounded`, `OrderedUntilFailure`; `ImplementsPipe` |
| `telemetry_drain` | HTTP, MQTT or the mock client, a refused reading first, batches of one, fairness (139 953) | `Drains`; `Accounted` |
| `dispatch_requests` | 2 commands, 2 slots, requests of windows 0 and 1, 1 call that raises, 1 restart (487 714) | `OnePerCaller`, `NoOrphan`, `AckSticks`; `ImplementsLedger` |
| `control_policy` | 2 critical keys, both engines, 128 inputs (11 114) | `FreshMoves`, `ReserveKept`, `PowerCapped`, `ReversalSpaced` |
| `control_alias` | a third stream under an alias | **violated**: `FreshSiteOnline` |
| `device_registers` | 6 valid profiles and the executor without one, 7 commands, bytes of 16 values, a breaker of 2 writes in 2 ticks, 1 restart (542 690) | `AckedHolds`, `WriteRate`, `ValidatedProfileRuns`, `DecodesLayout` |
| `edge_status` | 2 points in groups of periods 1 and 2, 1 cycle that raises, 1 crash, fairness (495 564) | `CleanFileMeansCleanReads`, `FileIsRecent`; `DeadPointIsReported`, `HealthReturns` |
| `accounts_requests` | both modes, 2 addresses, either of them seeded, 2 threads, 4 requests, tokens minted for anybody, a service key, 1 restart (1 530 859) | `AccountsWhole`, `SeedUsable`, `LockoutNeedsTwo` |

Every run for safety also checks the `TypeOK` of its module (in Accounts it is a part of
`AccountsWhole`).

### Bounds, and why they are enough

- *Commands*: three are the least with which two share a key, a third does not, and the
  backlog (3) exceeds its limit (2). Two callers are the least that race; two crashes let
  recovery itself be interrupted; two faults let the except branch fail as well.
- *Telemetry*: two readings of one stream are the least that can be reordered; the third, on
  another stream and without a value, separates the order of a stream from that of the
  buffer. `ReplayLimit` 2 of 3 readings leaves a row unlisted. `BackoffCap` 4 and
  `PermanentBackoff` 5 keep the order of 60 and 999999, and `MaxAttempts` satisfies
  `SaturationAssumption`, so that the count where it saturates already waits the cap.
- *Dispatch*: two ids and two slots are the least that race. The windows are those of the
  requests, 30 s of an operator and `pending_ack_block_seconds` of the policy, so every
  request brings either; `MaxAge` 2 exceeds both, so rows fall out of each window in turn.
  One call that raises and one restart each reach every place of a request. Command ids are
  random in the code and slots are alike, so both are symmetric.
- *Control*: with `Interval` 1 a reading is fresh up to age 2 and `Old` 3 is the first stale
  age. `Skew` 1 puts timestamps on either side. `Duration` 3 is less than `Gap` 5, as 300 s
  is than 600 s, and `Cap` exceeds each by the oldest row, as
  `SiteAssumption` asks. `Input` holds charges below, between and above the reserves and
  the maximum, temperatures below, inside and above the derating, and the deficit and the
  surplus of power.
- *Registers*: every base of a byte that is even has the same arithmetic; with 16 a setpoint
  of 2.0 kW in tenths fits and one of 20.0 kW does not. The valid profiles are the built-in
  one, one without supported commands, one that confirms by readback and lacks a verify
  address, one that names a command twice, one that inherits everything and so loses
  its writes, and the map of `tests/edge/test_device_profiles.py:121-147`, which confirms
  power commands by the register of their setpoint; two more are refused by validation. Two writes in two ticks are the least
  window that can be full, slide, and be forgotten by a restart.
- *Supervisor*: `Interval` 1 with periods 1 and 2 and the group "verify" of period 1 gives
  cycles in which only the fast group, both, or the fallback is polled. `Slack` 1 lets a
  cycle run past its interval. One cycle that raises and one crash each reach every step.
- *Accounts*: two addresses let the seeded account be the one of the migrations or one that
  sign-ups race for; two threads are the least that race; four requests are the least with
  which two administrators change each other, each by a token obtained before. The service
  key has the role viewer: the default keys administer nothing, and of a key that does
  `LockoutNeedsTwo` promises nothing.
- Deadlock is checked except in `CloudDispatch`, where the ids run out (a request then
  stops before an INSERT that the code would make), in `Accounts`, where the requests run
  out and the tokens expire, and in `EdgeSupervisor`, which stops after a shutdown.

### Fairness

- `EdgeCommands!FairSpec`: weak fairness of the supervisor, because `run_forever` loops for
  as long as the process lives, and of a call of `submit_command` that has begun. That a
  gateway that crashed is started again is part of it: the promise that commands converge is
  one about a gateway that somebody restarts. No submission is owed, crashes and faults may stop, and
  the device need not follow a write.
- `TelemetryReplay!FairSpec`: weak fairness of the thread, of time and of the broker. The
  outage ends because failing uploads are bounded, not because an upload is fair. The
  thread may poll nothing for ever; a full buffer is drained all the same.
- `EdgeSupervisor!FairSpec`: weak fairness of the thread and of time in its pause. Nothing is
  assumed of the device, of faults and of a restart: the repository has no service unit that
  would start the gateway again, so both liveness properties are about a gateway that
  is up from some point on.
- `CloudDispatch`, `SiteControl`, `DeviceCommand` and `Accounts` have no liveness property and
  no fairness: the first three end with an answer, which an exception may be, and nothing
  retries it.

## 4. What the runs found

The three violated runs state a line of the repository that the code does not keep:

1. Two callers of `submit_command` both pass `has_unresolved_command` (`runtime.py:146`)
   and insert. Each row then blocks the other in every backlog pass (`runtime.py:168`)
   until a restart (`docs/NEXT_STEPS_EDGE_IMPLEMENTATION.md:185`). The theorem
   `StandoffLastsCorrect` proves it of any two unresolved rows: whatever happens next short
   of a crash, neither is resolved and nothing is written. With one caller no row is ever
   blocked (`NeverBlockedCorrect`).
2. Two deliveries of one id inside `submit_command` together: the later INSERT puts the
   executed row back to "queued" (`sqlite.py:206`) and the register is written again
   (same document, line 184). The theorem `DeliveriesBoundWritesCorrect` says what is left:
   not more writes than callers, however often each of them retries.
3. The empty stream of a canonical name shadows the alias that has data
   (`state_engine.py:50`), so a site that reports `pv_kw` and `load_kw`, the names that
   `docs/data-engineering.md:53` lists, is never online: the streams of both names
   exist on every site (`repository.py:116-143`).

Three more divergences were shown by runs that the properties below have replaced; what the
code does keep in each case is now a property and a theorem:

4. A failed row backs off while later ones of its stream are uploaded (`replay.py:48`;
   same document, line 244). `OrderedUntilFailure` says that nothing else reorders.
5. Over MQTT a row is deleted once the client has it in memory (`messaging.py:86`; same
   document, line 243), and without `paho-mqtt` once it was dropped (`messaging.py:85`).
   `Accounted` says which steps lose which readings with each client.
6. Two requests pass the pending check of `dispatch` (`dispatcher.py:30`) and both commands
   are sent (`docs/ARCHITECTURE.md:33`). `OnePerCaller` says what the check still gives, and
   the theorem `PendingBoundedCorrect` what that means for a device: of the commands younger
   than every block window in use, at most one for each request that is served at once.
   (A window belongs to the request: one of 10 s overlooks what one of 30 s would wait for.)

Seen while modelling, without a run of their own:

- Startup recovery acknowledges a queued command that was never applied when the device
  happens to show its effect (`runtime.py:62`). It need not be an old row: `submit_command`
  does not wait for the recovery, so a command that was accepted a moment before
  `list_unresolved_commands` is settled the same way in a process that never crashed.
  `AckedMeansApplied` names this as one of the two places where it can happen.
- Charging has no limit of its own. `docs/CONTROL_LOGIC.md:10` says
  `charge(min(max_charge_kw, ...))` and `migrations/0004_control_loop_schema.sql:75` stores that limit, but the
  policy only reads `max_discharge_kw` (`rule_engine.py:43`). `PowerCapped` speaks of the
  limit that is read, and the theorem `ChargeLimitUnread` says that whatever the other is, a
  surplus above it is charged once the discharge limit is above it too.
- In development mode `/dev-token` gives anybody a token with any subject and role
  (`auth.py:259-290`), so one person can act as several accounts, or as none, and
  the rules about the own account protect nobody; the same goes for a service key with
  a role that administers. `LockoutNeedsTwo` excludes both by name.
- A refusal waits 999999 s and is then tried again, while `docs/EDGE_RESILIENCE.md:306` says
  it is not retried.
- `optimize_run` makes an engine for each request (`control_loop.py:412`), so the minimum
  duration and the direction gap of `docs/BATTERY_POLICY.md:20-21` never apply to it.
  `SiteControl` has both kinds; `ReversalSpaced` is stated for a kept engine, and the theorem
  `MemorylessCorrect` says of the other that no decision depends on an earlier one.
- The policy table has no columns for the flags of alarm, fault or an unresolved critical
  command, nor for a tariff, so these branches only run for callers that build the policy
  themselves.
- A repository call that raises after the INSERT leaves its row queued
  (`dispatcher.py:53`, `:61`), as a restart does: nothing looks for such rows. `NoOrphan` counts
  them. `EA_COMMAND_MAX_RETRIES=0` leaves every row queued, and `NoOrphan` excludes it.
- A command can be acknowledged by the recovery without having been written
  (`commands.py:91`): where the readback compares the register itself, that is what the
  device does all the same; where it observes the power of the battery, it need not be.
  `AckedHolds` makes the difference.
- `price_import` and `price_export` are critical keys that no edge profile measures.
- A command of 0 kW is confirmed only while the battery still charges: a charge needs an
  observed power above the tolerance (`commands.py:140`), which it will not have for long.
  A mode that is not a whole number is rounded when it is written and cut when it is read
  back. A setpoint above 3276.7 kW wraps and changes its sign.
- The circuit breaker forgets its writes at a restart, so a minute sees up to the limit once
  more for each restart in it (`WriteRate`). `main.py` never passes
  `EDGE_MAX_WRITES_PER_MINUTE` to the executor.
- An artifact without commands inherits those of the built-in profile but not its
  `supports_writes` (`device_profiles.py:176`). Validation looks at the last point of a name and
  the executor uses the first. A register of type "coil" passes validation and makes the
  poller raise.
- While every cycle raises, the status file keeps its last, healthy content: `FileIsRecent` is
  stated for cycles that do not raise, and the age of the file is what an operator must
  watch. The first good cycle after a failure still reports "degraded".
- The heartbeat of the gateway reaches nobody: `EdgeCloudClient` has no `report_heartbeat`
  and the HTTP client of `messaging.py` swallows the error; over MQTT nobody subscribes.
- A sign-up that dies between its two INSERTs leaves an address that is taken for good with the
  role viewer. Two administrators who change each other leave none. The account that
  development mode seeds gets a second membership once its role was changed or when it is
  the account of the migrations, and then every change of its role fails on the unique
  index after its status was committed (`users.py:205`).
- Audit rows of updates and invites are never written: their details are a dict that psycopg
  cannot adapt, and `_log_audit` swallows the exception. `GET /users/invitations` and
  `GET /users/audit-log` are shadowed by `GET /users/{user_id}`. `list_users`, `invite_user` and
  `list_invitations` need an organization that a `Principal` does not have, so they answer
  403; `update_profile` with a time zone names a column that does not exist.
- The handlers that acknowledge or resolve an alert call `get` on the `Principal` dataclass and
  raise before their statement. The statements of the gateway API name columns
  (`provisioning_secret`, `metadata`) that no migration creates.

## 5. Proofs

The proofs are in the modules `*_proofs`, one for each component, and hold for every value
of the constants that the named assumptions of the module allow. Each property is proved
from an inductive invariant that says what the property itself leaves out.

**EdgeCommands.** Assumption: `CommandAssumption`. `TypeInv` is `TypeOK` with `Holding`:
past the gate the thread holds a real command that it has taken off its batch.
`ApplyExclusion` is not inductive: `MarkApplying` needs that no other row is applying,
which only the gate knew, a step earlier. `GateInv` keeps that fact, and an insert cannot
break it because new rows are "queued". `AtMostOneWrite` needs that a row listed as
"queued" is still queued when it is executed (`BatchInv`, `ProcessorInv`), that a row past
its checks has no row yet (`CallerInv`) and that a written command has left "queued" for
good (`WriteInv`). It also counts the writes of a key, which the unique index gives to one
row (`KeyInv`). It rests on `DistinctCallers`: no id is delivered by two callers, and
`commands_duplicate` shows that it fails without. Without the assumption
`DeliveriesBoundWrites` is proved by counting: the writes of a command, with one more
while it may still be executed and one for each caller that is past its checks, are never
more than its callers (`BudgetInv`), since every insert found a caller that passed its
checks before there was a row. `WriteAhead` and `ImplementsJournal` follow from the
invariants of `ApplyExclusion` and `AtMostOneWrite`, the latter with one journal step or a stutter for each action.
`TerminalIsFinal`, also under `DistinctCallers`, needs that without a store fault only a
device call raises, and that it raises while the row is "applying" (`RaisedInv`): the
except branch then overwrites nothing that was resolved. `AckedMeansApplied` needs no
assumption: a verdict of the backlog is positive only after the write when the row was
listed as "queued" (`VerdictInv`), and without a store fault no other row is "applying"
outside the recovery, because a crash leaves one behind and the recovery resolves it before
the backlog lists it (`OnlyRecoveryFindsApplying`). `OneOutstanding` rests on `OneCaller` and on a caller past the
gate being alone with an empty backlog (`SerialInv`); from the same comes `NeverBlocked`.
`StandoffLasts` needs nothing but types: each of two unresolved rows blocks the other in
every pass (`AllBlocked`), and an insert can only make a row "queued".

**TelemetryReplay.** Assumptions: `ReplayAssumption`, `SaturationAssumption`. `NoLoss`,
`OrderedUntilFailure` and `ImplementsPipe` are proved of the behaviours that start with
`transport = "http"`, whatever other gateways use: no step changes the mode
(`KeepTransport`). `LoopInv` says that what the thread holds is still buffered, and
`SettleInv` that what was sent is stored. `EarlyRetriesBounded` is a counting argument: a
row that owes more backoff than its `next_attempt_at` (or than the delay about to be
saved) is in debt. Only a crash or a failing UPDATE puts a row into debt, one at a time,
and an early upload takes one out, so early uploads and debts together stay below crashes
and faults (`DebtInv`). It holds over MQTT too. `Accounted` is about every client
and every step: over MQTT none but a crash makes a reading lost, because the row that waits
for its DELETE is in the client or at the broker (`OutboxInv`), and a crash makes lost
only what waited in the client; the mock client loses the row in hand and no other. `OrderedUntilFailure` needs that, until the first failed
upload, every row that is not stored is due, and no listing and no head of a batch passes
it by (`OrderInv`).

**CloudDispatch.** Assumption: `DispatchAssumption`. `CheckInv` is what the check of a request
is worth once others may insert: none of the commands of *its own* slot is pending in its
window. `HoldInv` says that a request past its INSERT is alone on its row, which is queued or
already acknowledged. `OnePerCaller` and `AckSticks` follow; rows of one slot that are equally
old need `AgeInv`, because ages saturate. `NoOrphan` is a counting argument: a call that
raises orphans one row at most, a restart one for each slot, every other step none
(`OrphanInv`). `PendingBounded` follows from `OnePerCaller`: of the commands younger than every window,
the slot that made one is an injection into the slots. `ImplementsLedger` is proved step by step: an INSERT that keeps the unique constraint
(`KeyOnce`) issues, the first write of "acked" or "failed" settles, and every other status
write is a stutter, because it leaves `acked_at` as it is.

**SiteControl.** Assumption: `SiteAssumption`. `RowInv` bounds how far a timestamp is
ahead of its reading, `MoveInv` says that a movement was decided online, `EngineInv` ties
the memory of the engine to the last movement. A later idle may replace the direction, but
it restarts the minimum duration, which is why `ReversalSpaced` holds with `Duration`
then; when the engine still remembers the movement it holds with `Gap` too. `NotWithin`
turns the two clocks into the `Skew` of both bounds. An engine of the request remembers
nothing (`EngineInv` again), which is `Memoryless`. `ReserveKept` and `PowerCapped` are proved by the
branches of `Decision`; the derating divides a product of constants, which gets lemmas of
its own. `ChargeLimitUnread` takes `Memoryless` and computes the charge that the
surplus gives.

**DeviceCommand.** Assumptions: `CommandAssumption` and `BaseAssumption`: a byte has any
even number of values. `WriteRate` is about the tail of a list of ages: for *every* bound
up to the window, the writes younger than it are at most those that the restarts younger
than it allow and those the breaker remembers (`RateInv`); the property is the case of the
whole window, and `Tick` needs all the others. `ValidatedProfileRuns` needs that where
every name comes once, the point that was validated is the one that is used. `AckedHolds`
is about every profile that passes validation, without an assumption on what it says: which
acknowledgements mean something is read off the point itself (`ReadsBack`, `Observed`).
`CallInv` keeps what was written while the command is in hand, `AckInv` keeps it until
another write; a readback of the written register proves what it holds also when the write
never happened, and that the battery cannot move against a register that was confirmed comes
from `RoundTrip`. `DecodesLayout` is proved from the
bytes up: a number has one quotient and one remainder, so the bytes of the number that
some bytes stand for are these bytes (`BigEndianOf`), and turning bytes or words round
twice is the identity (`Turned`).

**EdgeSupervisor.** Assumption: `SupervisorAssumption`. `CleanFileMeansCleanReads` needs
that a failed read has left a count of errors in the same process, also when the cycle
raised (`MarkInv`), and that whatever made the loop degraded or the device unhealthy has
left one too, so a file without a fault is not degraded either. `FileIsRecent`
needs the sum of the age of the file and its timer, and that once the timer has run out
only the rest of that cycle and the work of the next are left (`AgeInv`).

**Accounts.** Assumption: `AccountsAssumption`. The inductive invariant is `TypeOK` with
what each request decided by and still relies on (`RequestInv`), the keys (`KeyInv`), that
only the seeding gives an account a membership before its sign-up does or a second one
(`MemberInv`), that a seeded account stays usable (`SeedInv`), and that whoever may still
act while nobody else has changed anybody, and nothing was minted, is an administrator, also
by an old token or a request already let in (`AdminInv`). An acting service key is no account
and becomes a meddler of its own, which `LockoutNeedsTwo` names.

**Only model-checked.** The liveness properties `Converges`, `Drains`, `DeadPointIsReported` and
`HealthReturns`: liveness under fairness is out of the prover's reach. Every safety property of
the passing runs is proved. The converse also occurs: `DeliveriesBoundWrites`, `NeverBlocked`,
`StandoffLasts`, `PendingBounded`, `Memoryless` and `ChargeLimitUnread` are theorems only, consequences of the
invariants that the runs check or of what the violated runs found.

## 6. What is abstracted, and what is left out

- A payload is the effect that a readback tells apart; register addresses, scaling and the
  window of the circuit breaker are not in `EdgeCommands` (a refusal is one of the outcomes
  of an execution).
- The backlog is visited in any order. The code's order is one of them.
- Wall clocks are not set back. On the edge that would delay rows in backoff.
- One cycle of the gateway takes less than 999999 s (`CycleSeconds` below
  `PermanentBackoff` in the runs), otherwise a refused row would be due again.
- `paho-mqtt` is not a dependency of the project: without it the MQTT client runs in a
  mock mode that accepts and drops messages (`messaging.py:85`). The model has both. Of what
  reaches the broker nothing under `src` makes telemetry, so it is never stored.
- A repository call of the cloud raises before or after its transaction took effect; the
  exception ends the request. Reads that raise change nothing and are left out.
- A send of the dispatcher is refused for its arguments alone, so its retries are one step.
- Values of readings are chosen when they are read, not when they arrive: the policy only
  reads the newest row, and any value of it is considered.
- Time-of-use tariffs are not reachable through the policy table, so the price is cheap
  or not.
- The power of a battery is its setpoint or zero; targets are in tenths, which is the default
  scale, and a float32 stands for its bit pattern, so scaling a decoded value is left out.
- The supervisor keeps of the error counts whether they are zero: nothing resets them.
- Tokens and password hashes are left to their libraries: a token is a user and a role,
  a password one of two values. A token that carries several roles acts with one of them; a
  subject that is no id of an account is one value, and so are the subjects of service keys.
- `JWT_SECRET` and `EA_JWT_SECRET` are taken to be one secret: a login signs with the
  first and requests are checked with the second (`auth.py:161`, `security.py:123`).

**Not modelled**, with the reason:

- `edge/backoff.py`: only its own test uses it; the replay has delays of its own.
- Alerts: both handlers that would change a state raise before their statement, and no other
  caller exists, so an alert stays open.
- Edge gateways: the statements name columns that no migration creates, and no client sends a
  heartbeat; there is no run of this code to model.
- Invitations, and the reading endpoints of `routers/users.py`: always refused, or without effect.
- Savings, ROI and the simulation engine: one pass of floating point arithmetic over given
  numbers, without state and out of TLC's reach.
- Repository methods of a single statement for sites, devices, mappings, runs and simulations;
  the application shell; the user interface.

## 7. Plan

Done: the edge command path, telemetry replay, cloud dispatch, site control, the registers and
the breaker of the executor, the supervisor, the accounts, in the order of what is worst when
it goes wrong. Left, if the code changes so that it can run:

1. **Alerts** and **Gateways**, once their handlers reach their statements: states under
   concurrent operators, heartbeats that stop.
2. **SiteLoop**: `SiteControl` composed with `CloudDispatch`, where the decision of a request
   becomes the argument of its dispatch and the newest row is read before a concurrent ingest.
3. A growing `telemetry_buffer`: the model bounds the number of readings, so the missing row
   limit of `sqlite.py:110` cannot show.
