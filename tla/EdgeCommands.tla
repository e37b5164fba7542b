---------------------------- MODULE EdgeCommands ----------------------------
(***************************************************************************)
(* The command path of the edge gateway: the durable command queue         *)
(* (edge/storage/sqlite.py), the callers of submit_command, the supervisor *)
(* thread that recovers and then works off the backlog (edge/runtime.py,   *)
(* edge/supervisor.py) and the device behind the executor                  *)
(* (edge/commands.py).                                                     *)
(*                                                                         *)
(* Every SQLite statement is a transaction of its own, so each read and    *)
(* each write of the store is one step, and the steps of the submitters    *)
(* fall between those of the supervisor thread.  A crash loses everything  *)
(* but the queue and the device.                                           *)
(*                                                                         *)
(* Abstractions.  One site: a gateway's queue holds the rows of its site.  *)
(* A payload is the effect a readback can tell apart (power positive,      *)
(* negative or near zero).  The backlog is listed in updated_at order; the *)
(* model takes it in any order.  attempt_count, last_error and the         *)
(* reconciliation log are written and never read by the control, so only   *)
(* the failure of such a write is kept.                                    *)
(***************************************************************************)
EXTENDS Naturals, FiniteSets

CONSTANTS
    Command,        \* command ids
    Submitter,      \* concurrent callers of submit_command
    Submits,        \* Submits[s]: the command ids that s submits
    KeyOf,          \* KeyOf[c]: the idempotency key sent with c, or NoKey
    NoKey,
    Effect,         \* what a readback can observe
    Target,         \* Target[c]: the effect that c asks for
    NoCommand,
    BacklogLimit,   \* process_command_backlog(limit)
    MaxCrashes,     \* bound: crashes of the process
    MaxFaults       \* bound: failing store transactions

ASSUME CommandAssumption ==
    /\ NoCommand \notin Command
    /\ Submits \in [Submitter -> SUBSET Command]
    /\ Target \in [Command -> Effect]
    /\ BacklogLimit \in Nat
    /\ MaxCrashes \in Nat
    /\ MaxFaults \in Nat

VARIABLES
    status,     \* command_queue.status of each id; "absent": no row
    device,     \* the effect the device shows on a read
    writes,     \* history: register writes made for each command
    pc,         \* control point of the supervisor thread
    batch,      \* listed rows still to visit, with the status they were listed with
    cmd,        \* the command being processed
    seen,       \* the status cmd was listed with
    ok,         \* the verdict of the executor
    spc,        \* control point of each submitter
    scmd,       \* the command each submitter is submitting
    crashes, faults

queueVars  == <<status>>
deviceVars == <<device, writes>>
procVars   == <<pc, batch, cmd, seen, ok>>
subVars    == <<spc, scmd>>
boundVars  == <<crashes, faults>>
vars == <<status, device, writes, pc, batch, cmd, seen, ok, spc, scmd, crashes, faults>>

Unresolved == {"queued", "sent", "applying"}
Terminal   == {"acked", "failed"}
Status     == Unresolved \cup Terminal \cup {"absent"}

ProcState == {"down", "starting", "recovering", "recovered", "idle", "batch", "gated", "marked",
              "written", "verdict", "saved", "raised"}
SubState  == {"idle", "deduped", "gated", "rechecked"}

NoBatch == [c \in Command |-> "absent"]
Backlog == {c \in Command : status[c] \in Unresolved}

TypeOK ==
    /\ status \in [Command -> Status]
    /\ device \in Effect
    /\ writes \in [Command -> Nat]
    /\ pc \in ProcState
    /\ batch \in [Command -> Unresolved \cup {"absent"}]
    /\ cmd \in Command \cup {NoCommand}
    /\ seen \in Unresolved \cup {"absent"}
    /\ ok \in BOOLEAN
    /\ spc \in [Submitter -> SubState]
    /\ scmd \in [Submitter -> Command \cup {NoCommand}]
    /\ crashes \in 0 .. MaxCrashes
    /\ faults \in 0 .. MaxFaults

Init ==
    /\ status = [c \in Command |-> "absent"]
    /\ device \in Effect
    /\ writes = [c \in Command |-> 0]
    /\ pc = "down"
    /\ batch = NoBatch
    /\ cmd = NoCommand
    /\ seen = "absent"
    /\ ok = FALSE
    /\ spc = [s \in Submitter |-> "idle"]
    /\ scmd = [s \in Submitter |-> NoCommand]
    /\ crashes = 0
    /\ faults = 0

-----------------------------------------------------------------------------
(* submit_command, called by external systems while the process is up: it does *)
(* not ask whether the startup recovery has run.                               *)

\* get_command by id, then by (site, idempotency key), finds a row
Known(c) ==
    \/ status[c] # "absent"
    \/ KeyOf[c] # NoKey /\ \E d \in Command : status[d] # "absent" /\ KeyOf[d] = KeyOf[c]

SubGoto(s, point, c) ==
    /\ spc' = [spc EXCEPT ![s] = point]
    /\ scmd' = [scmd EXCEPT ![s] = c]

\* runtime.py:137-144 -- a known command is answered "deduplicated"
SubmitDedup(s, c) ==
    /\ pc # "down" /\ spc[s] = "idle" /\ c \in Submits[s]
    /\ ~Known(c)
    /\ SubGoto(s, "deduped", c)
    /\ UNCHANGED <<queueVars, deviceVars, procVars, boundVars>>

\* Mutant: the gate is not consulted.
SubmitGate_Open(s) ==
    /\ spc[s] = "deduped"
    /\ SubGoto(s, "gated", scmd[s])
    /\ UNCHANGED <<queueVars, deviceVars, procVars, boundVars>>

\* runtime.py:146-147 -- an unresolved command of the site blocks the caller
SubmitGate(s) ==
    /\ spc[s] = "deduped"
    /\ IF Backlog = {} THEN SubGoto(s, "gated", scmd[s])
                       ELSE SubGoto(s, "idle", NoCommand)
    /\ UNCHANGED <<queueVars, deviceVars, procVars, boundVars>>

\* sqlite.py:192-198 -- upsert_command looks the command up once more
UpsertRecheck(s) ==
    /\ spc[s] = "gated"
    /\ IF Known(scmd[s]) THEN SubGoto(s, "idle", NoCommand)
                         ELSE SubGoto(s, "rechecked", scmd[s])
    /\ UNCHANGED <<queueVars, deviceVars, procVars, boundVars>>

\* another row already holds the (site, idempotency key) of c
KeyTaken(c) ==
    KeyOf[c] # NoKey /\ \E d \in Command \ {c} : status[d] # "absent" /\ KeyOf[d] = KeyOf[c]

\* sqlite.py:200-213 -- INSERT; on a conflict of command_id the row goes back
\* to "queued", on a conflict of the key the statement raises to the caller
UpsertInsert(s) ==
    /\ spc[s] = "rechecked"
    /\ IF KeyTaken(scmd[s]) THEN UNCHANGED status
                            ELSE status' = [status EXCEPT ![scmd[s]] = "queued"]
    /\ SubGoto(s, "idle", NoCommand)
    /\ UNCHANGED <<deviceVars, procVars, boundVars>>

-----------------------------------------------------------------------------
(* Startup recovery: supervisor.py:57, runtime.py:52-82 *)

\* Mutant: the listing has no WHERE clause.
Listing_AllRows == status

Listing == [c \in Command |-> IF c \in Backlog THEN status[c] ELSE "absent"]

\* runtime.py:53-55 -- the tables exist and the telemetry has been counted; the
\* rows of the queue are not listed yet
Boot ==
    /\ pc = "down"
    /\ pc' = "starting"
    /\ UNCHANGED <<queueVars, deviceVars, batch, cmd, seen, ok, subVars, boundVars>>

\* runtime.py:56 -- what callers have queued since the start is listed as well
ListUnresolved ==
    /\ pc = "starting"
    /\ pc' = "recovering"
    /\ batch' = Listing
    /\ UNCHANGED <<queueVars, deviceVars, cmd, seen, ok, subVars, boundVars>>

\* Mutant: an outcome outside the five statuses is saved as it comes
\* (runtime.py:63-64 dropped).
RecoverCommand_Raw(c) ==
    /\ pc = "recovering" /\ batch[c] # "absent"
    /\ status' = [status EXCEPT ![c] = "reconciled"]
    /\ batch' = [batch EXCEPT ![c] = "absent"]
    /\ cmd' = c
    /\ pc' = "recovered"
    /\ UNCHANGED <<deviceVars, seen, ok, subVars, boundVars>>

\* main.py:96-101 -- reconcile_fn reads the device back and never writes; a
\* failing read or an unsupported command makes it "failed"
RecoverCommand(c) ==
    /\ pc = "recovering" /\ batch[c] # "absent"
    /\ \E matched \in {device = Target[c], FALSE} :
          status' = [status EXCEPT ![c] = IF matched THEN "acked" ELSE "failed"]
    /\ batch' = [batch EXCEPT ![c] = "absent"]
    /\ cmd' = c
    /\ pc' = "recovered"
    /\ UNCHANGED <<deviceVars, seen, ok, subVars, boundVars>>

LogRecovery ==
    /\ pc = "recovered"
    /\ pc' = "recovering" /\ cmd' = NoCommand
    /\ UNCHANGED <<queueVars, deviceVars, batch, seen, ok, subVars, boundVars>>

RecoveryDone ==
    /\ pc = "recovering" /\ batch = NoBatch
    /\ pc' = "idle"
    /\ UNCHANGED <<queueVars, deviceVars, batch, cmd, seen, ok, subVars, boundVars>>

-----------------------------------------------------------------------------
(* process_command_backlog: runtime.py:158-197 *)

\* the rows listed in one pass: the backlog, cut at the limit
ListBacklog ==
    /\ pc = "idle"
    /\ \E rows \in SUBSET Backlog :
          /\ rows = Backlog \/ Cardinality(rows) = BacklogLimit
          /\ Cardinality(rows) <= BacklogLimit
          /\ batch' = [c \in Command |-> IF c \in rows THEN status[c] ELSE "absent"]
    /\ pc' = "batch"
    /\ UNCHANGED <<queueVars, deviceVars, cmd, seen, ok, subVars, boundVars>>

\* Mutant: has_unresolved_command(site) without the exception.
Blocked_Self(c) == Backlog # {}

\* Mutant: the backlog has no safety block.
Blocked_Never(c) == FALSE

\* has_unresolved_command(site, except c)
Blocked(c) == Backlog \ {c} # {}

GateCommand(c) ==
    /\ pc = "batch" /\ batch[c] # "absent"
    /\ batch' = [batch EXCEPT ![c] = "absent"]
    /\ IF Blocked(c) THEN UNCHANGED <<pc, cmd, seen>>
                     ELSE pc' = "gated" /\ cmd' = c /\ seen' = batch[c]
    /\ UNCHANGED <<queueVars, deviceVars, ok, subVars, boundVars>>

\* Mutant: the journal is not written ahead of the device.
MarkApplying_NotSaved ==
    /\ pc = "gated"
    /\ pc' = "marked"
    /\ UNCHANGED <<queueVars, deviceVars, batch, cmd, seen, ok, subVars, boundVars>>

MarkApplying ==
    /\ pc = "gated"
    /\ status' = [status EXCEPT ![cmd] = "applying"]
    /\ pc' = "marked"
    /\ UNCHANGED <<deviceVars, batch, cmd, seen, ok, subVars, boundVars>>

\* Mutant: a refusal counts as a success.
ExecuteRefused_Ok ==
    /\ pc = "marked" /\ seen = "queued"
    /\ pc' = "verdict" /\ ok' = TRUE
    /\ UNCHANGED <<queueVars, deviceVars, batch, cmd, seen, subVars, boundVars>>

\* execute_and_reconcile of a row listed as queued: circuit breaker, profile or
\* read-only mode refuse, or the register is written
ExecuteRefused ==
    /\ pc = "marked" /\ seen = "queued"
    /\ pc' = "verdict" /\ ok' = FALSE
    /\ UNCHANGED <<queueVars, deviceVars, batch, cmd, seen, subVars, boundVars>>

\* the device may follow a write or hold its state (an inverter clamps)
DeviceWrite ==
    /\ writes' = [writes EXCEPT ![cmd] = @ + 1]
    /\ device' \in {Target[cmd], device}

\* Mutant: a row found "applying" is executed again.
ExecuteWrite_Always ==
    /\ pc = "marked"
    /\ DeviceWrite
    /\ pc' = "written"
    /\ UNCHANGED <<queueVars, batch, cmd, seen, ok, subVars, boundVars>>

ExecuteWrite ==
    /\ pc = "marked" /\ seen = "queued"
    /\ DeviceWrite
    /\ pc' = "written"
    /\ UNCHANGED <<queueVars, batch, cmd, seen, ok, subVars, boundVars>>

\* write_single_register raises, before or after the request reached the device
ExecuteRaises ==
    /\ pc = "marked" /\ seen = "queued"
    /\ \/ DeviceWrite
       \/ UNCHANGED deviceVars
    /\ pc' = "raised"
    /\ UNCHANGED <<queueVars, batch, cmd, seen, ok, subVars, boundVars>>

\* reconcile_only of a row listed as sent or applying: no write
ReconcileOnly ==
    /\ pc = "marked" /\ seen # "queued"
    /\ pc' = "written"
    /\ UNCHANGED <<queueVars, deviceVars, batch, cmd, seen, ok, subVars, boundVars>>

\* _reconcile_profile_command: a value that matches, one that does not (also a
\* point without readback), or a read that raises
Readback ==
    /\ pc = "written"
    /\ \/ pc' = "verdict" /\ ok' \in {device = Target[cmd], FALSE}
       \/ pc' = "raised" /\ ok' = ok
    /\ UNCHANGED <<queueVars, deviceVars, batch, cmd, seen, subVars, boundVars>>

SaveVerdict ==
    /\ pc = "verdict"
    /\ status' = [status EXCEPT ![cmd] = IF ok THEN "acked" ELSE "failed"]
    /\ pc' = "saved"
    /\ UNCHANGED <<deviceVars, batch, cmd, seen, ok, subVars, boundVars>>

\* back to the loop once the reconciliation log is appended
NextInBatch ==
    /\ pc' = "batch" /\ cmd' = NoCommand /\ seen' = "absent" /\ ok' = FALSE
    /\ UNCHANGED batch

LogVerdict ==
    /\ pc = "saved"
    /\ NextInBatch
    /\ UNCHANGED <<queueVars, deviceVars, subVars, boundVars>>

\* runtime.py:190-194 -- the except branch
FailOnException ==
    /\ pc = "raised"
    /\ status' = [status EXCEPT ![cmd] = "failed"]
    /\ NextInBatch
    /\ UNCHANGED <<deviceVars, subVars, boundVars>>

FinishBatch ==
    /\ pc = "batch" /\ batch = NoBatch
    /\ pc' = "idle"
    /\ UNCHANGED <<queueVars, deviceVars, batch, cmd, seen, ok, subVars, boundVars>>

-----------------------------------------------------------------------------
(* Failing store transactions (locked or full database) *)

StoreFault == faults < MaxFaults /\ faults' = faults + 1

ForgetCommand ==
    /\ batch' = NoBatch /\ cmd' = NoCommand /\ seen' = "absent" /\ ok' = FALSE

\* saving or logging a verdict raises inside the try: the except branch runs
FaultInTry ==
    /\ pc \in {"verdict", "saved"}
    /\ StoreFault
    /\ pc' = "raised"
    /\ UNCHANGED <<queueVars, deviceVars, batch, cmd, seen, ok, subVars, crashes>>

\* any other statement raises out of process_command_backlog; the supervisor
\* logs it and goes on with its loop (supervisor.py:100-105).  The except
\* branch may have saved "failed" before its own log append raised.
FaultOutsideTry ==
    /\ pc \in {"idle", "batch", "gated", "raised"}
    /\ StoreFault
    /\ \/ UNCHANGED status
       \/ pc = "raised" /\ status' = [status EXCEPT ![cmd] = "failed"]
    /\ pc' = "idle"
    /\ ForgetCommand
    /\ UNCHANGED <<deviceVars, subVars, crashes>>

\* startup recovery: saving the outcome of c, or logging that of cmd, raises and
\* the except branch makes the row "failed"
FaultInRecovery(c) ==
    /\ \/ pc = "recovering" /\ batch[c] # "absent"
       \/ pc = "recovered" /\ c = cmd
    /\ StoreFault
    /\ status' = [status EXCEPT ![c] = "failed"]
    /\ batch' = [batch EXCEPT ![c] = "absent"]
    /\ pc' = "recovering" /\ cmd' = NoCommand
    /\ UNCHANGED <<deviceVars, seen, ok, subVars, crashes>>

\* the process dies (a kill, a power loss, an exception run_forever re-raises):
\* the supervisor and the submitters lose their place
Crash ==
    /\ pc # "down" /\ crashes < MaxCrashes
    /\ crashes' = crashes + 1
    /\ pc' = "down"
    /\ ForgetCommand
    /\ spc' = [s \in Submitter |-> "idle"]
    /\ scmd' = [s \in Submitter |-> NoCommand]
    /\ UNCHANGED <<queueVars, deviceVars, faults>>

\* the device moves on its own: battery full, local operator, grid event
DeviceDrift ==
    /\ device' \in Effect \ {device}
    /\ UNCHANGED <<queueVars, writes, procVars, subVars, boundVars>>

-----------------------------------------------------------------------------
Submit(s) ==
    \/ \E c \in Command : SubmitDedup(s, c)
    \/ SubmitGate(s)
    \/ UpsertRecheck(s)
    \/ UpsertInsert(s)

Recovery ==
    \/ Boot
    \/ ListUnresolved
    \/ \E c \in Command : RecoverCommand(c)
    \/ LogRecovery
    \/ RecoveryDone

ProcessBacklog ==
    \/ ListBacklog
    \/ \E c \in Command : GateCommand(c)
    \/ MarkApplying
    \/ ExecuteRefused
    \/ ExecuteWrite
    \/ ExecuteRaises
    \/ ReconcileOnly
    \/ Readback
    \/ SaveVerdict
    \/ LogVerdict
    \/ FailOnException
    \/ FinishBatch

Fault ==
    \/ FaultInTry
    \/ FaultOutsideTry
    \/ \E c \in Command : FaultInRecovery(c)

Supervisor == Recovery \/ ProcessBacklog

Next ==
    \/ \E s \in Submitter : Submit(s)
    \/ Supervisor
    \/ Fault
    \/ Crash
    \/ DeviceDrift

Spec == Init /\ [][Next]_vars

\* run_forever loops for as long as the process lives, a gateway that crashed
\* is started again, and a call of submit_command that has begun returns
FairSpec ==
    /\ Spec
    /\ WF_vars(Supervisor)
    /\ \A s \in Submitter : WF_vars(SubmitGate(s) \/ UpsertRecheck(s) \/ UpsertInsert(s))

-----------------------------------------------------------------------------
(* Properties *)

\* A command, and with it the idempotency key it was sent with, reaches the
\* device registers at most once, whatever crashes, restarts and retries of the
\* caller fall between: "applying" is saved before the write, a row found
\* "applying" is only read back (runtime.py:173-179), and a request repeated
\* under another id is answered with the row it already has (sqlite.py:192-206).
AtMostOneWrite ==
    /\ \A c \in Command : writes[c] <= 1
    /\ \A c, d \in Command :
          writes[c] > 0 /\ writes[d] > 0 /\ KeyOf[c] # NoKey /\ KeyOf[c] = KeyOf[d] => c = d

\* No two commands are ever being applied at the same time, even when several
\* callers slipped past the submission gate (runtime.py:168).
ApplyExclusion == \A c, d \in Command : status[c] = "applying" /\ status[d] = "applying" => c = d

\* The journal runs ahead of the device: at every register write the command's
\* row already says "applying" and no other row does, so a crash at any point
\* leaves a row that says which command may have reached the device.
WriteAhead ==
    [][\A c \in Command : writes'[c] # writes[c] =>
          /\ status[c] = "applying"
          /\ \A d \in Command \ {c} : status[d] # "applying"]_vars

\* With one caller at a time the site has at most one unresolved command
\* (runtime.py:146), across restarts and store faults too.
OneOutstanding == Cardinality(Backlog) <= 1

\* A resolved command keeps its verdict through recoveries, backlog passes,
\* crashes and late inserts.  One thing takes a verdict back: a store fault
\* between "acked" and its log record, where the except branch writes "failed"
\* over it (runtime.py:183, :190), and it reaches only the command in hand.
TerminalIsFinal ==
    [][\A c \in Command : status[c] \in Terminal /\ status'[c] # status[c] =>
          /\ faults' > 0 /\ c = cmd
          /\ status[c] = "acked" /\ status'[c] = "failed"]_vars

\* "acked" is saved for a command without a register write of its own in two
\* places only, across any crashes: by the startup recovery, which takes the
\* effect it reads from the device for that of the row (runtime.py:62), also
\* when the row was queued a moment ago by a caller that did not wait for the
\* recovery; and, once a store transaction has failed, by a pass that finds
\* the row it had left "applying" (runtime.py:176).
AckedMeansApplied ==
    [][\A c \in Command : status[c] # "acked" /\ status'[c] = "acked" =>
          \/ writes[c] > 0
          \/ pc = "recovering" /\ device = Target[c]
          \/ faults > 0 /\ seen = "applying"]_vars

\* Every command that was accepted into the queue is acknowledged or failed.
Converges == \A c \in Command : (status[c] \in Unresolved) ~> (status[c] \in Terminal)

-----------------------------------------------------------------------------
(* The inductive invariant behind the properties above *)

\* No command id is sent by two callers: what AtMostOneWrite rests on, because
\* the INSERT of a second delivery puts an existing row back to "queued".
DistinctCallers == \A s, t \in Submitter : s # t => Submits[s] \cap Submits[t] = {}

Holding ==
    pc \in {"gated", "marked", "written", "verdict", "saved", "raised", "recovered"}
        => cmd \in Command /\ batch[cmd] = "absent"

\* nobody else is applying when the gate has let a command through
GateInv ==
    /\ ApplyExclusion
    /\ pc = "gated" => \A d \in Command \ {cmd} : status[d] # "applying"

\* a caller past its checks submits an id of its own that has no row yet
CallerInv ==
    \A s \in Submitter : spc[s] # "idle" =>
        /\ scmd[s] \in Submits[s]
        /\ spc[s] = "rechecked" => status[scmd[s]] = "absent"

\* the snapshot of a listing is not stale for the rows still to visit
BatchInv == \A c \in Command : batch[c] # "absent" => status[c] = batch[c]

ProcessorInv ==
    /\ pc = "gated" => status[cmd] = seen /\ seen # "absent"
    /\ pc \in {"marked", "written", "verdict"} => status[cmd] = "applying"
    /\ pc \in {"saved", "raised", "recovered"} => status[cmd] \notin {"absent", "queued"}
    /\ pc = "marked" /\ seen = "queued" => writes[cmd] = 0

\* a command that was written has left "queued" for good
WriteInv == \A c \in Command :
    /\ writes[c] <= 1
    /\ writes[c] > 0 => status[c] \notin {"absent", "queued"}

JournalInv == CallerInv /\ BatchInv /\ ProcessorInv /\ WriteInv

\* the callers that send c, and those of them that are about to insert it
Senders(c) == {s \in Submitter : c \in Submits[s]}
Inserting(c) == {s \in Submitter : spc[s] = "rechecked" /\ scmd[s] = c}

\* the writes of c made so far, and those that the row of c still entitles to
Granted(c) ==
    writes[c] + (IF status[c] = "queued" THEN 1 ELSE 0)
              + (IF pc = "marked" /\ cmd = c /\ seen = "queued" THEN 1 ELSE 0)

\* However often a command is delivered, what can multiply its writes is only
\* the number of callers that deliver it at once: retries one after the other
\* are answered from the row, and every insert grants one write.
DeliveriesBoundWrites == \A c \in Command : writes[c] <= Cardinality(Senders(c))

\* rows do not vanish, and one listed as "queued" is queued until it is marked,
\* also when a second delivery puts an "applying" row back to "queued"
RowInv ==
    /\ \A c \in Command : batch[c] # "absent" =>
          status[c] # "absent" /\ (batch[c] = "queued" => status[c] = "queued")
    /\ pc = "gated" /\ seen = "queued" => status[cmd] = "queued"
    /\ pc \in {"gated", "marked", "written", "verdict", "saved", "raised", "recovered"}
          => status[cmd] # "absent"
    /\ \A s \in Submitter : spc[s] # "idle" => scmd[s] \in Submits[s]

\* the unique index of the table: a key has one row
KeyInv == \A c, d \in Command :
    status[c] # "absent" /\ status[d] # "absent" /\ KeyOf[c] # NoKey /\ KeyOf[c] = KeyOf[d] => c = d

\* every write is paid for by a delivery that passed its checks before the row
\* existed
BudgetInv == \A c \in Command :
    /\ status[c] = "absent" => writes[c] = 0
    /\ Granted(c) + Cardinality(Inserting(c)) <= Cardinality(Senders(c))

DeliveryInv == RowInv /\ KeyInv /\ BudgetInv

\* Where an "applying" row may be met.  A crash leaves one behind, but the
\* recovery of the next start resolves it before the backlog lists it.
OnlyRecoveryFindsApplying ==
    /\ seen # "applying"
    /\ \A c \in Command :
          /\ status[c] = "applying" =>
                \/ pc \in {"down", "starting"}
                \/ pc \in {"recovering", "recovered"} /\ batch[c] # "absent"
                \/ pc \in {"marked", "written", "verdict", "raised"} /\ c = cmd
          /\ batch[c] = "applying" => pc \in {"recovering", "recovered"}

\* a row is tried only when it was listed as "queued", and then its verdict
\* comes after its write
VerdictInv ==
    /\ \A c \in Command : status[c] # "sent" /\ batch[c] # "sent"
    /\ seen # "sent"
    /\ pc \in {"gated", "marked", "written", "verdict"} => seen # "absent"
    /\ pc = "down" => batch = NoBatch /\ seen = "absent"
    /\ pc \in {"starting", "recovering", "recovered", "idle", "batch"} => seen = "absent"
    /\ pc = "written" /\ seen = "queued" => writes[cmd] > 0
    /\ pc = "verdict" /\ ok /\ seen = "queued" => writes[cmd] > 0
    /\ faults = 0 => OnlyRecoveryFindsApplying

\* a single caller past the gate has nothing else outstanding
SerialInv ==
    /\ \A c, d \in Backlog : c = d
    /\ \A s \in Submitter : spc[s] \in {"gated", "rechecked"} => Backlog = {}

\* Two unresolved rows and a thread that is past its recovery: each of them
\* blocks the other in every pass (runtime.py:168), and no step but a crash
\* resolves either.
Standoff == pc \in {"idle", "batch"} /\ \E c, d \in Backlog : c # d

StandoffLasts ==
    [][Standoff /\ crashes' = crashes =>
          /\ Standoff'
          /\ \A c \in Backlog : status'[c] \in Unresolved
          /\ UNCHANGED writes]_vars

\* With one caller at a time no listed row is ever blocked by another one.
NeverBlocked == \A c \in Command : pc = "batch" /\ batch[c] # "absent" => ~Blocked(c)

-----------------------------------------------------------------------------
(* What the command path promises its callers: CommandJournal, with a row's    *)
(* status read as a phase and the register writes as the applications.         *)

Phase(st) ==
    CASE st = "absent"       -> "unknown"
      [] st \in Unresolved   -> "pending"
      [] OTHER               -> "resolved"

Journal == INSTANCE CommandJournal WITH
    phase <- [c \in Command |-> Phase(status[c])], applied <- writes

\* The queue, its callers and the supervisor implement the journal.
ImplementsJournal == Journal!Spec
=============================================================================
