---------------------------- MODULE CloudDispatch ----------------------------
(***************************************************************************)
(* The cloud side of a command: requests that dispatch one                 *)
(* (control/dispatcher.py, called by optimize_run and issue_command of     *)
(* routers/control_loop.py), the acknowledgements that come back           *)
(* (acknowledge_command) and the commands table (control/repository.py).   *)
(*                                                                         *)
(* Every repository call opens a connection and a transaction of its own   *)
(* and the API serves requests concurrently, so the pending check, the     *)
(* INSERT and the status UPDATE of one request interleave with those of    *)
(* the others and with the two halves of an acknowledgement, and each of   *)
(* them can raise, which ends its request.  A restart of the API ends      *)
(* every request where it stands; the rows stay.                           *)
(*                                                                         *)
(* Abstractions.  A site is its primary device, the only one a request     *)
(* uses (get_primary_device_id).  The retries of a send only repeat a test *)
(* of the same arguments.  The optimization_runs row that optimize_run     *)
(* writes afterwards is never read by the control.                         *)
(***************************************************************************)
EXTENDS Naturals, FiniteSets

CONSTANTS
    Command,        \* command ids that may be generated
    Caller,         \* the request slots of the API: each serves one request at a time
    Device,
    Key,            \* idempotency keys
    NoKey,
    NoCommand,
    NoCaller,
    Windows,        \* ack_block_seconds: 30 in issue_command, in optimize_run the
                    \* pending_ack_block_seconds of the policy
    MaxAge,         \* bound: the age of a row saturates here
    MaxRetries,     \* EA_COMMAND_MAX_RETRIES
    MaxFaults,      \* bound: repository calls that raise
    MaxCrashes      \* bound: restarts of the API

ASSUME DispatchAssumption ==
    /\ Device # {} /\ IsFiniteSet(Caller)
    /\ NoCommand \notin Command
    /\ NoKey \notin Key
    /\ NoCaller \notin Caller
    /\ MaxAge \in Nat
    /\ Windows # {} /\ Windows \subseteq 0 .. MaxAge - 1
    /\ MaxRetries \in Nat
    /\ MaxFaults \in Nat
    /\ MaxCrashes \in Nat

VARIABLES
    status,     \* commands.status of each id, "absent": no row
    device,     \* commands.device_id of each row
    key,        \* commands.idempotency_key of each row
    acked,      \* acked_at is set
    age,        \* seconds since requested_at of each open row; 0 for any other
    by,         \* history: the slot whose request created each open row
    win,        \* history: the window of that request
    rpc,        \* control point of each request
    req,        \* the arguments each request has yet to store in a row
    rcmd,       \* the row each request has created
    acking,     \* acknowledgements between their read and their write
    faults,     \* repository calls that have raised
    crashes

openVars == <<age, by, win>>
rowVars == <<status, device, key, acked, openVars>>
reqVars == <<rpc, req, rcmd>>
failVars == <<faults, crashes>>
vars == <<rowVars, reqVars, acking, failVars>>

Status   == {"absent", "queued", "sent", "acked", "failed"}
ReqState == {"idle", "check", "create", "send", "deliver", "fail"}
Request  == [device : Device, key : Key \cup {NoKey}, window : Windows]

TypeOK ==
    /\ status \in [Command -> Status]
    /\ device \in [Command -> Device]
    /\ key \in [Command -> Key \cup {NoKey}]
    /\ acked \in [Command -> BOOLEAN]
    /\ age \in [Command -> 0 .. MaxAge]
    /\ by \in [Command -> Caller \cup {NoCaller}]
    /\ win \in [Command -> Windows]
    /\ rpc \in [Caller -> ReqState]
    /\ req \in [Caller -> Request]
    /\ rcmd \in [Caller -> Command \cup {NoCommand}]
    /\ acking \subseteq Command
    /\ faults \in 0 .. MaxFaults
    /\ crashes \in 0 .. MaxCrashes

AnyDevice == CHOOSE d \in Device : TRUE
AnyWindow == CHOOSE w \in Windows : TRUE
NoRequest == [device |-> AnyDevice, key |-> NoKey, window |-> AnyWindow]

Init ==
    /\ status = [c \in Command |-> "absent"]
    /\ device = [c \in Command |-> AnyDevice]
    /\ key = [c \in Command |-> NoKey]
    /\ acked = [c \in Command |-> FALSE]
    /\ age = [c \in Command |-> 0]
    /\ by = [c \in Command |-> NoCaller]
    /\ win = [c \in Command |-> AnyWindow]
    /\ rpc = [r \in Caller |-> "idle"]
    /\ req = [r \in Caller |-> NoRequest]
    /\ rcmd = [r \in Caller |-> NoCommand]
    /\ acking = {}
    /\ faults = 0
    /\ crashes = 0

-----------------------------------------------------------------------------
(* dispatch *)

\* repository.py:429-445 -- queued or sent, not acknowledged
Open(c) == status[c] \in {"queued", "sent"} /\ ~acked[c]

\* requested within the block window of the request
Pending(r, c) == Open(c) /\ device[c] = req[r].device /\ age[c] <= req[r].window

Goto(r, point) == rpc' = [rpc EXCEPT ![r] = point]

Return(r) ==
    /\ Goto(r, "idle")
    /\ rcmd' = [rcmd EXCEPT ![r] = NoCommand]
    /\ req' = [req EXCEPT ![r] = NoRequest]

Proceed(r, point) == Goto(r, point) /\ UNCHANGED <<rcmd, req>>

\* a request of optimize_run or issue_command reaches the dispatcher
Arrive(r) ==
    /\ rpc[r] = "idle"
    /\ \E q \in Request : req' = [req EXCEPT ![r] = q]
    /\ Goto(r, "check")
    /\ UNCHANGED <<rowVars, rcmd, acking, failVars>>

\* Mutant: only a command that was sent counts as pending.
CheckPending_SentOnly(r) ==
    /\ rpc[r] = "check"
    /\ IF \E c \in Command : Pending(r, c) /\ status[c] = "sent" THEN Return(r)
                                                              ELSE Proceed(r, "create")
    /\ UNCHANGED <<rowVars, acking, failVars>>

\* dispatcher.py:30-36 -- a pending command blocks the request
CheckPending(r) ==
    /\ rpc[r] = "check"
    /\ IF \E c \in Command : Pending(r, c) THEN Return(r) ELSE Proceed(r, "create")
    /\ UNCHANGED <<rowVars, acking, failVars>>

\* migrations/0004: UNIQUE(site_id, idempotency_key), where NULLs are distinct
KeyTaken(k, d) ==
    k # NoKey /\ \E c \in Command : status[c] # "absent" /\ key[c] = k /\ device[c] = d

\* repository.py:447-480 -- the INSERT of the row
Insert(r, c) ==
    /\ rpc[r] = "create"
    /\ ~KeyTaken(req[r].key, req[r].device)
    /\ status[c] = "absent"
    /\ status' = [status EXCEPT ![c] = "queued"]
    /\ device' = [device EXCEPT ![c] = req[r].device]
    /\ key' = [key EXCEPT ![c] = req[r].key]
    /\ by' = [by EXCEPT ![c] = r]
    /\ win' = [win EXCEPT ![c] = req[r].window]
    /\ UNCHANGED <<acked, age>>

\* dispatcher.py:38-46
CreateCommand(r, c) ==
    /\ Insert(r, c)
    /\ rcmd' = [rcmd EXCEPT ![r] = c]
    /\ req' = [req EXCEPT ![r] = NoRequest]
    /\ Goto(r, "send")
    /\ UNCHANGED <<acking, failVars>>

\* Mutant: the INSERT overwrites the row that has the key.
CreateRejected_Upsert(r) ==
    /\ rpc[r] = "create"
    /\ KeyTaken(req[r].key, req[r].device)
    /\ status' = [c \in Command |-> IF key[c] = req[r].key THEN "queued" ELSE status[c]]
    /\ Return(r)
    /\ UNCHANGED <<device, key, acked, openVars, acking, failVars>>

\* the INSERT violates the constraint and the request ends in an error
CreateRejected(r) ==
    /\ rpc[r] = "create"
    /\ KeyTaken(req[r].key, req[r].device)
    /\ Return(r)
    /\ UNCHANGED <<rowVars, acking, failVars>>

\* Mutant: a send that fails is not recorded.
SendToDevice_Silent(r) ==
    /\ rpc[r] = "send"
    /\ IF MaxRetries = 0 THEN Return(r) ELSE Proceed(r, "deliver") \/ Return(r)
    /\ UNCHANGED <<rowVars, acking, failVars>>

\* dispatcher.py:48-60, 70-76 -- a send is refused for its arguments alone (no
\* device, a negative power), so every retry ends alike; without a retry
\* failure_reason is unbound and raises
SendToDevice(r) ==
    /\ rpc[r] = "send"
    /\ IF MaxRetries = 0 THEN Return(r)
       ELSE \E outcome \in {"deliver", "fail"} : Proceed(r, outcome)
    /\ UNCHANGED <<rowVars, acking, failVars>>

\* nothing asks a row that is no longer open for its age
FollowOpen(c, stays) ==
    IF stays THEN UNCHANGED openVars
    ELSE /\ age' = [age EXCEPT ![c] = 0]
         /\ by' = [by EXCEPT ![c] = NoCaller]
         /\ win' = [win EXCEPT ![c] = AnyWindow]

\* Mutant: acked_at is overwritten too, its COALESCE dropped.
UpdateStatus_Unset(c, new) ==
    /\ status' = [status EXCEPT ![c] = new]
    /\ acked' = [acked EXCEPT ![c] = (new = "acked")]
    /\ FollowOpen(c, new = "sent")

\* repository.py:482-502 -- the status is overwritten whatever it is; acked_at
\* stays once it is set
UpdateStatus(c, new) ==
    /\ status' = [status EXCEPT ![c] = new]
    /\ acked' = [acked EXCEPT ![c] = @ \/ new = "acked"]
    /\ FollowOpen(c, new = "sent" /\ ~acked[c])

\* Mutant: the row takes the status of the transport.
MarkSent_Transport(r) ==
    /\ rpc[r] = "deliver"
    /\ UpdateStatus(rcmd[r], "published")
    /\ Return(r)
    /\ UNCHANGED <<device, key, acking, failVars>>

\* dispatcher.py:53-60
MarkSent(r) ==
    /\ rpc[r] = "deliver"
    /\ UpdateStatus(rcmd[r], "sent")
    /\ Return(r)
    /\ UNCHANGED <<device, key, acking, failVars>>

\* dispatcher.py:61-68
MarkFailed(r) ==
    /\ rpc[r] = "fail"
    /\ UpdateStatus(rcmd[r], "failed")
    /\ Return(r)
    /\ UNCHANGED <<device, key, acking, failVars>>

Fault == faults < MaxFaults /\ faults' = faults + 1

\* A repository call of the request raises before it has an effect (no
\* connection, repository.py:28-29) and nothing catches it: after the INSERT the
\* row stays as it is, "queued" unless it was acknowledged meanwhile.
CallRaises(r) ==
    /\ rpc[r] \in {"check", "create", "deliver", "fail"}
    /\ Fault
    /\ Return(r)
    /\ UNCHANGED <<rowVars, acking, crashes>>

\* The INSERT is committed and its answer lost: the row has no request.
CreateUnanswered(r, c) ==
    /\ Insert(r, c)
    /\ Fault
    /\ Return(r)
    /\ UNCHANGED <<acking, crashes>>

-----------------------------------------------------------------------------
(* acknowledge_command *)

\* control_loop.py:565-570 -- any row but an acknowledged one; a second
\* acknowledgement that overlaps the first would only write the same again
AckRead(c) ==
    /\ status[c] \notin {"absent", "acked"}
    /\ c \notin acking
    /\ acking' = acking \cup {c}
    /\ UNCHANGED <<rowVars, reqVars, failVars>>

\* control_loop.py:571
AckWrite(c) ==
    /\ c \in acking
    /\ acking' = acking \ {c}
    /\ UpdateStatus(c, "acked")
    /\ UNCHANGED <<device, key, reqVars, failVars>>

\* its UPDATE raises and the acknowledgement ends
AckRaises(c) ==
    /\ c \in acking
    /\ acking' = acking \ {c}
    /\ Fault
    /\ UNCHANGED <<rowVars, reqVars, crashes>>

-----------------------------------------------------------------------------
(* The environment *)

Rows == {c \in Command : status[c] # "absent"}

\* one second passes
Tick ==
    /\ \E c \in Command : Open(c) /\ age[c] < MaxAge
    /\ age' = [c \in Command |-> IF Open(c) /\ age[c] < MaxAge THEN age[c] + 1 ELSE age[c]]
    /\ UNCHANGED <<status, device, key, acked, by, win, reqVars, acking, failVars>>

\* the API restarts: requests and acknowledgements under way are gone
Restart ==
    /\ crashes < MaxCrashes
    /\ crashes' = crashes + 1
    /\ rpc' = [r \in Caller |-> "idle"]
    /\ rcmd' = [r \in Caller |-> NoCommand]
    /\ req' = [r \in Caller |-> NoRequest]
    /\ acking' = {}
    /\ UNCHANGED <<rowVars, faults>>

-----------------------------------------------------------------------------
Serve(r) ==
    \/ CheckPending(r)
    \/ \E c \in Command : CreateCommand(r, c)
    \/ CreateRejected(r)
    \/ SendToDevice(r) \/ MarkSent(r) \/ MarkFailed(r)
    \/ CallRaises(r)
    \/ \E c \in Command : CreateUnanswered(r, c)

Next ==
    \/ \E r \in Caller : Arrive(r) \/ Serve(r)
    \/ \E c \in Command : AckRead(c) \/ AckWrite(c) \/ AckRaises(c)
    \/ Tick
    \/ Restart

Spec == Init /\ [][Next]_vars

-----------------------------------------------------------------------------
(* Properties *)

\* However requests interleave, of two commands of one slot that are open on a
\* device the older one was outside the block window of the request that made
\* the younger: what is left of the pending check when it is not atomic with
\* the INSERT (two slots can each leave a command in the window).
OnePerCaller ==
    \A c, d \in Command :
        /\ Open(c) /\ Open(d) /\ c # d
        /\ by[c] = by[d] /\ device[c] = device[d] /\ age[d] <= age[c]
        => age[c] > win[d]

\* younger than every window in use
Recent(c) == \A w \in Windows : age[c] <= w

\* Its consequence for the operator: the commands open on a device and younger
\* than every block window are never more than the requests served at once.
PendingBounded ==
    \A d \in Device :
        Cardinality({c \in Command : Open(c) /\ device[c] = d /\ Recent(c)})
            <= Cardinality(Caller)

\* A command that was acknowledged stays so, unless its dispatcher has yet to
\* record the outcome of the send.
AckSticks ==
    [][\A c \in Command :
         status[c] = "acked" /\ (\A r \in Caller : rcmd[r] # c) => status'[c] = "acked"]_vars

\* queued, and no request will record the outcome any more
Orphans == {c \in Command : status[c] = "queued" /\ \A r \in Caller : rcmd[r] # c}

\* Every row that is left "queued" for good is paid for: by a repository call
\* that raised (one row each) or by a restart (one row for each request it
\* ended); no interleaving and no refused send leaves one.
\* (With EA_COMMAND_MAX_RETRIES = 0 every request leaves one.)
NoOrphan == MaxRetries > 0 => Cardinality(Orphans) <= faults + crashes * Cardinality(Caller)

-----------------------------------------------------------------------------
(* What the table promises: CommandLedger.  A row is open while it can block    *)
(* its device; a late status write of its dispatcher does not reopen it,       *)
(* because acked_at stays set.                                                 *)

PhaseOf(c) ==
    CASE status[c] = "absent" -> "none"
      [] Open(c)              -> "open"
      [] OTHER                -> "settled"

Ledger == INSTANCE CommandLedger WITH phase <- [c \in Command |-> PhaseOf(c)]

\* The requests, the acknowledgements and the restarts implement the ledger.
ImplementsLedger == Ledger!Spec

-----------------------------------------------------------------------------
(* The inductive invariant behind OnePerCaller and the ledger *)

\* an idempotency key names one row of a site (the unique constraint)
KeyOnce ==
    \A c, d \in Rows : key[c] = key[d] /\ key[c] # NoKey /\ device[c] = device[d] => c = d

RowInv ==
    /\ \A c \in Command : acked[c] => status[c] # "absent"
    /\ \A c \in Command : ~Open(c) => age[c] = 0
    /\ \A c \in acking : status[c] # "absent"
    /\ \A c \in Command : Open(c) => by[c] # NoCaller

\* a request past its check found no pending command, its own included
CheckInv == \A r \in Caller, c \in Command : rpc[r] = "create" /\ by[c] = r => ~Pending(r, c)

\* rows of one slot and device that are equally old are as old as the bound
\* lets them become: the older was past a window when the younger was made
AgeInv ==
    \A c, d \in Command :
        /\ Open(c) /\ Open(d) /\ c # d
        /\ by[c] = by[d] /\ device[c] = device[d] /\ age[c] = age[d]
        => age[c] = MaxAge

\* a request that sends holds a row of its own, queued or already acknowledged
HoldInv ==
    /\ \A r \in Caller : rpc[r] \in {"send", "deliver", "fail"} <=> rcmd[r] # NoCommand
    /\ \A r \in Caller : rcmd[r] # NoCommand =>
          \/ status[rcmd[r]] = "queued"
          \/ status[rcmd[r]] = "acked" /\ acked[rcmd[r]]
    /\ \A r, s \in Caller : rcmd[r] = rcmd[s] /\ rcmd[r] # NoCommand => r = s

DispatchInv == RowInv /\ CheckInv /\ HoldInv /\ OnePerCaller /\ AgeInv /\ KeyOnce
=============================================================================
