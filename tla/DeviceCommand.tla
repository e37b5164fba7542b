---------------------------- MODULE DeviceCommand ----------------------------
(***************************************************************************)
(* One command on the registers of a device: the profile that is loaded    *)
(* and validated (edge/device_profiles.py, edge/profile_validation.py,     *)
(* edge/config.py), the circuit breaker, the encoding of the setpoint, the *)
(* write and the readback of CommandExecutor (edge/commands.py), over the  *)
(* adapter and the faults of the simulated device (edge/modbus_adapter.py, *)
(* edge/simulation/modbus_server.py).  The journal around a command is the *)
(* subject of EdgeCommands; here it is a call that a crash may interrupt.  *)
(*                                                                         *)
(* The power of the battery follows its setpoint in its own time, so a     *)
(* readback may observe what an earlier command asked for.                 *)
(*                                                                         *)
(* Abstractions.  Targets and the power register are in tenths, which is   *)
(* the default setpoint_scale; tolerances are in hundredths.  Addresses    *)
(* are names.  Of the telemetry points a profile has only what its         *)
(* validation reads.                                                       *)
(***************************************************************************)
EXTENDS RegisterCodec

CONSTANTS
    Required,       \* required_minimum of validate_profile
    Known,          \* CANONICAL_TELEMETRY_KEYS
    Base0,          \* the built-in profile
    Artifacts,      \* the register maps that may be merged over it
    Commands,       \* payloads: a command_type and its target
    Powers,         \* powers the battery may have when the gateway starts
    Mappings,       \* type, count and orders of points that are polled
    Max,            \* max_writes_per_minute
    Window,         \* the minute, in units of Tick
    Reboots         \* bound: restarts of the gateway within a minute

Addr == {"power", "setpoint", "mode", "limit"}
NoAddr == "null"

RequiredCommands ==
    {"idle", "charge_setpoint_kw", "discharge_setpoint_kw", "set_mode",
     "set_grid_limit_kw", "set_export_limit_kw"}
VerifyRequired == {"idle", "charge_setpoint_kw", "discharge_setpoint_kw", "set_mode"}

\* types.py:84-94
CommandPoint ==
    [command : RequiredCommands, supported : BOOLEAN,
     write : Addr \cup {NoAddr}, verify : Addr \cup {NoAddr},
     encoding : {"signed_scale", "uint16", "enum"},
     mode : {"readback_equals", "mode_equals", "observed_positive", "observed_negative",
             "observed_near_zero", "legacy_positive", "legacy_negative"},
     tolerance : Nat, readback : BOOLEAN]

NoPoint == [command |-> "none", supported |-> FALSE]

ASSUME CommandAssumption ==
    /\ Max \in Nat \ {0} /\ Window \in Nat \ {0} /\ Reboots \in Nat
    /\ Powers \subseteq 0 .. Word - 1
    /\ \A c \in Commands : c.target \in Int
    /\ Mappings \subseteq [type : {"uint16", "int16", "uint32", "int32", "float32"}, count : Nat,
                           byteOrder : {"big", "little"}, wordOrder : {"big", "little"}]
    /\ \A a \in Artifacts \cup {Base0} : a.points \in Seq(CommandPoint)

-----------------------------------------------------------------------------
(* The profile *)

\* device_profiles.py:164-188 -- what an artifact leaves out is inherited, but
\* supports_writes defaults to whether the artifact itself has commands
Merge(base, a) ==
    [telemetry |-> IF a.telemetry = {} THEN base.telemetry ELSE a.telemetry,
     points    |-> IF a.points = <<>> THEN base.points ELSE a.points,
     writes    |-> IF a.writes = "absent" THEN a.points # <<>> ELSE a.writes = "yes"]

Named(p) == {p.points[i].command : i \in DOMAIN p.points}

\* profile_validation.py:72 -- a dict keeps the last point of a name
LastPoint(p, name) ==
    p.points[CHOOSE i \in DOMAIN p.points :
                 /\ p.points[i].command = name
                 /\ \A j \in DOMAIN p.points : p.points[j].command = name => j <= i]

\* device_profiles.py:50-54 -- the first one
CommandFor(p, name) ==
    IF name \notin Named(p) THEN NoPoint
    ELSE p.points[CHOOSE i \in DOMAIN p.points :
                      /\ p.points[i].command = name
                      /\ \A j \in DOMAIN p.points : p.points[j].command = name => i <= j]

\* Mutant: the addresses of a supported command are not looked at.
ValidPoint_Unaddressed(x) == ~x.supported => x.write = NoAddr

\* profile_validation.py:77-83
ValidPoint(x) ==
    /\ x.supported => x.write # NoAddr
    /\ ~x.supported => x.write = NoAddr
    /\ x.supported /\ x.command \in VerifyRequired => x.verify # NoAddr

\* profile_validation.py:31-85, device_profiles.py:142-161
Valid(p) ==
    /\ Required \subseteq {t.key : t \in p.telemetry}
    /\ \A t \in p.telemetry :
        t.key \in Known /\ t.count > 0 /\ t.register \in {"holding", "input", "coil"}
    /\ p.writes => p.points # <<>>
    /\ RequiredCommands \subseteq Named(p)
    /\ \A name \in Named(p) : ValidPoint(LastPoint(p, name))

Loaded == {p \in {Base0} \cup {Merge(Base0, a) : a \in Artifacts} : Valid(p)}

\* the executor of the tests, which has no profile and its registers from the
\* payload (commands.py:56-80, 173-236)
Legacy == [telemetry |-> {}, points |-> <<>>, writes |-> TRUE]

LegacyPoint(type) ==
    CASE type = "charge" ->
           [command |-> "charge_setpoint_kw", supported |-> TRUE, write |-> "setpoint", verify |-> "power",
            encoding |-> "signed_scale", mode |-> "legacy_positive", tolerance |-> 10, readback |-> TRUE]
      [] type = "discharge" ->
           [command |-> "discharge_setpoint_kw", supported |-> TRUE, write |-> "setpoint", verify |-> "power",
            encoding |-> "signed_scale", mode |-> "legacy_negative", tolerance |-> 10, readback |-> TRUE]
      [] type = "idle" ->
           [command |-> "idle", supported |-> TRUE, write |-> "setpoint", verify |-> "power",
            encoding |-> "signed_scale", mode |-> "observed_near_zero", tolerance |-> 5, readback |-> TRUE]
      [] type = "set_limit" ->
           [command |-> "set_grid_limit_kw", supported |-> TRUE, write |-> "limit", verify |-> "limit",
            encoding |-> "int", mode |-> "readback_equals", tolerance |-> 0, readback |-> TRUE]
      [] type = "set_mode" ->
           [command |-> "set_mode", supported |-> TRUE, write |-> "mode", verify |-> "mode",
            encoding |-> "int", mode |-> "mode_equals", tolerance |-> 0, readback |-> TRUE]
      [] OTHER -> NoPoint

\* commands.py:256-269
Canonical(type) ==
    CASE type = "charge"    -> "charge_setpoint_kw"
      [] type = "discharge" -> "discharge_setpoint_kw"
      [] type = "set_limit" -> "set_grid_limit_kw"
      [] OTHER              -> type

-----------------------------------------------------------------------------
VARIABLES
    profile,    \* the loaded profile, or Legacy
    allowed,    \* allow_writes
    reg,        \* the registers of the device
    history,    \* _write_history: ages of the writes, in order
    call,       \* the command inside the executor
    verdict,    \* what became of the latest command
    issued,     \* history: ages of the writes of the last minute, by any process
    boots,      \* history: ages of the restarts of the last minute
    acked       \* history: the acknowledged command each register has to hold

vars == <<profile, allowed, reg, history, call, verdict, issued, boots, acked>>

NoCommand == [type |-> "none", target |-> 0]
NoCall == [stage |-> "none", c |-> NoCommand, wrote |-> FALSE, honest |-> TRUE]

TypeOK ==
    /\ profile \in Loaded \cup {Legacy}
    /\ allowed \in BOOLEAN
    /\ reg \in [Addr -> 0 .. Word - 1]
    /\ history \in Seq(0 .. Window) /\ Len(history) <= Max
    /\ call \in [stage : {"none", "written", "interrupted"}, c : Commands \cup {NoCommand},
                 wrote : BOOLEAN, honest : BOOLEAN]
    /\ verdict \in {"none", "acked", "failed", "misconfigured"}
    /\ issued \in Seq(0 .. Window - 1) /\ boots \in Seq(0 .. Window - 1)
    /\ acked \in [Addr -> Commands \cup {NoCommand}]

\* main.py:37-45, 59-65, config.py:127-142 -- a valid profile, and writes only
\* where neither the mode nor the profile forbids them
Init ==
    /\ profile \in Loaded \cup {Legacy}
    /\ \E requested \in BOOLEAN :
        /\ requested => profile.writes
        /\ allowed = requested
    /\ \E kw \in Powers : reg = [a \in Addr |-> IF a = "power" THEN kw ELSE 0]
    /\ history = <<>>
    /\ call = NoCall
    /\ verdict = "none"
    /\ issued = <<>> /\ boots = <<>>
    /\ acked = [a \in Addr |-> NoCommand]

PointOf(c) == IF profile = Legacy THEN LegacyPoint(c.type) ELSE CommandFor(profile, Canonical(c.type))

-----------------------------------------------------------------------------
(* Encoding and readback *)

\* Python's round of a number of tenths: halves go to the even neighbour
Whole(tenths) ==
    LET down == tenths \div 10
        rest == tenths % 10
    IN  IF rest > 5 \/ (rest = 5 /\ down % 2 = 1) THEN down + 1 ELSE down

\* Python's int of a number of tenths: towards zero
Cut(tenths) == IF tenths < 0 THEN -((-tenths) \div 10) ELSE tenths \div 10

Abs(n) == IF n < 0 THEN -n ELSE n

\* commands.py:149-157, 165-171, 178-182
Signed(x, c) ==
    CASE x.command = "idle" -> 0
      [] x.command = "charge_setpoint_kw" -> Abs(c.target)
      [] x.command = "discharge_setpoint_kw" -> -Abs(c.target)
      [] OTHER -> c.target

\* commands.py:149-157
Asked(x, c) == IF x.command = "idle" THEN 0 ELSE c.target

\* commands.py:159-172, 218-219, 229-230 -- a profile rounds where the legacy
\* commands cut
Encoded(x, c) ==
    CASE x.encoding = "enum" -> Encode16(Whole(Asked(x, c)))
      [] x.encoding = "int" -> Encode16(Cut(c.target))
      [] x.encoding = "uint16" ->
            Encode16(LET n == Whole(Asked(x, c)) IN IF n < 0 THEN 0 ELSE n)
      [] OTHER -> Encode16(Signed(x, c))

\* Mutant: the sign of the observed power is not decoded.
Confirms_Unsigned(x, c, w, s) ==
    CASE x.mode = "readback_equals" -> x.readback /\ w = Encoded(x, c)
      [] x.mode = "mode_equals" -> w = Encode16(Cut(c.target))
      [] x.mode = "observed_positive" -> 10 * w >= x.tolerance
      [] x.mode = "observed_negative" -> 10 * w <= -x.tolerance
      [] x.mode = "observed_near_zero" -> 10 * w <= x.tolerance
      [] x.mode = "legacy_positive" -> s > 0 /\ 10 * w >= x.tolerance
      [] x.mode = "legacy_negative" -> s < 0 /\ 10 * w <= -x.tolerance

\* commands.py:119-147, 187-214, 221-236 -- w and s are what the adapter
\* returned for the address that is verified and for the setpoint
Confirms(x, c, w, s) ==
    LET kw == 10 * Int16(w)
    IN  CASE x.mode = "readback_equals" -> x.readback /\ w = Encoded(x, c)
          [] x.mode = "mode_equals" -> w = Encode16(Cut(c.target))
          [] x.mode = "observed_positive" -> kw >= x.tolerance
          [] x.mode = "observed_negative" -> kw <= -x.tolerance
          [] x.mode = "observed_near_zero" -> Abs(kw) <= x.tolerance
          [] x.mode = "legacy_positive" -> Int16(s) > 0 /\ kw >= x.tolerance
          [] x.mode = "legacy_negative" -> Int16(s) < 0 /\ kw <= -x.tolerance

\* commands.py:120-122
VerifyAddr(x) == IF x.verify = NoAddr THEN x.write ELSE x.verify

\* commands.py:120-134 -- the readback compares the register that is written
\* with what is written to it
ReadsBack(x) ==
    /\ VerifyAddr(x) = x.write
    /\ \/ x.mode = "readback_equals"
       \/ x.mode = "mode_equals" /\ x.command = "set_mode" /\ x.encoding # "signed_scale"

-----------------------------------------------------------------------------
(* execute_and_reconcile *)

\* A list of ages runs from the oldest to the youngest, so those below a bound
\* are its tail.
Younger(ages, bound) ==
    LET old == CHOOSE k \in 0 .. Len(ages) : \A i \in DOMAIN ages : ages[i] < bound <=> i > k
    IN  SubSeq(ages, old + 1, Len(ages))

\* Mutant: the list is cleared when its oldest write leaves the window.
Recent_Cleared == IF \E i \in DOMAIN history : history[i] >= Window THEN <<>> ELSE history

\* commands.py:82-86
Recent == Younger(history, Window)

BreakerAllows == Len(Recent) < Max

\* commands.py:40-50
Refused(c) ==
    \/ ~BreakerAllows
    \/ ~PointOf(c).supported
    \/ profile # Legacy /\ ~allowed

\* commands.py:36-50, 80 -- refused before anything is recorded; the backlog
\* makes a failed command of it
Refuse(c) ==
    /\ call.stage = "none"
    /\ Refused(c)
    /\ verdict' = "failed"
    /\ history' = Recent
    /\ UNCHANGED <<profile, allowed, reg, call, issued, boots, acked>>

\* commands.py:52, 57, 63, 69, 75, 88-89
RecordWrite ==
    /\ history' = Append(Recent, 0)
    /\ issued' = Append(issued, 0)

\* commands.py:112-114 -- counted as a write, then refused by the executor
Misconfigured(c) ==
    /\ call.stage = "none"
    /\ ~Refused(c)
    /\ PointOf(c).write = NoAddr
    /\ RecordWrite
    /\ verdict' = "misconfigured"
    /\ UNCHANGED <<profile, allowed, reg, call, boots, acked>>

Overwrites(a, c) ==
    /\ reg' = [reg EXCEPT ![a] = Encoded(PointOf(c), c)]
    /\ acked' = [acked EXCEPT ![a] = NoCommand]

Writes(c) ==
    /\ call.stage = "none"
    /\ ~Refused(c)
    /\ PointOf(c).write # NoAddr
    /\ RecordWrite
    /\ UNCHANGED <<profile, allowed, boots>>

\* commands.py:53, 115-117, 173-185, 203-205, modbus_adapter.py:65-72
Write(c) ==
    /\ Writes(c)
    /\ Overwrites(PointOf(c).write, c)
    /\ call' = [stage |-> "written", c |-> c, wrote |-> TRUE, honest |-> TRUE]
    /\ UNCHANGED verdict

\* modbus_server.py:54-62 -- a frozen device answers and keeps its values
WriteIgnored(c) ==
    /\ Writes(c)
    /\ call' = [stage |-> "written", c |-> c, wrote |-> TRUE, honest |-> FALSE]
    /\ UNCHANGED <<reg, verdict, acked>>

\* modbus_server.py:46-52, modbus_adapter.py:66-72 -- an error: the write was
\* lost, or it took place and the answer came after the timeout
WriteRaises(c) ==
    /\ Writes(c)
    /\ Overwrites(PointOf(c).write, c) \/ UNCHANGED <<reg, acked>>
    /\ verdict' = "failed"
    /\ UNCHANGED call

Conclude(v) ==
    /\ verdict' = v
    /\ call' = NoCall

\* commands.py:54-80, 112-147
Reconcile ==
    /\ call.stage = "written"
    /\ LET x == PointOf(call.c)
           ok == Confirms(x, call.c, reg[VerifyAddr(x)], reg["setpoint"])
       IN  /\ Conclude(IF ok THEN "acked" ELSE "failed")
           /\ acked' = IF ok /\ (call.honest \/ ReadsBack(x))
                       THEN [acked EXCEPT ![x.write] = call.c] ELSE acked
    /\ UNCHANGED <<profile, allowed, reg, history, issued, boots>>

\* modbus_server.py:64-71 -- every register reads 0xFFFF
ReconcileGarbage ==
    /\ call.stage = "written"
    /\ Conclude(IF Confirms(PointOf(call.c), call.c, Word - 1, Word - 1) THEN "acked" ELSE "failed")
    /\ UNCHANGED <<profile, allowed, reg, history, issued, boots, acked>>

\* modbus_adapter.py:37-49
ReconcileRaises ==
    /\ call.stage = "written"
    /\ Conclude("failed")
    /\ UNCHANGED <<profile, allowed, reg, history, issued, boots, acked>>

-----------------------------------------------------------------------------
(* Crash, recovery and the device *)

\* the gateway restarts: the write history is gone, the command that was being
\* applied is found in the journal, written or not
Restart(c) ==
    /\ Len(boots) < Reboots
    /\ call.stage # "none" => c = call.c
    /\ call' = IF call.stage = "none"
               THEN [stage |-> "interrupted", c |-> c, wrote |-> FALSE, honest |-> TRUE]
               ELSE [call EXCEPT !.stage = "interrupted"]
    /\ history' = <<>>
    /\ boots' = Append(boots, 0)
    /\ UNCHANGED <<profile, allowed, reg, verdict, issued, acked>>

\* commands.py:91-110, main.py:96-101 -- reconcile_only at startup
Recover ==
    /\ call.stage = "interrupted"
    /\ LET x == PointOf(call.c)
       IN  IF ~x.supported THEN Conclude("failed") /\ UNCHANGED acked
           ELSE LET ok == VerifyAddr(x) # NoAddr /\ Confirms(x, call.c, reg[VerifyAddr(x)], reg["setpoint"])
                IN  /\ Conclude(IF ok THEN "acked" ELSE "failed")
                    /\ acked' = IF ok /\ ((call.wrote /\ call.honest) \/ ReadsBack(x))
                                THEN [acked EXCEPT ![x.write] = call.c] ELSE acked
    /\ UNCHANGED <<profile, allowed, reg, history, issued, boots>>

\* main.py:100-101
RecoverRaises ==
    /\ call.stage = "interrupted"
    /\ Conclude("failed")
    /\ UNCHANGED <<profile, allowed, reg, history, issued, boots, acked>>

\* the battery reaches its setpoint, or stops for reasons of its own
Settle ==
    /\ \E kw \in {reg["setpoint"], 0} : reg' = [reg EXCEPT !["power"] = kw]
    /\ UNCHANGED <<profile, allowed, history, call, verdict, issued, boots, acked>>

Later(ages) == [i \in DOMAIN ages |-> ages[i] + 1]
Within(ages) == Younger(Later(ages), Window)

\* what is older than the window need not be told apart
Aged(ages) == [i \in DOMAIN ages |-> IF ages[i] < Window THEN ages[i] + 1 ELSE Window]

\* a part of the minute passes
Tick ==
    /\ history' = Aged(history)
    /\ issued' = Within(issued)
    /\ boots' = Within(boots)
    /\ UNCHANGED <<profile, allowed, reg, call, verdict, acked>>

Next ==
    \/ \E c \in Commands :
        Refuse(c) \/ Misconfigured(c) \/ Write(c) \/ WriteIgnored(c) \/ WriteRaises(c) \/ Restart(c)
    \/ Reconcile \/ ReconcileGarbage \/ ReconcileRaises
    \/ Recover \/ RecoverRaises
    \/ Settle
    \/ Tick

Spec == Init /\ [][Next]_vars

-----------------------------------------------------------------------------
(* Properties *)

\* the register can hold the number, in the unit of its encoding
Fits(x, c) ==
    IF x.encoding = "signed_scale" THEN -Half <= Signed(x, c) /\ Signed(x, c) < Half
    ELSE Asked(x, c) % 10 = 0 /\ 0 <= Asked(x, c) /\ Asked(x, c) < 10 * Word

Holds(x, c, word) ==
    IF x.encoding = "signed_scale" THEN Int16(word) = Signed(x, c) ELSE 10 * word = Asked(x, c)

\* power is a measurement: the profile writes it nowhere
Measured == \A i \in DOMAIN profile.points : profile.points[i].write # "power"

\* a setpoint that is confirmed by the power it moves, in its own direction
Observed(x) ==
    /\ Measured /\ x.write = "setpoint" /\ VerifyAddr(x) = "power" /\ x.encoding = "signed_scale"
    /\ <<x.command, x.mode>> \in
         {<<"charge_setpoint_kw", "observed_positive">>, <<"charge_setpoint_kw", "legacy_positive">>,
          <<"discharge_setpoint_kw", "observed_negative">>, <<"discharge_setpoint_kw", "legacy_negative">>,
          <<"idle", "observed_near_zero">>}

\* the battery does not go against the command
Obeys(x, word) ==
    LET kw == Int16(word)
    IN  CASE x.mode \in {"observed_positive", "legacy_positive"} -> kw >= 0
          [] x.mode \in {"observed_negative", "legacy_negative"} -> kw <= 0
          [] OTHER -> 10 * Abs(kw) <= x.tolerance

\* Under every profile that passes validation, an acknowledged command that
\* fits its register is what this register holds until the next write to it,
\* and, where the readback observes the power of the battery, what the battery
\* obeys from then on, however late it follows.  A readback of the written
\* register vouches for any command, after a crash before the write and on a
\* frozen device too; one that observes something else, for a command that was
\* written to a device that took it.  Garbage in place of the registers is excepted.
AckedHolds ==
    \A a \in Addr \ {"power"} :
        LET c == acked[a]
            x == PointOf(c)
        IN  c # NoCommand /\ Fits(x, c) =>
                Holds(x, c, reg[a]) /\ (Observed(x) => Obeys(x, reg["power"]))

\* No minute sees more writes than the breaker allows, but for one more
\* allowance with each restart of the gateway in that minute, which forgets
\* the writes before it.
WriteRate == Len(issued) <= Max * (Len(boots) + 1)

Unambiguous(p) == \A i, j \in DOMAIN p.points : p.points[i].command = p.points[j].command => i = j

\* A profile that passed validation and names every command once never makes
\* the executor find out, after it has counted the write, that it has no
\* register to write or to verify.
ValidatedProfileRuns ==
    profile = Legacy \/ Unambiguous(profile) =>
        /\ verdict # "misconfigured"
        /\ call.stage = "written" => VerifyAddr(PointOf(call.c)) # NoAddr

Modulus(m) == IF Size(m.type) = 2 THEN Word ELSE Word * Word

\* Whatever the registers of the device hold, the number that the decoder makes
\* of one or two of them is the one that the device lays out in just these
\* registers, for every type and order; of another count it makes none.
DecodesLayout ==
    \A m \in Mappings :
        LET registers == IF m.count = 1 THEN <<reg["power"]>> ELSE <<reg["power"], reg["setpoint"]>>
            decoded   == Decode(m, registers)
        IN  IF 2 * m.count = Size(m.type)
            THEN decoded.ok /\ Layout(decoded.value % Modulus(m), m) = registers
            ELSE ~decoded.ok

-----------------------------------------------------------------------------
(* The inductive invariants behind the properties above *)

\* what was written stays in its register while the command is in hand, and
\* while no other write has replaced it
CallInv ==
    call.stage # "none" /\ call.wrote =>
        /\ PointOf(call.c).supported /\ PointOf(call.c).write # NoAddr
        /\ call.honest /\ PointOf(call.c).write # "power" =>
              reg[PointOf(call.c).write] = Encoded(PointOf(call.c), call.c)

WrittenInv == call.stage = "written" => call.wrote

AckInv ==
    \A a \in Addr : acked[a] # NoCommand =>
        LET x == PointOf(acked[a])
        IN  /\ acked[a] \in Commands /\ x.supported
            /\ x.write = a
            /\ a # "power" /\ Fits(x, acked[a]) =>
                  Holds(x, acked[a], reg[a]) /\ (Observed(x) => Obeys(x, reg["power"]))

\* every list of ages is in order
OrderInv ==
    \A ages \in {history, issued, boots} : \A i, j \in DOMAIN ages : i < j => ages[i] >= ages[j]

\* for every part of the minute: what it saw is what its restarts allowed and
\* what the breaker still remembers
RateInv ==
    /\ OrderInv
    /\ \A bound \in 0 .. Window :
          Len(Younger(issued, bound)) <= Max * Len(Younger(boots, bound)) + Len(Younger(history, bound))
=============================================================================
