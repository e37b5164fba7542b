--------------------------- MODULE MCDeviceCommand ---------------------------
(* An instance of DeviceCommand for TLC. *)
EXTENDS DeviceCommand

Telemetry == {[key |-> "battery_soc", register |-> "holding", count |-> 1]}

Point(command, write, verify, encoding, mode, tolerance) ==
    [command |-> command, supported |-> TRUE, write |-> write, verify |-> verify,
     encoding |-> encoding, mode |-> mode, tolerance |-> tolerance, readback |-> TRUE]

\* device_profiles.py:82-89 (the export limit stands for both limits)
SimulatedPoints ==
    <<Point("charge_setpoint_kw", "setpoint", "power", "signed_scale", "observed_positive", 15),
      Point("discharge_setpoint_kw", "setpoint", "power", "signed_scale", "observed_negative", 15),
      Point("idle", "setpoint", "power", "signed_scale", "observed_near_zero", 15),
      Point("set_mode", "mode", "mode", "enum", "mode_equals", 0),
      Point("set_grid_limit_kw", "limit", "limit", "signed_scale", "readback_equals", 10),
      Point("set_export_limit_kw", "limit", "limit", "signed_scale", "readback_equals", 10)>>

MCBase0 == [telemetry |-> Telemetry, points |-> SimulatedPoints, writes |-> TRUE]

NotSupported(x) == [x EXCEPT !.supported = FALSE, !.write = NoAddr, !.verify = NoAddr, !.readback = FALSE]

Artifact(telemetry, points, writes) == [telemetry |-> telemetry, points |-> points, writes |-> writes]

\* a Victron-like map that supports no command; the charge confirmed by its
\* setpoint and a limit without a verify address; a name that comes twice, the
\* first time without a register; maps that validation refuses; and the map of
\* tests/edge/test_device_profiles.py:121-147, which confirms power commands by
\* the register of their own setpoint
MCArtifacts ==
    {Artifact(Telemetry, [i \in 1 .. 6 |-> NotSupported(SimulatedPoints[i])], "no"),
     Artifact({}, [SimulatedPoints EXCEPT ![1].verify = "setpoint", ![1].mode = "readback_equals",
                                          ![5].verify = NoAddr], "absent"),
     Artifact({}, <<[SimulatedPoints[3] EXCEPT !.write = NoAddr]>> \o SimulatedPoints, "yes"),
     Artifact({}, [SimulatedPoints EXCEPT ![1].write = NoAddr], "yes"),
     Artifact({}, <<>>, "absent"),
     Artifact({[key |-> "pv_generation_kw", register |-> "input", count |-> 2]}, SimulatedPoints, "yes"),
     Artifact({}, [i \in 1 .. 6 |-> IF i <= 3
                                    THEN [SimulatedPoints[i] EXCEPT !.verify = "setpoint", !.tolerance = 10]
                                    ELSE SimulatedPoints[i]], "absent")}

Payload(type, target) == [type |-> type, target |-> target]

\* 20.0 kW does not fit the registers of the instance; mode 1.5 is written as 2
\* and looked for as 1
MCCommands ==
    {Payload("charge", 20), Payload("charge", 200), Payload("charge_setpoint_kw", 0),
     Payload("discharge", 20), Payload("idle", 0), Payload("set_mode", 15), Payload("set_mode", 20)}

Mapped(type, count, byteOrder, wordOrder) ==
    [type |-> type, count |-> count, byteOrder |-> byteOrder, wordOrder |-> wordOrder]

\* a 32-bit point in every order, a point of one register, and two whose count
\* does not fit their type
MCMappings ==
    {Mapped("int32", 2, b, w) : b \in {"big", "little"}, w \in {"big", "little"}} \cup
    {Mapped("uint16", 1, "little", "big"), Mapped("float32", 1, "big", "big"), Mapped("int16", 2, "big", "big")}

\* standing still, or discharging 2.0 kW
MCPowers == {0, Word - 20}
=============================================================================
