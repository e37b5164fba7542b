-------------------------- MODULE MCTelemetryReplay --------------------------
(* Instances of TelemetryReplay for TLC. *)
EXTENDS TelemetryReplay

\* one stream, and one of two streams interleaved
OneStream  == [i \in Reading |-> "battery_soc"]
TwoStreams == [i \in Reading |-> IF i = 2 THEN "grid_import" ELSE "battery_soc"]
=============================================================================
