---------------------------- MODULE TelemetryPipe ----------------------------
(***************************************************************************)
(* What store and forward promises of a telemetry reading: once buffered   *)
(* it is released only after the cloud has a row for it (or when it        *)
(* carries no value), and the cloud has no row before it was buffered, and *)
(* never a second one.                                                     *)
(***************************************************************************)
EXTENDS Naturals

CONSTANTS Reading,      \* readings, in the order they are taken
          NullReading   \* those without a value

VARIABLES stage,        \* what the gateway still has of each reading
          rows          \* rows of the cloud that hold it

vars == <<stage, rows>>

Init ==
    /\ stage = [i \in Reading |-> "new"]
    /\ rows = [i \in Reading |-> 0]

Buffer(S) ==
    /\ \A i \in S : stage[i] = "new"
    /\ stage' = [i \in Reading |-> IF i \in S THEN "buffered" ELSE stage[i]]
    /\ UNCHANGED rows

Deliver(i) ==
    /\ stage[i] = "buffered" /\ rows[i] = 0
    /\ rows' = [rows EXCEPT ![i] = 1]
    /\ UNCHANGED stage

Release(i) ==
    /\ stage[i] = "buffered"
    /\ rows[i] > 0 \/ i \in NullReading
    /\ stage' = [stage EXCEPT ![i] = "released"]
    /\ UNCHANGED rows

Next ==
    \/ \E S \in SUBSET Reading : Buffer(S)
    \/ \E i \in Reading : Deliver(i) \/ Release(i)

Spec == Init /\ [][Next]_vars
=============================================================================
