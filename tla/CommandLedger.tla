---------------------------- MODULE CommandLedger ----------------------------
(***************************************************************************)
(* What the commands table promises whoever dispatches through it: an      *)
(* idempotency key issues one command on a device, a command keeps its     *)
(* device and its key, and once settled it never blocks the device again.  *)
(***************************************************************************)
CONSTANTS Command, Device, Key, NoKey

VARIABLES
    phase,      \* "none", "open" or "settled"
    device,
    key

vars == <<phase, device, key>>

Init ==
    /\ phase = [c \in Command |-> "none"]
    /\ device \in [Command -> Device]
    /\ key = [c \in Command |-> NoKey]

Used(k, d) ==
    k # NoKey /\ \E c \in Command : phase[c] # "none" /\ key[c] = k /\ device[c] = d

Issue(c) ==
    /\ phase[c] = "none"
    /\ phase' = [phase EXCEPT ![c] = "open"]
    /\ \E d \in Device, k \in Key \cup {NoKey} :
          /\ ~Used(k, d)
          /\ device' = [device EXCEPT ![c] = d]
          /\ key' = [key EXCEPT ![c] = k]

Settle(c) ==
    /\ phase[c] = "open"
    /\ phase' = [phase EXCEPT ![c] = "settled"]
    /\ UNCHANGED <<device, key>>

Next == \E c \in Command : Issue(c) \/ Settle(c)

Spec == Init /\ [][Next]_vars
=============================================================================
