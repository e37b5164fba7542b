--------------------------- MODULE CommandJournal ---------------------------
(***************************************************************************)
(* What the edge command path promises: a command is accepted once, is     *)
(* applied to the device at most once and only while it is pending, and    *)
(* once resolved it is neither applied nor reopened.                       *)
(***************************************************************************)
EXTENDS Naturals

CONSTANT Command

VARIABLES phase, applied

vars == <<phase, applied>>

Init ==
    /\ phase = [c \in Command |-> "unknown"]
    /\ applied = [c \in Command |-> 0]

Accept(c) ==
    /\ phase[c] = "unknown"
    /\ phase' = [phase EXCEPT ![c] = "pending"]
    /\ UNCHANGED applied

Apply(c) ==
    /\ phase[c] = "pending" /\ applied[c] = 0
    /\ applied' = [applied EXCEPT ![c] = 1]
    /\ UNCHANGED phase

Resolve(c) ==
    /\ phase[c] = "pending"
    /\ phase' = [phase EXCEPT ![c] = "resolved"]
    /\ UNCHANGED applied

Next == \E c \in Command : Accept(c) \/ Apply(c) \/ Resolve(c)

Spec == Init /\ [][Next]_vars
=============================================================================
