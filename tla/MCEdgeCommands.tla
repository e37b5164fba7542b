--------------------------- MODULE MCEdgeCommands ---------------------------
(* Instances of EdgeCommands for TLC. *)
EXTENDS EdgeCommands

CONSTANTS c1, c2, c3, s1, s2, k1

MCEffect == {"positive", "near_zero"}

\* c1 and c2 are one request sent under two ids with the same idempotency key
MCKeyOf  == [c \in Command |-> IF c = c3 THEN NoKey ELSE k1]
MCTarget == [c \in Command |-> IF c = c3 THEN "near_zero" ELSE "positive"]

\* one caller sends everything
SerialSubmits == [s \in Submitter |-> Command]

\* two callers with ids of their own
DisjointSubmits == [s \in Submitter |-> IF s = s1 THEN {c1} ELSE Command \ {c1}]

\* the same commands are delivered by both callers
DuplicateSubmits == [s \in Submitter |-> Command]
=============================================================================
