-------------------------- MODULE MCEdgeSupervisor --------------------------
(* An instance of EdgeSupervisor for TLC. *)
EXTENDS EdgeSupervisor

MCGroupOf == [p \in Point |-> IF p = "battery_soc" THEN "medium" ELSE "fast"]

\* poller.py:33-38 scaled down: the fast group in every polling interval, the
\* medium one in every second
MCPeriod == [g \in Group |-> IF g = "fast" THEN Interval
                             ELSE IF g = "medium" THEN 2 * Interval ELSE 1]
=============================================================================
