----------------------------- MODULE SiteControl -----------------------------
(***************************************************************************)
(* The cloud's control loop up to the command it asks for: telemetry rows, *)
(* the site state built from them (control/state_engine.py), the rule      *)
(* engine and the battery policy with its memory of the last action        *)
(* (control/rule_engine.py, control/battery_policy.py), as optimize_run of *)
(* routers/control_loop.py calls them.  What becomes of the command is the *)
(* subject of CloudDispatch.                                               *)
(*                                                                         *)
(* Time is kept as ages.  A row has the age of its timestamp, which the    *)
(* clock of the gateway may have set up to Skew ahead, and the age of the  *)
(* reading itself.  Readings arrive late, repeated, out of order or never. *)
(*                                                                         *)
(* Abstractions.  Only the newest row of a stream is kept, the others are  *)
(* never read by the control.  The value of a row is chosen when it is     *)
(* read, within Input.  Powers are in tenths of a kW.  The policy table    *)
(* has no tariff columns, so the tariff is the flat one: a price that is   *)
(* cheap or not, and a peak where the request says so.                     *)
(***************************************************************************)
EXTENDS Integers

CONSTANTS
    Stream,         \* streams that upsert_site_defaults creates
    Critical,       \* StateEngine.CRITICAL_KEYS
    Aliases,        \* names under which a critical key is looked up, in order
    Interval,       \* polling_interval_seconds of the site
    Old,            \* bound: the age of a timestamp saturates here
    Skew,           \* bound: a gateway's clock is at most this far ahead
    Engines,        \* "request": a policy engine for each request, as in
                    \* optimize_run; "kept": one engine, as in the tests
    Duration,       \* minimum_action_duration
    Gap,            \* minimum_direction_change_gap
    Cap,            \* bound: the age of an action saturates here
    HardReserve, SocTarget, SocMax,         \* in percent
    Limit,          \* max_discharge_kw; rule_engine.py:43 takes it for both
                    \* directions and never reads max_charge_kw of the policy
    TempMax, DerateStart,
    Input           \* readings and requests considered

Reading ==
    [pv : Int, load : Int, soc : Int, temp : Int,
     cheap : BOOLEAN,       \* import_price <= 0.12
     peak : BOOLEAN,        \* forecast_peak of the request
     reserve : Int,         \* reserve_soc_min of the request
     flagged : BOOLEAN]     \* stale_critical, active_alarm, active_fault or
                            \* unresolved_critical_command of the policy

\* state_engine.py:48-53 -- the first name that has a stream, with points or not
Lookup(k) ==
    Aliases[k][CHOOSE i \in DOMAIN Aliases[k] :
                   /\ Aliases[k][i] \in Stream
                   /\ \A j \in 1 .. i - 1 : Aliases[k][j] \notin Stream]

ASSUME SiteAssumption ==
    /\ Critical # {} /\ \A k \in Critical : Lookup(k) \in Stream
    /\ Interval \in Nat /\ Skew \in Nat
    /\ Old \in Nat /\ Old > 2 * Interval
    /\ Engines \subseteq {"request", "kept"}
    /\ Duration \in Nat /\ Gap \in Nat
    /\ Cap \in Nat /\ Cap >= Duration + Old /\ Cap >= Gap + Old
    /\ {HardReserve, SocTarget, SocMax, Limit, TempMax, DerateStart} \subseteq Int
    /\ Input \subseteq Reading

VARIABLES
    row,        \* the newest row of each stream
    engine,     \* which of Engines serves
    last,       \* _last_action_type and the age of _last_action_ts
    moved       \* history: direction and age of the last charge or discharge

vars == <<row, engine, last, moved>>

NoRow    == [age |-> Old, since |-> Old + Skew, empty |-> TRUE]
NoAction == [dir |-> "none", age |-> 0]

TypeOK ==
    /\ row \in [Stream -> [age : -Skew .. Old, since : 0 .. Old + Skew, empty : BOOLEAN]]
    /\ engine \in Engines
    /\ last \in [dir : {"none", "idle", "charge", "discharge"}, age : 0 .. Cap]
    /\ moved \in [dir : {"none", "charge", "discharge"}, age : 0 .. Cap]

Init ==
    /\ row = [s \in Stream |-> NoRow]
    /\ engine \in Engines
    /\ last = NoAction
    /\ moved = NoAction

-----------------------------------------------------------------------------
(* Telemetry *)

\* Mutant: the row that arrived last is taken for the newest one.
Ingest_LastArrived(s, since, age) ==
    /\ age \in since - Skew .. since
    /\ row' = [row EXCEPT ![s] = [age |-> age, since |-> since, empty |-> FALSE]]
    /\ UNCHANGED <<engine, last, moved>>

\* control_loop.py:340-388, repository.py:363-387 -- a reading sampled "since"
\* ago arrives; an older one and one with a known timestamp change nothing
Ingest(s, since, age) ==
    /\ age \in since - Skew .. since
    /\ row[s].empty \/ age < row[s].age
    /\ row' = [row EXCEPT ![s] = [age |-> age, since |-> since, empty |-> FALSE]]
    /\ UNCHANGED <<engine, last, moved>>

\* Mutant: a row is fresh for three polling intervals.
Fresh_Late(s) == ~row[s].empty /\ row[s].age <= 3 * Interval

\* state_engine.py:62-69 -- not behind the cutoff of two polling intervals
Fresh(s) == ~row[s].empty /\ row[s].age <= 2 * Interval

\* state_engine.py:60-71
Online == \A k \in Critical : Fresh(Lookup(k))

-----------------------------------------------------------------------------
(* The battery policy *)

Smaller(a, b) == IF a < b THEN a ELSE b
Larger(a, b) == IF a > b THEN a ELSE b

Idle == [dir |-> "idle", kw |-> 0]

\* battery_policy.py:98-101 -- less than n since the last action, counted up to
\* the newest critical timestamp, which RuleEngine.evaluate takes for now
Within(n) ==
    last # NoAction /\ n > 0 /\ \A k \in Critical : last.age - row[Lookup(k)].age < n

\* battery_policy.py:103-109
LastDirection == IF last.dir = "none" THEN "idle" ELSE last.dir

\* Mutant: the reserve is left to the economic branches.
HardSafety_NoReserve(x) ==
    \/ ~Online
    \/ x.flagged
    \/ x.temp >= TempMax
    \/ x.soc >= SocMax /\ x.pv > x.load

\* battery_policy.py:42-46, 83-96
HardSafety(x) ==
    \/ ~Online
    \/ x.flagged
    \/ x.temp >= TempMax
    \/ x.soc >= SocMax /\ x.pv > x.load
    \/ x.soc <= HardReserve /\ x.load >= x.pv

Floor == 3

\* Mutant: full power at every temperature below the maximum.
DeratedLimit_Never(x) == Larger(Floor, Limit)

\* battery_policy.py:128-134
DeratedLimit(x) ==
    LET span == Larger(1, TempMax - DerateStart)
        rise == Smaller(span, x.temp - DerateStart)
    IN  IF x.temp <= DerateStart THEN Limit
                                 ELSE Larger(Floor, (Limit * (span - rise)) \div span)

\* battery_policy.py:53-59, 61-67, 69-75: charging from surplus, discharging in
\* a peak, charging off peak, in this order, each only with some power
SurplusCharge(x) == IF x.pv > x.load /\ x.soc < SocMax
                    THEN Smaller(DeratedLimit(x), x.pv - x.load) ELSE 0

PeakDischarge(x) == IF x.peak /\ x.soc > x.reserve
                    THEN Smaller(DeratedLimit(x), Larger(0, x.load)) ELSE 0

OffPeakCharge(x) == IF ~x.peak /\ x.cheap /\ x.soc < SocTarget
                    THEN Smaller(DeratedLimit(x), Larger(0, SocTarget - x.soc)) ELSE 0

Economic(x) ==
    IF SurplusCharge(x) > 0 THEN [dir |-> "charge", kw |-> SurplusCharge(x)]
    ELSE IF PeakDischarge(x) > 0 THEN [dir |-> "discharge", kw |-> PeakDischarge(x)]
    ELSE IF OffPeakCharge(x) > 0 THEN [dir |-> "charge", kw |-> OffPeakCharge(x)]
    ELSE Idle

\* battery_policy.py:111-117
ChangeBlocked(dir) == LastDirection \notin {"idle", dir} /\ Within(Gap)

\* battery_policy.py:119-126
Continue(x) ==
    CASE LastDirection = "charge" ->
           [dir |-> "charge", kw |-> Smaller(DeratedLimit(x), Larger(0, x.pv - x.load))]
      [] LastDirection = "discharge" ->
           [dir |-> "discharge", kw |-> Smaller(DeratedLimit(x), Larger(0, x.load))]
      [] OTHER -> Idle

\* Mutant: only a change of direction waits, not the duration of an action.
Decision_NoDuration(x) ==
    IF HardSafety(x) THEN Idle
    ELSE IF Economic(x).dir # "idle" /\ ChangeBlocked(Economic(x).dir) THEN Idle
    ELSE Economic(x)

\* battery_policy.py:35-81
Decision(x) ==
    IF HardSafety(x) THEN Idle
    ELSE IF Within(Duration) THEN Continue(x)
    ELSE IF Economic(x).dir # "idle" /\ ChangeBlocked(Economic(x).dir) THEN Idle
    ELSE Economic(x)

\* Mutant: a blocked action is remembered under a direction of its own.
Remember_Blocked(d) ==
    last' = IF engine = "kept" THEN [dir |-> IF d = Idle THEN "blocked" ELSE d.dir, age |-> 0]
                               ELSE NoAction

\* battery_policy.py:136-138 -- every result restarts the clock of the action;
\* an engine of the request is gone with it (control_loop.py:412)
Remember(d) == last' = IF engine = "kept" THEN [dir |-> d.dir, age |-> 0] ELSE NoAction

\* control_loop.py:404-428, rule_engine.py:18-52 -- the policy table has none of
\* the keys of the flags, only a caller that keeps the engine can pass them
Optimize(x) ==
    /\ x.flagged => engine = "kept"
    /\ Remember(Decision(x))
    /\ moved' = IF Decision(x).dir = "idle" THEN moved ELSE [dir |-> Decision(x).dir, age |-> 0]
    /\ UNCHANGED <<row, engine>>

-----------------------------------------------------------------------------
Older(a, bound) == Smaller(a + 1, bound)

Aged(action) == IF action = NoAction THEN NoAction
                ELSE [action EXCEPT !.age = Older(action.age, Cap)]

\* a unit of time passes
Tick ==
    /\ row' = [s \in Stream |-> [row[s] EXCEPT !.age = Older(@, Old), !.since = Older(@, Old + Skew)]]
    /\ last' = Aged(last)
    /\ moved' = Aged(moved)
    /\ UNCHANGED engine

Next ==
    \/ \E s \in Stream, since \in 0 .. Old, age \in -Skew .. Old : Ingest(s, since, age)
    \/ \E x \in Input : Optimize(x)
    \/ Tick

Spec == Init /\ [][Next]_vars

-----------------------------------------------------------------------------
(* Properties *)

\* The battery moves on readings that were all taken within two polling
\* intervals, give or take the clock of the gateway, however late, repeated or
\* out of order they arrived.
FreshMoves ==
    moved # NoAction /\ moved.age = 0 =>
        \A k \in Critical :
            ~row[Lookup(k)].empty /\ row[Lookup(k)].since <= 2 * Interval + Skew

\* Whatever is asked next, no discharge takes the battery below its hard
\* reserve unless the sun covers the load, and with an engine of the request
\* none below the reserve of the request either.
ReserveKept ==
    \A x \in Input : Decision(x).dir = "discharge" =>
        /\ x.soc > HardReserve \/ x.pv > x.load
        /\ engine = "request" => x.soc > HardReserve /\ x.soc > x.reserve

\* No charging into a full battery, and no more power in either direction than
\* the one limit that the engine reads; on the way from the start of the derating
\* to the highest temperature no more than the share of it that is left of the
\* way, or the least power.  (It says nothing of max_charge_kw, which no
\* decision depends on.)
PowerCapped ==
    \A x \in Input :
        LET d == Decision(x) IN
        /\ d.dir = "charge" /\ d.kw > 0 => x.soc < Larger(SocMax, SocTarget)
        /\ d.kw <= Larger(Limit, Floor)
        /\ d.kw > Floor /\ x.temp > DerateStart =>
              d.kw * (TempMax - DerateStart) <= Limit * (TempMax - x.temp)

\* A kept engine reverses the battery only when the minimum duration has
\* passed since the last movement, give or take the clock of the gateway,
\* whatever stopped the battery meanwhile, and when nothing did, only when the
\* gap of a change of direction has passed too.
ReversalSpaced ==
    [][engine = "kept" /\ moved # NoAction /\ moved'.dir # moved.dir
         => /\ moved.age >= Duration - Skew
            /\ last.dir # "idle" => moved.age >= Gap - Skew]_vars

\* A site that keeps every critical key fresh under an accepted name is online.
FreshSiteOnline ==
    (\A k \in Critical : \E i \in DOMAIN Aliases[k] :
        Aliases[k][i] \in Stream /\ Fresh(Aliases[k][i])) => Online

-----------------------------------------------------------------------------
(* The inductive invariant *)

\* a timestamp is at most Skew ahead of its reading
RowInv == \A s \in Stream : row[s].since <= row[s].age + Skew

\* the engine's last action is the last movement or came after it
EngineInv ==
    /\ engine = "request" => last = NoAction
    /\ engine = "kept" => (last = NoAction => moved = NoAction)
    /\ engine = "kept" => last.age <= moved.age \/ moved = NoAction
    /\ last.dir \in {"charge", "discharge"} => moved = last
    /\ last.dir = "none" => last = NoAction
    /\ moved.dir = "none" => moved = NoAction

\* no row of a movement goes stale before time passes
MoveInv == moved # NoAction /\ moved.age = 0 => Online

SiteInv == RowInv /\ EngineInv /\ MoveInv

-----------------------------------------------------------------------------
(* What optimize_run comes to *)

\* An engine of the request has no memory: its decision is that of the safety
\* rules and the thresholds, and neither the duration nor the gap applies.
Memoryless ==
    engine = "request" =>
        \A x \in Input : Decision(x) = IF HardSafety(x) THEN Idle ELSE Economic(x)
=============================================================================
