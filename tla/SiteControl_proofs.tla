------------------------- MODULE SiteControl_proofs -------------------------
(***************************************************************************)
(* Proofs about SiteControl, for any streams, aliases, thresholds, clocks  *)
(* and readings: movements rest on fresh readings, a kept engine spaces    *)
(* reversals and one of the request has no memory, every decision keeps    *)
(* the reserve and the power limit, and the charge limit of a policy binds *)
(* nothing.                                                                *)
(***************************************************************************)
EXTENDS SiteControl, TLAPS

Row == [age : -Skew .. Old, since : 0 .. Old + Skew, empty : BOOLEAN]

LEMMA DecisionType ==
    ASSUME NEW x \in Input
    PROVE  Decision(x).dir \in {"idle", "charge", "discharge"}
<1>1. Continue(x).dir \in {"idle", "charge", "discharge"}
    BY DEF Continue, Idle
<1>2. Economic(x).dir \in {"idle", "charge", "discharge"}
    BY DEF Economic, Idle
<1> QED BY <1>1, <1>2 DEF Decision, Idle

LEMMA DeratedType == ASSUME NEW x \in Input PROVE DeratedLimit(x) \in Int
<1>1. x.temp \in Int
    BY SiteAssumption DEF SiteAssumption, Reading
<1> DEFINE span == Larger(1, TempMax - DerateStart)
           rise == Smaller(span, x.temp - DerateStart)
<1>2. span \in Int /\ span > 0
    BY SiteAssumption DEF SiteAssumption, Larger
<1>3. span - rise \in Int
    BY <1>1, <1>2, SiteAssumption DEF SiteAssumption, Smaller
<1>4. Limit * (span - rise) \in Int
    <2> HIDE DEF span, rise
    <2> QED BY <1>3, SiteAssumption DEF SiteAssumption
<1>5. (Limit * (span - rise)) \div span \in Int
    <2> DEFINE n == Limit * (span - rise)
    <2>1. n \in Int
        BY <1>4
    <2> HIDE DEF n, span
    <2>2. n \div span \in Int
        BY <1>2, <2>1
    <2> QED BY <2>2 DEF n
<1> HIDE DEF rise
<1> QED BY <1>5, SiteAssumption DEF SiteAssumption, DeratedLimit, Larger, Floor, rise

-----------------------------------------------------------------------------
(* Types and the inductive invariant *)

LEMMA InitInv == Init => TypeOK /\ SiteInv
<1> SUFFICES ASSUME Init PROVE TypeOK /\ SiteInv
    OBVIOUS
<1> USE SiteAssumption DEF SiteAssumption
<1>1. NoRow \in Row
    BY DEF NoRow, Row
<1>2. row \in [Stream -> Row] /\ engine \in Engines
    BY <1>1 DEF Init
<1>3. last = NoAction /\ moved = NoAction
    BY DEF Init
<1>4. TypeOK
    BY <1>2, <1>3 DEF TypeOK, Row, NoAction
<1>5. RowInv
    <2>1. NoRow.since <= NoRow.age + Skew
        BY DEF NoRow
    <2>2. \A s \in Stream : row[s] = NoRow
        BY DEF Init
    <2> QED BY <2>1, <2>2 DEF RowInv
<1> QED BY <1>3, <1>4, <1>5 DEF SiteInv, EngineInv, MoveInv, NoAction

LEMMA IngestInv ==
    ASSUME TypeOK, SiteInv, NEW s \in Stream, NEW since \in 0 .. Old, NEW age \in -Skew .. Old,
           Ingest(s, since, age)
    PROVE  TypeOK' /\ SiteInv'
<1> USE SiteAssumption DEF SiteAssumption
<1> DEFINE new == [age |-> age, since |-> since, empty |-> FALSE]
<1>1. new \in Row /\ since <= age + Skew
    BY DEF Ingest, Row
<1>2. row' = [row EXCEPT ![s] = new] /\ UNCHANGED <<engine, last, moved>>
    BY DEF Ingest
<1>3. row \in [Stream -> Row]
    BY DEF TypeOK, Row
<1>4. row' \in [Stream -> Row]
    BY <1>1, <1>2, <1>3
<1>5. RowInv'
    BY <1>1, <1>2, <1>3 DEF SiteInv, RowInv
<1>6. \A t \in Stream : Fresh(t) => Fresh(t)'
    <2> TAKE t \in Stream
    <2>1. CASE t = s
        BY <1>1, <1>2, <1>3, <2>1 DEF Fresh, Ingest, Row
    <2>2. CASE t # s
        BY <1>2, <1>3, <2>2 DEF Fresh
    <2> QED BY <2>1, <2>2
<1>7. Online => Online'
    BY <1>6 DEF Online, Lookup
<1>8. MoveInv' /\ EngineInv'
    BY <1>2, <1>7 DEF SiteInv, MoveInv, EngineInv
<1> QED BY <1>2, <1>4, <1>5, <1>8 DEF SiteInv, TypeOK, Row

LEMMA OptimizeInv ==
    ASSUME TypeOK, SiteInv, NEW x \in Input, Optimize(x)
    PROVE  TypeOK' /\ SiteInv'
<1> USE SiteAssumption DEF SiteAssumption
<1> DEFINE d == Decision(x).dir
<1>1. d \in {"idle", "charge", "discharge"}
    BY DecisionType
<1>2. UNCHANGED <<row, engine>>
    BY DEF Optimize
<1>3. last' = IF engine = "kept" THEN [dir |-> d, age |-> 0] ELSE NoAction
    BY DEF Optimize, Remember
<1>4. moved' = IF d = "idle" THEN moved ELSE [dir |-> d, age |-> 0]
    BY DEF Optimize
<1>5. 0 \in 0 .. Cap
    OBVIOUS
<1>6. TypeOK'
    BY <1>1, <1>2, <1>3, <1>4, <1>5 DEF TypeOK, NoAction
<1>7. d # "idle" => Online
    BY DEF Decision, HardSafety, Idle
<1>8. Online <=> Online'
    BY <1>2 DEF Online, Fresh, Lookup
<1>9. MoveInv'
    BY <1>4, <1>7, <1>8 DEF SiteInv, MoveInv
<1>10. RowInv'
    BY <1>2 DEF SiteInv, RowInv
<1>11. EngineInv'
    BY <1>1, <1>2, <1>3, <1>4 DEF SiteInv, EngineInv, TypeOK, NoAction
<1> QED BY <1>6, <1>9, <1>10, <1>11 DEF SiteInv

LEMMA TickInv == TypeOK /\ SiteInv /\ Tick => TypeOK' /\ SiteInv'
<1> SUFFICES ASSUME TypeOK, SiteInv, Tick PROVE TypeOK' /\ SiteInv'
    OBVIOUS
<1> USE SiteAssumption DEF SiteAssumption
<1>1. row \in [Stream -> Row]
    BY DEF TypeOK, Row
<1>2. \A s \in Stream :
        /\ row'[s].age = Older(row[s].age, Old)
        /\ row'[s].since = Older(row[s].since, Old + Skew)
        /\ row'[s].empty = row[s].empty
    BY <1>1 DEF Tick, Row
<1>3. row' \in [Stream -> Row]
    <2>1. ASSUME NEW s \in Stream
          PROVE  [row[s] EXCEPT !.age = Older(@, Old), !.since = Older(@, Old + Skew)] \in Row
        <3>1. row[s] \in Row
            BY <1>1
        <3>2. Older(row[s].age, Old) \in -Skew .. Old
            BY <3>1 DEF Row, Older, Smaller
        <3>3. Older(row[s].since, Old + Skew) \in 0 .. Old + Skew
            BY <3>1 DEF Row, Older, Smaller
        <3> QED BY <3>1, <3>2, <3>3 DEF Row
    <2> QED BY <2>1 DEF Tick
<1>4. RowInv'
    BY <1>1, <1>2 DEF SiteInv, RowInv, Older, Smaller, Row
<1>5. last' = Aged(last) /\ moved' = Aged(moved) /\ engine' = engine
    BY DEF Tick
<1>6. Older(last.age, Cap) \in 0 .. Cap /\ Older(moved.age, Cap) \in 1 .. Cap
    BY DEF TypeOK, Older, Smaller
<1>7. last' \in [dir : {"none", "idle", "charge", "discharge"}, age : 0 .. Cap]
    BY <1>5, <1>6 DEF TypeOK, Aged, NoAction
<1>8. moved' \in [dir : {"none", "charge", "discharge"}, age : 0 .. Cap]
    BY <1>5, <1>6 DEF TypeOK, Aged, NoAction
<1>9. moved # NoAction => moved'.age # 0
    BY <1>5, <1>6 DEF Aged, TypeOK
<1>10. moved = NoAction => moved' = NoAction
    BY <1>5 DEF Aged
<1>11. MoveInv'
    BY <1>9, <1>10 DEF MoveInv
<1>12. EngineInv'
    <2>1. /\ last = NoAction => last' = NoAction
          /\ last # NoAction => last'.dir = last.dir /\ last'.age = Older(last.age, Cap)
          /\ moved # NoAction => moved'.dir = moved.dir /\ moved'.age = Older(moved.age, Cap)
        BY <1>5 DEF Aged, TypeOK
    <2>2. last.age <= moved.age => Older(last.age, Cap) <= Older(moved.age, Cap)
        BY DEF TypeOK, Older, Smaller
    <2>3. moved = last => moved' = last'
        BY <1>5
    <2> QED BY <1>5, <1>6, <1>10, <2>1, <2>2, <2>3 DEF SiteInv, EngineInv, NoAction, TypeOK
<1> QED BY <1>3, <1>4, <1>5, <1>7, <1>8, <1>11, <1>12 DEF SiteInv, TypeOK, Row

LEMMA NextInv == TypeOK /\ SiteInv /\ [Next]_vars => (TypeOK /\ SiteInv)'
<1> SUFFICES ASSUME TypeOK, SiteInv, [Next]_vars PROVE (TypeOK /\ SiteInv)'
    OBVIOUS
<1>1. CASE UNCHANGED vars
    BY <1>1 DEF vars, TypeOK, SiteInv, RowInv, EngineInv, MoveInv, Online, Fresh, Lookup
<1> QED BY <1>1, IngestInv, OptimizeInv, TickInv DEF Next

LEMMA InvCorrect == Spec => [](TypeOK /\ SiteInv)
BY InitInv, NextInv, PTL DEF Spec

-----------------------------------------------------------------------------
(* The theorems *)

\* Every reachable state of the rows and of the engine is well typed.
THEOREM TypeCorrect == Spec => []TypeOK
BY InvCorrect, PTL

\* The battery moves on readings taken within two polling intervals, give or
\* take the clock of the gateway.
THEOREM FreshMovesCorrect == Spec => []FreshMoves
<1>1. TypeOK /\ SiteInv => FreshMoves
    <2> SUFFICES ASSUME TypeOK, SiteInv, moved # NoAction, moved.age = 0, NEW k \in Critical
                 PROVE  ~row[Lookup(k)].empty /\ row[Lookup(k)].since <= 2 * Interval + Skew
        BY DEF FreshMoves
    <2>1. Fresh(Lookup(k))
        BY DEF SiteInv, MoveInv, Online
    <2>2. Lookup(k) \in Stream
        BY SiteAssumption DEF SiteAssumption
    <2>3. row[Lookup(k)] \in Row /\ row[Lookup(k)].since <= row[Lookup(k)].age + Skew
        BY <2>2 DEF TypeOK, Row, SiteInv, RowInv
    <2> QED BY <2>1, <2>3, SiteAssumption DEF Fresh, Row, SiteAssumption
<1> QED BY <1>1, InvCorrect, PTL

\* No discharge below the hard reserve while the load exceeds the sun, and with
\* an engine of the request none below the reserve of the request.
THEOREM ReserveKeptCorrect == Spec => []ReserveKept
<1>1. TypeOK /\ SiteInv => ReserveKept
    <2> SUFFICES ASSUME TypeOK, SiteInv, NEW x \in Input, Decision(x).dir = "discharge"
                 PROVE  /\ x.soc > HardReserve \/ x.pv > x.load
                        /\ engine = "request" => x.soc > HardReserve /\ x.soc > x.reserve
        BY DEF ReserveKept
    <2> USE SiteAssumption DEF SiteAssumption
    <2>1. x \in Reading
        OBVIOUS
    <2>2. ~HardSafety(x)
        BY DEF Decision, Idle
    <2>3. x.soc > HardReserve \/ x.pv > x.load
        BY <2>1, <2>2 DEF HardSafety, Reading
    <2>4. ASSUME engine = "request" PROVE x.soc > HardReserve /\ x.soc > x.reserve
        <3>1. ~Within(Duration)
            BY <2>4 DEF Within, SiteInv, EngineInv
        <3>2. Economic(x).dir = "discharge"
            BY <2>2, <3>1 DEF Decision, Idle
        <3>3. ~(SurplusCharge(x) > 0) /\ PeakDischarge(x) > 0
            BY <3>2 DEF Economic, Idle
        <3>4. x.soc > x.reserve /\ Smaller(DeratedLimit(x), Larger(0, x.load)) > 0
            BY <3>3 DEF PeakDischarge
        <3>5. CASE x.pv > x.load /\ x.soc < SocMax
            <4>1. DeratedLimit(x) > 0 /\ x.pv - x.load > 0
                BY <2>1, <3>4, <3>5, DeratedType DEF Smaller, Larger, Reading
            <4>2. Smaller(DeratedLimit(x), x.pv - x.load) > 0
                BY <4>1 DEF Smaller
            <4> QED BY <3>3, <3>5, <4>2 DEF SurplusCharge
        <3>6. CASE x.pv > x.load /\ ~(x.soc < SocMax)
            BY <2>1, <2>2, <3>6 DEF HardSafety, Reading
        <3>7. CASE ~(x.pv > x.load)
            BY <2>1, <2>3, <3>4, <3>7 DEF Reading
        <3> QED BY <3>5, <3>6, <3>7
    <2> QED BY <2>3, <2>4
<1> QED BY <1>1, InvCorrect, PTL

\* When n is not within the last action any more, counted to a timestamp that is
\* at most Skew ahead, the action is at least n less Skew old.
LEMMA NotWithin ==
    ASSUME TypeOK, NEW n \in Nat, last # NoAction, ~Within(n)
    PROVE  last.age >= n - Skew
<1> USE SiteAssumption DEF SiteAssumption
<1>1. CASE n = 0
    BY <1>1 DEF TypeOK
<1>2. CASE n > 0
    <2>1. PICK k \in Critical : ~(last.age - row[Lookup(k)].age < n)
        BY <1>2 DEF Within
    <2>2. row[Lookup(k)].age \in -Skew .. Old
        BY DEF TypeOK
    <2> QED BY <2>1, <2>2 DEF TypeOK
<1> QED BY <1>1, <1>2

\* A kept engine reverses the battery only when the minimum duration has
\* passed since the last movement, and without a stop in between the gap too,
\* give or take the clock of the gateway (battery_policy.py:48-51, 111-117).
THEOREM ReversalSpacedCorrect == Spec => ReversalSpaced
<1>1. ASSUME TypeOK, SiteInv, [Next]_vars, engine = "kept", moved # NoAction, moved'.dir # moved.dir
      PROVE  /\ moved.age >= Duration - Skew
             /\ last.dir # "idle" => moved.age >= Gap - Skew
    <2> USE <1>1, SiteAssumption DEF SiteAssumption
    <2>1. PICK x \in Input : Optimize(x)
        <3>1. CASE Tick
            BY <3>1 DEF Tick, Aged, TypeOK
        <3>2. ASSUME NEW s \in Stream, NEW since \in 0 .. Old, NEW age \in -Skew .. Old,
                     Ingest(s, since, age)
              PROVE  FALSE
            BY <3>2 DEF Ingest
        <3> QED BY <3>1, <3>2 DEF Next, vars
    <2>2. Decision(x).dir # "idle" /\ Decision(x).dir # moved.dir
        BY <2>1 DEF Optimize
    <2>3. last # NoAction /\ last.age <= moved.age
        BY <2>2 DEF SiteInv, EngineInv
    <2>4. ~Within(Duration)
        <3> SUFFICES ASSUME Within(Duration) PROVE FALSE
            OBVIOUS
        <3>1. Decision(x) = Continue(x)
            BY <2>2 DEF Decision, Idle
        <3>2. LastDirection \in {"charge", "discharge"} /\ Decision(x).dir = LastDirection
            BY <2>2, <3>1 DEF Continue, Idle
        <3>3. last.dir = LastDirection /\ moved = last
            BY <3>2 DEF LastDirection, SiteInv, EngineInv
        <3> QED BY <2>2, <3>2, <3>3
    <2>5. ASSUME last.dir # "idle" PROVE ~Within(Gap)
        <3>1. Decision(x) = Economic(x) /\ ~ChangeBlocked(Decision(x).dir)
            BY <2>2, <2>4 DEF Decision, Idle
        <3>2. last.dir \in {"charge", "discharge"} /\ moved = last
            BY <2>3, <2>5 DEF SiteInv, EngineInv, TypeOK
        <3>3. LastDirection = last.dir /\ LastDirection \notin {"idle", Decision(x).dir}
            BY <2>2, <3>2 DEF LastDirection
        <3> QED BY <3>1, <3>3 DEF ChangeBlocked
    <2>6. last.age >= Duration - Skew /\ (last.dir # "idle" => last.age >= Gap - Skew)
        BY <2>3, <2>4, <2>5, NotWithin
    <2> QED BY <2>3, <2>6 DEF TypeOK
<1>2. TypeOK /\ SiteInv /\ [Next]_vars =>
        [engine = "kept" /\ moved # NoAction /\ moved'.dir # moved.dir
           => /\ moved.age >= Duration - Skew
              /\ last.dir # "idle" => moved.age >= Gap - Skew]_vars
    BY <1>1
<1> QED BY <1>2, InvCorrect, PTL DEF Spec, ReversalSpaced

LEMMA MemorylessHere == TypeOK /\ SiteInv => Memoryless
<1> SUFFICES ASSUME TypeOK, SiteInv, engine = "request", NEW x \in Input
             PROVE  Decision(x) = IF HardSafety(x) THEN Idle ELSE Economic(x)
    BY DEF Memoryless
<1>1. last = NoAction
    BY DEF SiteInv, EngineInv
<1>2. \A n : ~Within(n)
    BY <1>1 DEF Within
<1>3. \A dir : ~ChangeBlocked(dir)
    BY <1>2 DEF ChangeBlocked
<1> QED BY <1>2, <1>3 DEF Decision

\* What optimize_run decides with its own engine (control_loop.py:412) depends on
\* the readings and the request alone, whatever it decided before.
THEOREM MemorylessCorrect == Spec => []Memoryless
BY MemorylessHere, InvCorrect, PTL

-----------------------------------------------------------------------------
(* The power of a decision *)

\* the part m of n of a limit, rounded down
LEMMA Share ==
    ASSUME NEW limit \in Int, NEW n \in Nat, n > 0, NEW m \in Nat, m <= n
    PROVE  /\ (limit * m) \div n \in Int
           /\ ((limit * m) \div n) * n <= limit * m
           /\ limit >= 0 => (limit * m) \div n <= limit
<1> DEFINE p == limit * m
           q == p \div n
<1>1. p \in Int
    OBVIOUS
<1> HIDE DEF p
<1>2. q \in Int /\ q * n <= p
    BY <1>1
<1> HIDE DEF q
<1>3. ASSUME limit >= 0 PROVE q <= limit
    <2> SUFFICES ASSUME q >= limit + 1 PROVE FALSE
        BY <1>2
    <2>1. q * n >= (limit + 1) * n
        BY <1>2
    <2>2. (limit + 1) * n = limit * n + n
        OBVIOUS
    <2>3. p <= limit * n
        BY <1>3 DEF p
    <2> QED BY <1>1, <1>2, <2>1, <2>2, <2>3
<1> QED BY <1>2, <1>3 DEF p, q

LEMMA Derating ==
    ASSUME NEW x \in Input, x.temp < TempMax
    PROVE  /\ DeratedLimit(x) <= Larger(Limit, Floor)
           /\ DeratedLimit(x) > Floor /\ x.temp > DerateStart =>
                DeratedLimit(x) * (TempMax - DerateStart) <= Limit * (TempMax - x.temp)
<1> USE SiteAssumption DEF SiteAssumption
<1>0. x.temp \in Int
    BY DEF Reading
<1>1. CASE x.temp <= DerateStart
    BY <1>0, <1>1 DEF DeratedLimit, Larger, Floor
<1>2. CASE x.temp > DerateStart
    <2> DEFINE n == TempMax - DerateStart
               m == TempMax - x.temp
               q == (Limit * m) \div n
    <2>1. n \in Nat /\ n > 0 /\ m \in Nat /\ m <= n
        BY <1>0, <1>2
    <2>2. DeratedLimit(x) = Larger(Floor, q)
        <3>1. Larger(1, TempMax - DerateStart) = n
            BY <2>1 DEF Larger
        <3>2. n - Smaller(n, x.temp - DerateStart) = m
            BY <1>0, <1>2 DEF Smaller
        <3> QED BY <1>0, <1>2, <3>1, <3>2 DEF DeratedLimit
    <2> HIDE DEF n, m
    <2>3. q \in Int /\ q * n <= Limit * m /\ (Limit >= 0 => q <= Limit)
        BY <2>1, Share
    <2>4. Limit < 0 => q <= 0
        <3> SUFFICES ASSUME Limit < 0, q >= 1 PROVE FALSE
            BY <2>3
        <3>1. Limit * m <= 0
            BY <2>1
        <3>2. q * n >= n
            BY <2>1, <2>3
        <3> QED BY <2>1, <2>3, <3>1, <3>2
    <2> HIDE DEF q
    <2>5. DeratedLimit(x) <= Larger(Limit, Floor)
        BY <2>2, <2>3, <2>4 DEF Larger, Floor
    <2>6. DeratedLimit(x) > Floor => DeratedLimit(x) * n <= Limit * m
        <3> SUFFICES ASSUME DeratedLimit(x) > Floor PROVE DeratedLimit(x) = q
            BY <2>3
        <3> QED BY <2>2, <2>3 DEF Larger, Floor
    <2> QED BY <2>5, <2>6 DEF n, m
<1> QED BY <1>0, <1>1, <1>2

\* A decision charges only a battery that is not full and asks for no more than
\* the limit; above the start of the derating its power is at most the share of
\* the limit that the temperature leaves, or the least power of the derating
\* (battery_policy.py:53-75, 119-134).
THEOREM PowerCappedCorrect == Spec => []PowerCapped
<1>1. PowerCapped
    <2> USE SiteAssumption DEF SiteAssumption
    <2> SUFFICES ASSUME NEW x \in Input
                 PROVE  /\ Decision(x).dir = "charge" /\ Decision(x).kw > 0 => x.soc < Larger(SocMax, SocTarget)
                        /\ Decision(x).kw <= Larger(Limit, Floor)
                        /\ Decision(x).kw > Floor /\ x.temp > DerateStart =>
                              Decision(x).kw * (TempMax - DerateStart) <= Limit * (TempMax - x.temp)
        BY DEF PowerCapped
    <2>1. /\ x.pv \in Int /\ x.load \in Int /\ x.soc \in Int /\ x.temp \in Int
          /\ DeratedLimit(x) \in Int
        BY DeratedType DEF Reading
    <2>2. CASE Decision(x) = Idle
        BY <2>2 DEF Idle, Larger, Floor
    <2>3. CASE Decision(x) # Idle
        <3>1. ~HardSafety(x) /\ Decision(x) \in {Continue(x), Economic(x)}
            BY <2>3 DEF Decision
        <3>2. x.temp < TempMax
            BY <2>1, <3>1 DEF HardSafety
        <3>3. Continue(x).dir = "charge" /\ Continue(x).kw > 0 => x.soc < Larger(SocMax, SocTarget)
            <4>1. SUFFICES ASSUME x.pv > x.load PROVE x.soc < Larger(SocMax, SocTarget)
                BY <2>1 DEF Continue, Idle, Smaller, Larger
            <4>2. x.soc < SocMax
                BY <2>1, <3>1, <4>1 DEF HardSafety
            <4> QED BY <2>1, <4>2 DEF Larger
        <3>4. Economic(x).dir = "charge" => x.soc < Larger(SocMax, SocTarget)
            <4>1. SurplusCharge(x) > 0 => x.soc < SocMax
                BY DEF SurplusCharge
            <4>2. OffPeakCharge(x) > 0 => x.soc < SocTarget
                BY DEF OffPeakCharge
            <4>3. Economic(x).dir = "charge" => SurplusCharge(x) > 0 \/ OffPeakCharge(x) > 0
                BY DEF Economic, Idle
            <4> QED BY <2>1, <4>1, <4>2, <4>3 DEF Larger
        <3>5. Decision(x).kw \in Int /\ (Decision(x).kw <= 0 \/ Decision(x).kw <= DeratedLimit(x))
            <4>1. Continue(x).kw \in Int /\ (Continue(x).kw <= 0 \/ Continue(x).kw <= DeratedLimit(x))
                BY <2>1 DEF Continue, Idle, Smaller, Larger
            <4>2. /\ SurplusCharge(x) \in Int /\ (SurplusCharge(x) <= 0 \/ SurplusCharge(x) <= DeratedLimit(x))
                  /\ PeakDischarge(x) \in Int /\ (PeakDischarge(x) <= 0 \/ PeakDischarge(x) <= DeratedLimit(x))
                  /\ OffPeakCharge(x) \in Int /\ (OffPeakCharge(x) <= 0 \/ OffPeakCharge(x) <= DeratedLimit(x))
                BY <2>1 DEF SurplusCharge, PeakDischarge, OffPeakCharge, Smaller, Larger
            <4>3. Economic(x).kw \in {0, SurplusCharge(x), PeakDischarge(x), OffPeakCharge(x)}
                BY DEF Economic, Idle
            <4>4. Economic(x).kw \in Int /\ (Economic(x).kw <= 0 \/ Economic(x).kw <= DeratedLimit(x))
                BY <4>2, <4>3
            <4> QED BY <3>1, <4>1, <4>4
        <3>6. /\ DeratedLimit(x) <= Larger(Limit, Floor)
              /\ DeratedLimit(x) > Floor /\ x.temp > DerateStart =>
                    DeratedLimit(x) * (TempMax - DerateStart) <= Limit * (TempMax - x.temp)
            BY <3>2, Derating
        <3>7. Decision(x).kw <= Larger(Limit, Floor)
            BY <2>1, <3>5, <3>6 DEF Larger, Floor
        <3>8. ASSUME Decision(x).kw > Floor, x.temp > DerateStart
              PROVE  Decision(x).kw * (TempMax - DerateStart) <= Limit * (TempMax - x.temp)
            <4> DEFINE n == TempMax - DerateStart
                       k == Decision(x).kw
            <4>1. n \in Nat /\ k \in Int /\ k <= DeratedLimit(x) /\ DeratedLimit(x) > Floor
                BY <2>1, <3>2, <3>5, <3>8 DEF Floor
            <4> HIDE DEF n, k
            <4>2. k * n <= DeratedLimit(x) * n
                BY <2>1, <4>1
            <4>3. DeratedLimit(x) * n <= Limit * (TempMax - x.temp)
                BY <3>6, <3>8, <4>1 DEF n
            <4>4. k * n \in Int /\ DeratedLimit(x) * n \in Int /\ Limit * (TempMax - x.temp) \in Int
                BY <2>1, <4>1
            <4> QED BY <4>2, <4>3, <4>4 DEF n, k
        <3> QED BY <3>1, <3>3, <3>4, <3>7, <3>8
    <2> QED BY <2>2, <2>3
<1> QED BY <1>1, PTL

\* The charge limit of a policy (max_charge_kw of migrations/0004:75, and of
\* docs/CONTROL_LOGIC.md:10) binds nothing: rule_engine.py:43 reads the discharge
\* limit alone, so whatever maxCharge is, a cool battery that is neither empty
\* nor full is charged with more than it, once the surplus and the discharge
\* limit are more than it.
THEOREM ChargeLimitUnread ==
    ASSUME NEW maxCharge \in Nat, NEW x \in Input,
           engine = "request", TypeOK, SiteInv, Online, ~x.flagged,
           x.temp <= DerateStart, DerateStart < TempMax,
           x.soc < SocMax, x.pv - x.load > maxCharge, Limit > maxCharge
    PROVE  Decision(x).dir = "charge" /\ Decision(x).kw > maxCharge
<1>1. /\ x.pv \in Int /\ x.load \in Int /\ x.soc \in Int /\ x.temp \in Int
      /\ {HardReserve, SocTarget, SocMax, Limit, TempMax, DerateStart} \subseteq Int
    BY SiteAssumption DEF SiteAssumption, Reading
<1>2. Decision(x) = IF HardSafety(x) THEN Idle ELSE Economic(x)
    BY MemorylessHere DEF Memoryless
<1>3. ~HardSafety(x)
    BY <1>1 DEF HardSafety
<1>4. SurplusCharge(x) > maxCharge
    BY <1>1 DEF SurplusCharge, DeratedLimit, Smaller
<1>5. SurplusCharge(x) \in Int
    BY <1>1 DEF SurplusCharge, DeratedLimit, Smaller
<1> QED BY <1>2, <1>3, <1>4, <1>5 DEF Economic
=============================================================================
