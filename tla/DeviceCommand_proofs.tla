------------------------ MODULE DeviceCommand_proofs ------------------------
(***************************************************************************)
(* Proofs about DeviceCommand, for every size of a byte, every family of   *)
(* profiles and commands, every limit of the circuit breaker and every     *)
(* window: types, what a validated profile excludes, what an               *)
(* acknowledgement says about the device, the rate of writes, and that the *)
(* decoder inverts the layout of a number in registers.                    *)
(***************************************************************************)
EXTENDS DeviceCommand, SequenceTheorems, WellFoundedInduction, TLAPS

-----------------------------------------------------------------------------
(* Registers of 16 bits *)

\* A word has an even number of values, the upper half of which are negative.
LEMMA WordFacts == Word \in Nat /\ Half \in Nat /\ Half > 0 /\ Word = 2 * Half
<1> DEFINE h == Base \div 2
<1>1. Base \in Nat /\ h \in Nat /\ h > 0 /\ Base = 2 * h
    BY BaseAssumption
<1> HIDE DEF h
<1>2. h * Base \in Nat /\ h * Base > 0 /\ Base * Base = 2 * (h * Base)
    BY <1>1
<1> QED BY <1>2 DEF Word, Half, h

\* What is written fits the register, whatever the command asks for.
LEMMA EncodeType == \A v \in Int : Encode16(v) \in 0 .. Word - 1
BY WordFacts DEF Encode16

\* A number within 16 bits is read back as it was written.
THEOREM RoundTrip == \A v \in Int : -Half <= v /\ v < Half => Int16(Encode16(v)) = v
<1> SUFFICES ASSUME NEW v \in Int, -Half <= v, v < Half PROVE Int16(Encode16(v)) = v
    OBVIOUS
<1> USE WordFacts
<1>1. CASE v >= 0
    <2>1. v % Word = v /\ v < Word
        BY <1>1
    <2> QED BY <1>1, <2>1 DEF Int16, Encode16
<1>2. CASE v < 0
    <2>1. v % Word = v + Word
        BY <1>2
    <2>2. (v + Word) % Word = v + Word /\ v + Word >= Half
        BY <1>2
    <2> QED BY <2>1, <2>2 DEF Int16, Encode16
<1> QED BY <1>1, <1>2

-----------------------------------------------------------------------------
(* The tail of a list of ages *)

Ordered(s) == \A i, j \in DOMAIN s : i < j => s[i] >= s[j]

\* n elements of s, the last ones, are below the bound
TailBelow(s, bound, n) ==
    /\ n \in 0 .. Len(s)
    /\ \A i \in 1 .. Len(s) : s[i] < bound <=> i > Len(s) - n

\* A set of numbers that is not empty has a least one.
LEMMA Least ==
    ASSUME NEW T, T \subseteq Nat, T # {}
    PROVE  \E k \in T : \A l \in T : k <= l
<1>1. PICK k \in T : \A l \in T : ~(<<l, k>> \in OpToRel(<, Nat))
    BY NatLessThanWellFounded, WFMin
<1>2. \A l \in T : ~(l < k)
    BY <1>1 DEF OpToRel
<1> QED BY <1>2

\* A list in order has such a tail for every bound, ...
LEMMA TailExists ==
    ASSUME NEW s \in Seq(Nat), Ordered(s), NEW bound \in Nat
    PROVE  \E n : TailBelow(s, bound, n)
<1> DEFINE T == {k \in 0 .. Len(s) : \A i \in 1 .. Len(s) : i > k => s[i] < bound}
<1>1. Len(s) \in Nat /\ DOMAIN s = 1 .. Len(s) /\ \A i \in 1 .. Len(s) : s[i] \in Nat
    OBVIOUS
<1>2. Len(s) \in T
    BY <1>1
<1>3. PICK k \in T : \A l \in T : k <= l
    <2>1. T \subseteq Nat /\ T # {}
        BY <1>1, <1>2
    <2> HIDE DEF T
    <2> QED BY <2>1, Least
<1>4. ASSUME NEW i \in 1 .. Len(s), i <= k PROVE ~(s[i] < bound)
    <2> k \in 0 .. Len(s) /\ k - 1 \in 0 .. Len(s) /\ ~(k <= k - 1)
        BY <1>1, <1>4
    <2>1. k - 1 \notin T
        <3> HIDE DEF T
        <3> QED BY <1>3
    <2>2. PICK j \in 1 .. Len(s) : j > k - 1 /\ ~(s[j] < bound)
        BY <2>1
    <2>3. j = k
        BY <1>1, <1>3, <2>2
    <2>4. i \in DOMAIN s /\ j \in DOMAIN s /\ (i < j \/ i = j)
        BY <1>1, <1>4, <2>3
    <2>5. CASE i < j
        <3>1. s[i] >= s[j]
            BY <2>4, <2>5 DEF Ordered
        <3> QED BY <1>1, <2>2, <3>1
    <2>6. CASE i = j
        BY <2>2, <2>6
    <2> QED BY <2>4, <2>5, <2>6
<1>5. TailBelow(s, bound, Len(s) - k)
    BY <1>1, <1>3, <1>4 DEF TailBelow
<1> QED BY <1>5

\* ... and only one.
LEMMA TailUnique ==
    ASSUME NEW s \in Seq(Nat), NEW bound \in Nat, NEW n, NEW m, TailBelow(s, bound, n), TailBelow(s, bound, m)
    PROVE  n = m
<1>1. Len(s) \in Nat /\ n \in 0 .. Len(s) /\ m \in 0 .. Len(s)
    BY DEF TailBelow
<1>2. CASE n < m
    <2> DEFINE i == Len(s) - n
    <2>1. i \in 1 .. Len(s) /\ ~(i > Len(s) - n) /\ i > Len(s) - m
        BY <1>1, <1>2
    <2> HIDE DEF i
    <2> QED BY <2>1 DEF TailBelow
<1>3. CASE m < n
    <2> DEFINE i == Len(s) - m
    <2>1. i \in 1 .. Len(s) /\ ~(i > Len(s) - m) /\ i > Len(s) - n
        BY <1>1, <1>3
    <2> HIDE DEF i
    <2> QED BY <2>1 DEF TailBelow
<1> QED BY <1>1, <1>2, <1>3

\* Younger returns that tail.
LEMMA YoungerIsTail ==
    ASSUME NEW s \in Seq(Nat), Ordered(s), NEW bound \in Nat
    PROVE  /\ Younger(s, bound) \in Seq(Nat)
           /\ TailBelow(s, bound, Len(Younger(s, bound)))
           /\ \A i \in 1 .. Len(Younger(s, bound)) :
                 Younger(s, bound)[i] = s[Len(s) - Len(Younger(s, bound)) + i]
<1> DEFINE Splits(k) == \A i \in DOMAIN s : s[i] < bound <=> i > k
           old == CHOOSE k \in 0 .. Len(s) : Splits(k)
<1>1. Len(s) \in Nat /\ DOMAIN s = 1 .. Len(s)
    OBVIOUS
<1>2. PICK n : TailBelow(s, bound, n)
    BY TailExists
<1>3. Len(s) - n \in 0 .. Len(s) /\ Splits(Len(s) - n)
    BY <1>1, <1>2 DEF TailBelow
<1>4. old \in 0 .. Len(s) /\ Splits(old)
    BY <1>3
<1>5. Younger(s, bound) = SubSeq(s, old + 1, Len(s))
    BY DEF Younger
<1>6. TailBelow(s, bound, Len(s) - old)
    <2> HIDE DEF old
    <2>1. Len(s) - (Len(s) - old) = old /\ Len(s) - old \in 0 .. Len(s)
        BY <1>1, <1>4
    <2> QED BY <1>1, <1>4, <2>1 DEF TailBelow
<1> HIDE DEF old, Splits
<1>7. /\ SubSeq(s, old + 1, Len(s)) \in Seq(Nat)
      /\ Len(SubSeq(s, old + 1, Len(s))) = Len(s) - old
      /\ \A i \in 1 .. Len(s) - old : SubSeq(s, old + 1, Len(s))[i] = s[old + i]
    <2>1. \A i \in 1 .. Len(s) - old : (old + 1) + i - 1 = old + i
        BY <1>1, <1>4
    <2>2. /\ old + 1 \in 1 .. Len(s) + 1 /\ Len(s) \in old .. Len(s)
          /\ (Len(s) - (old + 1)) + 1 = Len(s) - old
        BY <1>1, <1>4
    <2>3. \A i \in old + 1 .. Len(s) : s[i] \in Nat
        BY <1>1, <1>4
    <2>4. SubSeq(s, old + 1, Len(s)) \in Seq(Nat)
        BY <2>2, <2>3, SubSeqProperties
    <2>5. Len(SubSeq(s, old + 1, Len(s))) = Len(s) - old
        <3>1. Len(SubSeq(s, old + 1, Len(s))) = IF old + 1 <= Len(s) THEN Len(s) - (old + 1) + 1 ELSE 0
            BY <2>2, <2>3, SubSeqProperties
        <3>2. old = Len(s) \/ old + 1 <= Len(s)
            <4>1. \A l \in Nat : \A k \in 0 .. l : k = l \/ k + 1 <= l
                OBVIOUS
            <4> QED BY <1>1, <1>4, <4>1, Zenon
        <3>3. CASE old = Len(s)
            <4>1. ~(old + 1 <= Len(s)) /\ Len(s) - old = 0
                BY <1>1, <3>3
            <4> QED BY <3>1, <4>1, Zenon
        <3>4. CASE old + 1 <= Len(s)
            BY <2>2, <3>1, <3>4, Zenon
        <3> QED BY <3>2, <3>3, <3>4
    <2>6. \A i \in 1 .. Len(s) - old : SubSeq(s, old + 1, Len(s))[i] = s[old + i]
        <3> DEFINE first == old + 1
        <3>1. first \in Int /\ \A i \in first .. Len(s) : s[i] \in Nat
            BY <2>2, <2>3
        <3>2. \A i \in 1 .. Len(s) - first + 1 : SubSeq(s, first, Len(s))[i] = s[first + i - 1]
            <4> HIDE DEF first
            <4> QED BY <1>1, <3>1, SubSeqProperties
        <3> QED BY <2>1, <2>2, <3>2
    <2> QED BY <2>4, <2>5, <2>6
<1>8. Len(s) - (Len(s) - old) = old
    BY <1>1, <1>4
<1> QED BY <1>5, <1>6, <1>7, <1>8

Count(s, bound) == Len(Younger(s, bound))

LEMMA CountIs ==
    ASSUME NEW s \in Seq(Nat), Ordered(s), NEW bound \in Nat, NEW n, TailBelow(s, bound, n)
    PROVE  Count(s, bound) = n
BY YoungerIsTail, TailUnique DEF Count

LEMMA CountType ==
    ASSUME NEW s \in Seq(Nat), Ordered(s), NEW bound \in Nat
    PROVE  TailBelow(s, bound, Count(s, bound)) /\ Count(s, bound) \in 0 .. Len(s)
BY YoungerIsTail DEF Count, TailBelow

\* What holds of the list that a write appends to, that a tick makes older and
\* that a window cuts.
LEMMA Appended ==
    ASSUME NEW s \in Seq(Nat), Ordered(s)
    PROVE  /\ Append(s, 0) \in Seq(Nat) /\ Ordered(Append(s, 0))
           /\ Count(Append(s, 0), 0) = 0 /\ Count(s, 0) = 0
           /\ \A bound \in Nat \ {0} : Count(Append(s, 0), bound) = Count(s, bound) + 1
<1> DEFINE t == Append(s, 0)
<1>1. /\ t \in Seq(Nat) /\ Len(t) = Len(s) + 1 /\ Len(s) \in Nat
      /\ DOMAIN s = 1 .. Len(s) /\ DOMAIN t = 1 .. Len(s) + 1
      /\ \A i \in 1 .. Len(s) : t[i] = s[i] /\ s[i] \in Nat
      /\ t[Len(s) + 1] = 0
    OBVIOUS
<1> HIDE DEF t
<1>2. Ordered(t)
    <2> SUFFICES ASSUME NEW i \in 1 .. Len(s) + 1, NEW j \in 1 .. Len(s) + 1, i < j PROVE t[i] >= t[j]
        BY <1>1 DEF Ordered
    <2>1. i \in 1 .. Len(s)
        BY <1>1
    <2>2. CASE j \in 1 .. Len(s)
        <3>1. s[i] >= s[j]
            BY <1>1, <2>1, <2>2 DEF Ordered
        <3> QED BY <1>1, <2>1, <2>2, <3>1
    <2>3. CASE j \notin 1 .. Len(s)
        <3>1. j = Len(s) + 1
            <4>1. Len(s) \in Nat
                OBVIOUS
            <4> QED BY <2>3, <4>1
        <3>2. t[j] = 0 /\ t[i] \in Nat
            BY <1>1, <2>1, <3>1
        <3> QED BY <3>2
    <2> QED BY <2>2, <2>3
<1>3. TailBelow(t, 0, 0) /\ TailBelow(s, 0, 0)
    BY <1>1 DEF TailBelow
<1>4. ASSUME NEW bound \in Nat \ {0} PROVE Count(t, bound) = Count(s, bound) + 1
    <2>1. TailBelow(s, bound, Count(s, bound)) /\ Count(s, bound) \in 0 .. Len(s)
        BY CountType
    <2>2. TailBelow(t, bound, Count(s, bound) + 1)
        <3> DEFINE n == Count(s, bound)
        <3> SUFFICES ASSUME NEW i \in 1 .. Len(s) + 1 PROVE t[i] < bound <=> i > Len(s) + 1 - (n + 1)
            BY <1>1, <2>1 DEF TailBelow
        <3> HIDE DEF n
        <3>1. Len(s) + 1 - (n + 1) = Len(s) - n
            BY <1>1, <2>1 DEF n
        <3>2. CASE i \in 1 .. Len(s)
            <4>1. t[i] = s[i] /\ (s[i] < bound <=> i > Len(s) - n)
                BY <1>1, <2>1, <3>2 DEF TailBelow, n
            <4> QED BY <3>1, <4>1
        <3>3. CASE i = Len(s) + 1
            <4>1. t[i] = 0 /\ i > Len(s) - n
                BY <1>1, <2>1, <3>3 DEF n
            <4> QED BY <3>1, <4>1
        <3> QED BY <1>1, <3>2, <3>3
    <2> QED BY <1>1, <1>2, <2>2, CountIs
<1>5. Count(t, 0) = 0 /\ Count(s, 0) = 0
    BY <1>1, <1>2, <1>3, CountIs
<1> QED BY <1>1, <1>2, <1>4, <1>5 DEF t

LEMMA LaterList ==
    ASSUME NEW s \in Seq(Nat), Ordered(s)
    PROVE  /\ Later(s) \in Seq(Nat) /\ Ordered(Later(s))
           /\ \A bound \in Nat : Count(Later(s), bound + 1) = Count(s, bound)
<1> DEFINE t == Later(s)
<1>1. /\ t \in Seq(Nat) /\ Len(t) = Len(s) /\ Len(s) \in Nat
      /\ DOMAIN s = 1 .. Len(s) /\ DOMAIN t = 1 .. Len(s)
      /\ \A i \in 1 .. Len(s) : t[i] = s[i] + 1 /\ s[i] \in Nat
    BY DEF Later
<1> HIDE DEF t
<1>2. Ordered(t)
    <2> SUFFICES ASSUME NEW i \in 1 .. Len(s), NEW j \in 1 .. Len(s), i < j PROVE t[i] >= t[j]
        BY <1>1 DEF Ordered
    <2>1. s[i] >= s[j]
        BY <1>1 DEF Ordered
    <2> QED BY SMTT(30), <1>1, <2>1
<1>3. ASSUME NEW bound \in Nat PROVE Count(t, bound + 1) = Count(s, bound)
    <2>1. TailBelow(s, bound, Count(s, bound))
        BY CountType
    <2>2. TailBelow(t, bound + 1, Count(s, bound))
        <3>1. \A i \in 1 .. Len(s) : t[i] < bound + 1 <=> s[i] < bound
            BY <1>1
        <3> QED BY <1>1, <2>1, <3>1 DEF TailBelow
    <2> QED BY <1>1, <1>2, <2>2, CountIs
<1> QED BY <1>1, <1>2, <1>3 DEF t

LEMMA AgedList ==
    ASSUME NEW s \in Seq(0 .. Window), Ordered(s)
    PROVE  /\ Aged(s) \in Seq(0 .. Window) /\ Ordered(Aged(s)) /\ Len(Aged(s)) = Len(s)
           /\ \A bound \in 0 .. Window - 1 : Count(Aged(s), bound + 1) = Count(s, bound)
<1> DEFINE t == Aged(s)
<1>1. Window \in Nat \ {0}
    BY CommandAssumption DEF CommandAssumption
<1>2. /\ Len(s) \in Nat /\ DOMAIN s = 1 .. Len(s)
      /\ \A i \in 1 .. Len(s) : s[i] \in 0 .. Window
    BY <1>1
<1>3. /\ t \in Seq(0 .. Window) /\ Len(t) = Len(s) /\ DOMAIN t = 1 .. Len(s)
      /\ \A i \in 1 .. Len(s) : t[i] = IF s[i] < Window THEN s[i] + 1 ELSE Window
    BY <1>1, <1>2 DEF Aged
<1>4. s \in Seq(Nat) /\ t \in Seq(Nat)
    BY <1>1, <1>2, <1>3
<1> HIDE DEF t
<1>5. Ordered(t)
    <2> SUFFICES ASSUME NEW i \in 1 .. Len(s), NEW j \in 1 .. Len(s), i < j PROVE t[i] >= t[j]
        BY <1>3 DEF Ordered
    <2>1. s[i] >= s[j] /\ s[i] \in 0 .. Window /\ s[j] \in 0 .. Window
        BY <1>2 DEF Ordered
    <2> QED BY <1>1, <1>3, <2>1
<1>6. ASSUME NEW bound \in 0 .. Window - 1 PROVE Count(t, bound + 1) = Count(s, bound)
    <2>1. TailBelow(s, bound, Count(s, bound)) /\ bound \in Nat
        BY <1>1, <1>4, CountType
    <2>2. TailBelow(t, bound + 1, Count(s, bound))
        <3>1. \A i \in 1 .. Len(s) : t[i] < bound + 1 <=> s[i] < bound
            BY <1>1, <1>2, <1>3
        <3> QED BY <1>3, <2>1, <3>1 DEF TailBelow
    <2> QED BY <1>4, <1>5, <2>1, <2>2, CountIs
<1> QED BY <1>3, <1>5, <1>6 DEF t

LEMMA CutList ==
    ASSUME NEW s \in Seq(Nat), Ordered(s), NEW w \in Nat \ {0}
    PROVE  /\ Younger(s, w) \in Seq(0 .. w - 1) /\ Ordered(Younger(s, w))
           /\ Len(Younger(s, w)) <= Len(s)
           /\ \A bound \in 0 .. w : Count(Younger(s, w), bound) = Count(s, bound)
<1> DEFINE t == Younger(s, w)
           off == Len(s) - Len(t)
<1>1. /\ t \in Seq(Nat) /\ TailBelow(s, w, Len(t))
      /\ \A i \in 1 .. Len(t) : t[i] = s[Len(s) - Len(t) + i]
    BY YoungerIsTail
<1> HIDE DEF t
<1>2. /\ Len(s) \in Nat /\ Len(t) \in 0 .. Len(s) /\ off \in Nat
      /\ DOMAIN s = 1 .. Len(s) /\ DOMAIN t = 1 .. Len(t)
      /\ \A i \in 1 .. Len(s) : s[i] \in Nat
    BY <1>1 DEF TailBelow
<1>3. /\ Len(s) = off + Len(t)
      /\ \A i \in 1 .. Len(t) : off + i \in 1 .. Len(s) /\ t[i] = s[off + i] /\ off + i > Len(s) - Len(t)
    BY <1>1, <1>2
<1> HIDE DEF off
<1>4. \A i \in 1 .. Len(t) : t[i] \in 0 .. w - 1
    <2> TAKE i \in 1 .. Len(t)
    <2>1. t[i] < w
        BY <1>1, <1>3 DEF TailBelow
    <2>2. t[i] \in Nat
        BY <1>2, <1>3
    <2> QED BY <2>1, <2>2
<1>5. t \in Seq(0 .. w - 1)
    <2>1. t = [i \in 1 .. Len(t) |-> t[i]]
        BY <1>1
    <2>2. t \in [1 .. Len(t) -> 0 .. w - 1]
        BY <1>4, <2>1
    <2>3. Len(t) \in Nat
        BY <1>2
    <2> QED BY <2>2, <2>3
<1>6. Ordered(t)
    <2> SUFFICES ASSUME NEW i \in 1 .. Len(t), NEW j \in 1 .. Len(t), i < j PROVE t[i] >= t[j]
        BY <1>2 DEF Ordered
    <2>1. off + i \in DOMAIN s /\ off + j \in DOMAIN s /\ off + i < off + j
        BY <1>2, <1>3
    <2>2. s[off + i] >= s[off + j]
        BY <2>1 DEF Ordered
    <2> QED BY <1>3, <2>2
<1>7. ASSUME NEW bound \in 0 .. w PROVE Count(t, bound) = Count(s, bound)
    <2> DEFINE n == Count(s, bound)
    <2>1. TailBelow(s, bound, n) /\ n \in 0 .. Len(s)
        BY CountType
    <2> HIDE DEF n
    <2>2. n <= Len(t)
        <3>1. CASE n = 0
            BY <1>2, <3>1
        <3>2. CASE n > 0
            <4> DEFINE i == Len(s) - n + 1
            <4>1. i \in 1 .. Len(s) /\ i > Len(s) - n
                BY <1>2, <2>1, <3>2
            <4> HIDE DEF i
            <4>2. s[i] < w
                BY <1>2, <2>1, <4>1 DEF TailBelow
            <4>3. i > Len(s) - Len(t)
                BY <1>1, <4>1, <4>2 DEF TailBelow
            <4> QED BY <1>2, <2>1, <4>3 DEF i
        <3> QED BY <2>1, <3>1, <3>2
    <2>3. TailBelow(t, bound, n)
        <3> SUFFICES ASSUME NEW i \in 1 .. Len(t) PROVE t[i] < bound <=> i > Len(t) - n
            BY <1>2, <2>1, <2>2 DEF TailBelow
        <3>1. s[off + i] < bound <=> off + i > Len(s) - n
            BY <1>3, <2>1 DEF TailBelow
        <3>2. off + i > Len(s) - n <=> i > Len(t) - n
            <4>1. off \in Nat /\ Len(t) \in Nat /\ n \in Nat /\ Len(s) = off + Len(t)
                BY <1>2, <1>3, <2>1
            <4> QED BY <4>1
        <3> QED BY <1>3, <3>1, <3>2
    <2> QED BY <1>1, <1>6, <2>3, CountIs DEF n
<1> QED BY <1>2, <1>5, <1>6, <1>7 DEF t

LEMMA WholeList ==
    ASSUME NEW w \in Nat \ {0}, NEW s \in Seq(0 .. w - 1), Ordered(s)
    PROVE  Count(s, w) = Len(s)
<1>1. s \in Seq(Nat) /\ \A i \in 1 .. Len(s) : s[i] \in 0 .. w - 1
    OBVIOUS
<1>2. TailBelow(s, w, Len(s))
    BY <1>1 DEF TailBelow
<1> QED BY <1>1, <1>2, CountIs

LEMMA EmptyList == <<>> \in Seq(Nat) /\ Ordered(<<>>) /\ \A bound \in Nat : Count(<<>>, bound) = 0
<1>1. <<>> \in Seq(Nat) /\ Ordered(<<>>)
    BY DEF Ordered
<1>2. \A bound \in Nat : TailBelow(<<>>, bound, 0)
    BY DEF TailBelow
<1> QED BY <1>1, <1>2, CountIs

-----------------------------------------------------------------------------
(* The rate of the writes *)

ListsOK ==
    /\ history \in Seq(0 .. Window) /\ Len(history) <= Max
    /\ issued \in Seq(0 .. Window - 1) /\ boots \in Seq(0 .. Window - 1)

Rate(h, i, b, bound) == Count(i, bound) <= Max * Count(b, bound) + Count(h, bound)

ListInv == ListsOK /\ RateInv

LEMMA ConstantFacts == Max \in Nat \ {0} /\ Window \in Nat \ {0} /\ Reboots \in Nat
BY CommandAssumption DEF CommandAssumption

LEMMA Widen ==
    /\ \A s \in Seq(0 .. Window) : s \in Seq(Nat)
    /\ \A s \in Seq(0 .. Window - 1) : s \in Seq(Nat) /\ s \in Seq(0 .. Window)
BY ConstantFacts

\* ListInv says of the three lists what the lemmas above need.
LEMMA ListFacts ==
    ASSUME ListInv
    PROVE  /\ history \in Seq(Nat) /\ issued \in Seq(Nat) /\ boots \in Seq(Nat)
           /\ Ordered(history) /\ Ordered(issued) /\ Ordered(boots)
           /\ \A bound \in 0 .. Window : Rate(history, issued, boots, bound)
BY Widen DEF ListInv, ListsOK, RateInv, OrderInv, Ordered, Rate, Count

LEMMA ListFromFacts ==
    ASSUME ListsOK', Ordered(history'), Ordered(issued'), Ordered(boots'),
           \A bound \in 0 .. Window : Rate(history', issued', boots', bound)
    PROVE  ListInv'
BY DEF ListInv, RateInv, OrderInv, Ordered, Rate, Count

LEMMA CountZero ==
    ASSUME NEW s \in Seq(Nat), Ordered(s)
    PROVE  Count(s, 0) = 0
BY Appended

LEMMA CountsOf ==
    ASSUME ListInv, NEW bound \in 0 .. Window
    PROVE  /\ Count(boots, bound) \in Nat /\ Count(issued, bound) \in Nat
           /\ Count(history, bound) \in Nat /\ Count(history, bound) <= Max
<1>1. bound \in Nat
    BY ConstantFacts
<1>2. ASSUME NEW s \in Seq(Nat), Ordered(s) PROVE Count(s, bound) \in Nat /\ Count(s, bound) <= Len(s)
    <2>1. Count(s, bound) \in 0 .. Len(s) /\ Len(s) \in Nat
        BY <1>1, <1>2, CountType
    <2> QED BY <2>1
<1>3. Count(history, bound) \in Nat /\ Count(history, bound) <= Len(history)
    BY <1>2, ListFacts
<1>4. Len(history) \in Nat /\ Len(history) <= Max
    BY DEF ListInv, ListsOK
<1>5. Count(history, bound) <= Max
    BY <1>3, <1>4, ConstantFacts
<1> QED BY <1>2, <1>3, <1>5, ListFacts

\* A refusal only drops the writes that have left the window.
LEMMA ListsOfRefuse ==
    ASSUME ListInv, history' = Recent, UNCHANGED <<issued, boots>>
    PROVE  ListInv'
<1> USE ConstantFacts
<1>1. /\ Recent \in Seq(0 .. Window - 1) /\ Ordered(Recent) /\ Len(Recent) <= Len(history)
      /\ \A bound \in 0 .. Window : Count(Recent, bound) = Count(history, bound)
    BY ListFacts, CutList DEF Recent
<1>2. Len(Recent) <= Max
    <2>1. Len(history) <= Max /\ Len(history) \in Nat /\ Len(Recent) \in Nat
        BY <1>1 DEF ListInv, ListsOK
    <2> QED BY <1>1, <2>1
<1>3. ListsOK'
    BY <1>1, <1>2, Widen DEF ListInv, ListsOK
<1>4. \A bound \in 0 .. Window : Rate(history', issued', boots', bound)
    BY <1>1, ListFacts DEF Rate
<1> QED BY <1>1, <1>3, <1>4, ListFacts, ListFromFacts

\* A write that the breaker allows finds room in the window.
LEMMA ListsOfWrite ==
    ASSUME ListInv, RecordWrite, BreakerAllows, UNCHANGED boots
    PROVE  ListInv'
<1> USE ConstantFacts
<1>1. /\ Recent \in Seq(0 .. Window - 1) /\ Ordered(Recent)
      /\ \A bound \in 0 .. Window : Count(Recent, bound) = Count(history, bound)
    BY ListFacts, CutList DEF Recent
<1>2. history' = Append(Recent, 0) /\ issued' = Append(issued, 0) /\ Len(Recent) < Max
    BY DEF RecordWrite, BreakerAllows
<1>3. /\ history' \in Seq(0 .. Window) /\ Len(history') = Len(Recent) + 1
      /\ issued' \in Seq(0 .. Window - 1)
    BY <1>1, <1>2, Widen DEF ListInv, ListsOK
<1>4. ListsOK'
    <2>1. Len(Recent) \in Nat
        BY <1>1
    <2> QED BY <1>2, <1>3, <2>1 DEF ListInv, ListsOK
<1>5. /\ Ordered(history') /\ Count(history', 0) = 0
      /\ \A bound \in Nat \ {0} : Count(history', bound) = Count(Recent, bound) + 1
    BY <1>1, <1>2, Widen, Appended
<1>6. /\ Ordered(issued') /\ Count(issued', 0) = 0
      /\ \A bound \in Nat \ {0} : Count(issued', bound) = Count(issued, bound) + 1
    BY <1>2, ListFacts, Appended
<1>7. ASSUME NEW bound \in 0 .. Window PROVE Rate(history', issued', boots', bound)
    <2>1. Count(boots, bound) \in Nat /\ Count(issued, bound) \in Nat /\ Count(history, bound) \in Nat
        BY CountsOf
    <2> DEFINE allowance == Max * Count(boots, bound)
    <2>2. allowance \in Nat
        BY <2>1
    <2>3. Count(issued, bound) <= allowance + Count(history, bound)
        BY ListFacts DEF Rate
    <2> HIDE DEF allowance
    <2>4. CASE bound = 0
        <3>1. Count(issued', bound) <= allowance + Count(history', bound)
            BY <1>5, <1>6, <2>2, <2>4
        <3> QED BY <3>1 DEF Rate, allowance
    <2>5. CASE bound # 0
        <3>1. Count(issued', bound) <= allowance + Count(history', bound)
            BY <1>1, <1>5, <1>6, <2>1, <2>2, <2>3, <2>5
        <3> QED BY <3>1 DEF Rate, allowance
    <2> QED BY <2>4, <2>5
<1> QED BY <1>4, <1>5, <1>6, <1>7, ListFacts, ListFromFacts

\* A restart forgets the writes and is given another allowance.
LEMMA ListsOfRestart ==
    ASSUME ListInv, history' = <<>>, boots' = Append(boots, 0), UNCHANGED issued
    PROVE  ListInv'
<1> USE ConstantFacts
<1>1. boots' \in Seq(0 .. Window - 1) /\ history' \in Seq(0 .. Window) /\ Len(history') = 0
    BY DEF ListInv, ListsOK
<1>2. ListsOK'
    BY <1>1 DEF ListInv, ListsOK
<1>3. /\ Ordered(boots') /\ Count(boots', 0) = 0
      /\ \A bound \in Nat \ {0} : Count(boots', bound) = Count(boots, bound) + 1
    BY ListFacts, Appended
<1>4. Ordered(history') /\ \A bound \in Nat : Count(history', bound) = 0
    BY EmptyList
<1>5. ASSUME NEW bound \in 0 .. Window PROVE Rate(history', issued', boots', bound)
    <2>1. Count(boots, bound) \in Nat /\ Count(issued, bound) \in Nat
        BY CountsOf
    <2>2. Count(history, bound) \in Nat /\ Count(history, bound) <= Max
        BY CountsOf
    <2>3. Count(issued, bound) <= Max * Count(boots, bound) + Count(history, bound)
        BY ListFacts DEF Rate
    <2>4. CASE bound = 0
        <3>1. Count(issued', bound) = 0 /\ Count(history', bound) = 0 /\ Count(boots', bound) = 0
            BY <1>3, <1>4, <2>4, ListFacts, CountZero
        <3> QED BY <3>1 DEF Rate
    <2>5. CASE bound # 0
        <3>1. /\ Count(boots', bound) = Count(boots, bound) + 1 /\ Count(history', bound) = 0
              /\ Count(issued', bound) = Count(issued, bound)
            BY <1>3, <1>4, <2>5
        <3>2. Max * (Count(boots, bound) + 1) = Max * Count(boots, bound) + Max
            BY <2>1
        <3>3. Max * Count(boots, bound) \in Nat
            BY <2>1
        <3>4. Count(issued', bound) <= Max * Count(boots', bound) + Count(history', bound)
            <4> DEFINE allowance == Max * Count(boots, bound)
            <4>1. Count(issued, bound) <= allowance + Count(history, bound) /\ allowance \in Nat
                BY <2>3, <3>3
            <4>2. Max * Count(boots', bound) = allowance + Max
                BY <3>1, <3>2
            <4> HIDE DEF allowance
            <4> QED BY <2>1, <2>2, <3>1, <4>1, <4>2
        <3> QED BY <3>4 DEF Rate
    <2> QED BY <2>4, <2>5
<1> QED BY <1>2, <1>3, <1>4, <1>5, ListFacts, ListFromFacts

\* A tick moves every bound by one.
LEMMA ListsOfTick ==
    ASSUME ListInv, Tick
    PROVE  ListInv'
<1> USE ConstantFacts
<1>1. history' = Aged(history) /\ issued' = Within(issued) /\ boots' = Within(boots)
    BY DEF Tick
<1>2. /\ history' \in Seq(0 .. Window) /\ Ordered(history') /\ Len(history') = Len(history)
      /\ \A bound \in 0 .. Window - 1 : Count(history', bound + 1) = Count(history, bound)
    BY <1>1, ListFacts, AgedList DEF ListInv, ListsOK
<1>3. ASSUME NEW s \in Seq(Nat), Ordered(s)
      PROVE  /\ Within(s) \in Seq(0 .. Window - 1) /\ Ordered(Within(s))
             /\ \A bound \in 0 .. Window - 1 : Count(Within(s), bound + 1) = Count(s, bound)
    <2>1. /\ Later(s) \in Seq(Nat) /\ Ordered(Later(s))
          /\ \A bound \in Nat : Count(Later(s), bound + 1) = Count(s, bound)
        BY <1>3, LaterList
    <2>2. /\ Within(s) \in Seq(0 .. Window - 1) /\ Ordered(Within(s))
          /\ \A bound \in 0 .. Window : Count(Within(s), bound) = Count(Later(s), bound)
        BY <2>1, CutList DEF Within
    <2> QED BY <2>1, <2>2
<1>4. /\ issued' \in Seq(0 .. Window - 1) /\ Ordered(issued')
      /\ \A bound \in 0 .. Window - 1 : Count(issued', bound + 1) = Count(issued, bound)
    BY <1>1, <1>3, ListFacts
<1>5. /\ boots' \in Seq(0 .. Window - 1) /\ Ordered(boots')
      /\ \A bound \in 0 .. Window - 1 : Count(boots', bound + 1) = Count(boots, bound)
    BY <1>1, <1>3, ListFacts
<1>6. ListsOK'
    BY <1>2, <1>4, <1>5 DEF ListInv, ListsOK
<1>7. ASSUME NEW bound \in 0 .. Window PROVE Rate(history', issued', boots', bound)
    <2>1. CASE bound = 0
        <3>1. Count(issued', 0) = 0 /\ Count(history', 0) = 0 /\ Count(boots', 0) = 0
            BY <1>2, <1>4, <1>5, Widen, CountZero
        <3> QED BY <2>1, <3>1 DEF Rate
    <2>2. CASE bound # 0
        <3> DEFINE b == bound - 1
        <3>1. b \in 0 .. Window - 1 /\ b \in 0 .. Window /\ bound = b + 1
            BY <2>2
        <3> HIDE DEF b
        <3>2. Rate(history, issued, boots, b)
            BY <3>1, ListFacts
        <3> QED BY <1>2, <1>4, <1>5, <3>1, <3>2 DEF Rate
    <2> QED BY <2>1, <2>2
<1> QED BY <1>2, <1>4, <1>5, <1>6, <1>7, ListFromFacts

LEMMA InitLists == Init => ListInv
<1> SUFFICES ASSUME Init PROVE ListInv
    OBVIOUS
<1> USE ConstantFacts
<1>1. ListsOK
    BY DEF Init, ListsOK
<1>2. OrderInv
    BY DEF Init, OrderInv
<1>3. ASSUME NEW bound \in 0 .. Window
      PROVE  Len(Younger(issued, bound)) <= Max * Len(Younger(boots, bound)) + Len(Younger(history, bound))
    <2>1. Len(Younger(<<>>, bound)) = 0
        BY EmptyList DEF Count
    <2> QED BY <2>1 DEF Init
<1> QED BY <1>1, <1>2, <1>3 DEF ListInv, RateInv

LEMMA NextLists == ListInv /\ [Next]_vars => ListInv'
<1> SUFFICES ASSUME ListInv, [Next]_vars PROVE ListInv'
    OBVIOUS
<1>1. ASSUME NEW c \in Commands, Refuse(c) PROVE ListInv'
    BY <1>1, ListsOfRefuse DEF Refuse
<1>2. ASSUME NEW c \in Commands, Misconfigured(c) \/ Write(c) \/ WriteIgnored(c) \/ WriteRaises(c) PROVE ListInv'
    BY <1>2, ListsOfWrite DEF Misconfigured, Write, WriteIgnored, WriteRaises, Writes, Refused
<1>3. ASSUME NEW c \in Commands, Restart(c) PROVE ListInv'
    BY <1>3, ListsOfRestart DEF Restart
<1>4. ASSUME Tick PROVE ListInv'
    BY <1>4, ListsOfTick
<1>5. ASSUME UNCHANGED <<history, issued, boots>> PROVE ListInv'
    BY <1>5 DEF ListInv, ListsOK, RateInv, OrderInv
<1> QED
    BY <1>1, <1>2, <1>3, <1>4, <1>5
    DEF Next, Reconcile, ReconcileGarbage, ReconcileRaises, Recover, RecoverRaises, Settle, vars

\* No minute sees more writes than the limit of the circuit breaker for each
\* process that ran in it (commands.py:82-89): for every limit, every window
\* and any number of restarts.
THEOREM WriteRateCorrect == Spec => []WriteRate
<1>1. ListInv => WriteRate
    <2> SUFFICES ASSUME ListInv PROVE WriteRate
        OBVIOUS
    <2> USE ConstantFacts
    <2>1. Count(issued, Window) = Len(issued) /\ Count(boots, Window) = Len(boots)
        BY ListFacts, WholeList DEF ListInv, ListsOK
    <2>2. Count(history, Window) \in 0 .. Len(history)
        BY ListFacts, CountType
    <2>3. /\ Len(history) \in Nat /\ Len(history) <= Max
          /\ Len(issued) \in Nat /\ Len(boots) \in Nat
        BY DEF ListInv, ListsOK
    <2>4. Len(issued) <= Max * Len(boots) + Count(history, Window)
        <3>1. Window \in 0 .. Window
            OBVIOUS
        <3>2. Rate(history, issued, boots, Window)
            BY <3>1, ListFacts
        <3> QED BY <2>1, <3>2 DEF Rate
    <2>5. Max * (Len(boots) + 1) = Max * Len(boots) + Max /\ Max * Len(boots) \in Nat
        BY <2>3
    <2> DEFINE allowance == Max * Len(boots)
    <2>6. Len(issued) <= allowance + Max
        <3>1. Len(issued) <= allowance + Count(history, Window) /\ allowance \in Nat
            BY <2>4, <2>5
        <3> HIDE DEF allowance
        <3> QED BY <2>2, <2>3, <3>1
    <2> QED BY <2>5, <2>6 DEF WriteRate
<1> QED BY <1>1, InitLists, NextLists, PTL DEF Spec

-----------------------------------------------------------------------------
(* The points of a profile *)

\* A supported point is one that the catalogue of command points allows; the
\* executor without a profile has two points that cut their target to an int.
AnyPoint ==
    [command : RequiredCommands, supported : BOOLEAN,
     write : Addr \cup {NoAddr}, verify : Addr \cup {NoAddr},
     encoding : {"signed_scale", "uint16", "enum", "int"},
     mode : {"readback_equals", "mode_equals", "observed_positive", "observed_negative",
             "observed_near_zero", "legacy_positive", "legacy_negative"},
     tolerance : Nat, readback : BOOLEAN]

LEMMA PointsOfLoaded ==
    ASSUME NEW p \in Loaded
    PROVE  p.points \in Seq(CommandPoint)
<1>1. \A a \in Artifacts \cup {Base0} : a.points \in Seq(CommandPoint)
    BY CommandAssumption DEF CommandAssumption
<1>2. ASSUME NEW a \in Artifacts, p = Merge(Base0, a) PROVE p.points \in Seq(CommandPoint)
    <2>1. p.points = a.points \/ p.points = Base0.points
        BY <1>2 DEF Merge
    <2> QED BY <1>1, <2>1
<1> QED BY <1>1, <1>2 DEF Loaded

\* command_for returns the first point of the name.
LEMMA FirstPoint ==
    ASSUME NEW p \in Loaded, NEW name, name \in Named(p)
    PROVE  /\ CommandFor(p, name) \in CommandPoint
           /\ \E i \in DOMAIN p.points : p.points[i].command = name /\ CommandFor(p, name) = p.points[i]
<1> DEFINE At(i) == /\ p.points[i].command = name
                    /\ \A j \in DOMAIN p.points : p.points[j].command = name => i <= j
           T == {i \in DOMAIN p.points : p.points[i].command = name}
<1>1. p.points \in Seq(CommandPoint) /\ DOMAIN p.points \subseteq Nat
    BY PointsOfLoaded
<1>2. T \subseteq Nat /\ T # {}
    BY <1>1 DEF Named
<1>3. PICK k \in T : \A l \in T : k <= l
    <2> HIDE DEF T
    <2> QED BY <1>2, Least
<1>4. \E i \in DOMAIN p.points : At(i)
    BY <1>3
<1> DEFINE first == CHOOSE i \in DOMAIN p.points : At(i)
<1>5. first \in DOMAIN p.points /\ At(first)
    BY <1>4
<1>6. CommandFor(p, name) = p.points[first]
    BY DEF CommandFor
<1> HIDE DEF first
<1>7. p.points[first] \in CommandPoint
    BY <1>1, <1>5
<1> QED BY <1>5, <1>6, <1>7

LEMMA SupportedPoint ==
    ASSUME profile \in Loaded \cup {Legacy}, NEW c \in Commands, PointOf(c).supported
    PROVE  /\ PointOf(c) \in AnyPoint
           /\ profile = Legacy => PointOf(c).write \notin {NoAddr, "power"}
<1>1. CASE profile = Legacy
    <2>1. PointOf(c) = LegacyPoint(c.type)
        BY <1>1 DEF PointOf
    <2>2. c.type \in {"charge", "discharge", "idle", "set_limit", "set_mode"}
        BY <2>1 DEF LegacyPoint, NoPoint
    <2>3. \A type \in {"charge", "discharge", "idle", "set_limit", "set_mode"} :
              /\ LegacyPoint(type) \in AnyPoint
              /\ LegacyPoint(type).write \notin {NoAddr, "power"}
        BY DEF LegacyPoint, AnyPoint, RequiredCommands, Addr, NoAddr
    <2> QED BY <2>1, <2>2, <2>3
<1>2. CASE profile # Legacy
    <2>1. profile \in Loaded /\ PointOf(c) = CommandFor(profile, Canonical(c.type))
        BY <1>2 DEF PointOf
    <2>2. Canonical(c.type) \in Named(profile)
        BY <2>1 DEF CommandFor, NoPoint
    <2>3. PointOf(c) \in CommandPoint
        BY <2>1, <2>2, FirstPoint
    <2>4. CommandPoint \subseteq AnyPoint
        BY DEF CommandPoint, AnyPoint
    <2> QED BY <1>2, <2>3, <2>4
<1> QED BY <1>1, <1>2

\* What is written is a word.
LEMMA EncodedType ==
    ASSUME NEW x \in AnyPoint, NEW c \in Commands
    PROVE  Encoded(x, c) \in 0 .. Word - 1 /\ Signed(x, c) \in Int
<1>1. c.target \in Int
    BY CommandAssumption DEF CommandAssumption
<1>2. \A n \in Int : Whole(n) \in Int /\ Cut(n) \in Int /\ Abs(n) \in Int
    BY DEF Whole, Cut, Abs
<1>3. Signed(x, c) \in Int
    BY <1>1, <1>2 DEF Signed
<1>4. (LET n == Whole(Asked(x, c)) IN IF n < 0 THEN 0 ELSE n) \in Int
    BY <1>1, <1>2 DEF Asked
<1>5. Whole(Asked(x, c)) \in Int /\ Cut(c.target) \in Int
    BY <1>1, <1>2 DEF Asked
<1>6. x.encoding \in {"signed_scale", "uint16", "enum", "int"}
    BY DEF AnyPoint
<1> QED BY <1>3, <1>4, <1>5, <1>6, EncodeType DEF Encoded

-----------------------------------------------------------------------------
(* Types *)

StateOK ==
    /\ profile \in Loaded \cup {Legacy}
    /\ allowed \in BOOLEAN
    /\ verdict \in {"none", "acked", "failed", "misconfigured"}

CallOK == call \in [stage : {"none", "written", "interrupted"}, c : Commands \cup {NoCommand},
                    wrote : BOOLEAN, honest : BOOLEAN]

RegistersOK == reg \in [Addr -> 0 .. Word - 1] /\ acked \in [Addr -> Commands \cup {NoCommand}]

\* the command in hand is a real one, and was only written to a register its
\* point has
HandInv ==
    /\ call.stage # "none" => call.c \in Commands
    /\ WrittenInv
    /\ call.stage # "none" /\ call.wrote => PointOf(call.c).supported /\ PointOf(call.c).write # NoAddr

TypeInv == StateOK /\ CallOK /\ RegistersOK /\ HandInv

LEMMA InitTypes == Init => TypeInv
<1> SUFFICES ASSUME Init PROVE TypeInv
    OBVIOUS
<1>1. StateOK
    BY DEF Init, StateOK
<1>2. CallOK /\ HandInv
    BY DEF Init, CallOK, HandInv, WrittenInv, NoCall
<1>3. RegistersOK
    <2>1. Powers \subseteq 0 .. Word - 1 /\ 0 \in 0 .. Word - 1
        BY CommandAssumption, WordFacts DEF CommandAssumption
    <2> QED BY <2>1 DEF Init, RegistersOK
<1> QED BY <1>1, <1>2, <1>3 DEF TypeInv

LEMMA WrittenTypes ==
    ASSUME TypeInv, NEW c \in Commands, ~Refused(c), PointOf(c).write # NoAddr,
           Overwrites(PointOf(c).write, c) \/ UNCHANGED <<reg, acked>>
    PROVE  RegistersOK'
<1>1. PointOf(c).supported
    BY DEF Refused
<1>2. PointOf(c) \in AnyPoint
    BY <1>1, SupportedPoint DEF TypeInv, StateOK
<1>3. PointOf(c).write \in Addr
    BY <1>2 DEF AnyPoint
<1>4. Encoded(PointOf(c), c) \in 0 .. Word - 1
    BY <1>2, EncodedType
<1> QED BY <1>3, <1>4 DEF Overwrites, TypeInv, RegistersOK

LEMMA NextTypes == TypeInv /\ [Next]_vars => TypeInv'
<1> SUFFICES ASSUME TypeInv, [Next]_vars PROVE TypeInv'
    OBVIOUS
<1> USE DEF TypeInv
<1>1. ASSUME NEW c \in Commands, Refuse(c) \/ Misconfigured(c) PROVE TypeInv'
    BY <1>1 DEF Refuse, Misconfigured, StateOK, CallOK, RegistersOK, HandInv, WrittenInv, PointOf
<1>2. ASSUME NEW c \in Commands, Write(c) \/ WriteIgnored(c) PROVE TypeInv'
    <2>1. Writes(c) /\ UNCHANGED <<profile, allowed, verdict>> /\ PointOf(c).supported
        BY <1>2 DEF Write, WriteIgnored, Writes, Refused
    <2>2. RegistersOK'
        BY <1>2, <2>1, WrittenTypes DEF Write, WriteIgnored, Writes
    <2>3. CallOK'
        <3>1. PICK h \in BOOLEAN : call' = [stage |-> "written", c |-> c, wrote |-> TRUE, honest |-> h]
            BY <1>2 DEF Write, WriteIgnored
        <3> QED BY <3>1 DEF CallOK
    <2>4. HandInv'
        BY <1>2, <2>1 DEF Write, WriteIgnored, Writes, HandInv, WrittenInv, PointOf
    <2> QED BY <2>1, <2>2, <2>3, <2>4 DEF StateOK
<1>3. ASSUME NEW c \in Commands, WriteRaises(c) PROVE TypeInv'
    <2>1. Writes(c) /\ UNCHANGED <<profile, allowed, call>> /\ verdict' = "failed"
        BY <1>3 DEF WriteRaises, Writes
    <2>2. RegistersOK'
        BY <1>3, <2>1, WrittenTypes DEF WriteRaises, Writes
    <2> QED BY <2>1, <2>2 DEF StateOK, CallOK, HandInv, WrittenInv, PointOf
<1>4. ASSUME NEW v \in {"acked", "failed"}, Conclude(v), UNCHANGED <<profile, allowed, reg>>,
             acked' = acked \/ \E a : acked' = [acked EXCEPT ![a] = call.c]
      PROVE  TypeInv'
    <2>1. StateOK' /\ CallOK' /\ HandInv'
        BY <1>4 DEF Conclude, StateOK, CallOK, HandInv, WrittenInv, NoCall
    <2>2. call.c \in Commands \cup {NoCommand}
        BY DEF CallOK
    <2>3. RegistersOK'
        BY <1>4, <2>2 DEF RegistersOK
    <2> QED BY <2>1, <2>3
<1>5. ASSUME Reconcile \/ ReconcileGarbage \/ ReconcileRaises PROVE TypeInv'
    BY <1>4, <1>5 DEF Reconcile, ReconcileGarbage, ReconcileRaises
<1>6. ASSUME Recover \/ RecoverRaises PROVE TypeInv'
    BY <1>4, <1>6 DEF Recover, RecoverRaises
<1>7. ASSUME NEW c \in Commands, Restart(c) PROVE TypeInv'
    <2>1. UNCHANGED <<profile, allowed, reg, verdict, acked>>
        BY <1>7 DEF Restart
    <2>2. CallOK' /\ HandInv'
        BY <1>7 DEF Restart, CallOK, HandInv, WrittenInv, PointOf
    <2> QED BY <2>1, <2>2 DEF StateOK, RegistersOK
<1>8. ASSUME Settle PROVE TypeInv'
    <2>1. 0 \in 0 .. Word - 1
        BY WordFacts
    <2>2. RegistersOK'
        BY <1>8, <2>1 DEF Settle, RegistersOK, Addr
    <2> QED BY <1>8, <2>2 DEF Settle, StateOK, CallOK, HandInv, WrittenInv, PointOf
<1>9. ASSUME Tick \/ UNCHANGED vars PROVE TypeInv'
    BY <1>9 DEF Tick, vars, StateOK, CallOK, RegistersOK, HandInv, WrittenInv, PointOf
<1> QED BY <1>1, <1>2, <1>3, <1>5, <1>6, <1>7, <1>8, <1>9 DEF Next

LEMMA TypeInvCorrect == Spec => []TypeInv
BY InitTypes, NextTypes, PTL DEF Spec

\* Every reachable state of the executor, the device and the lists of ages is
\* well typed: the registers hold words whatever a command asks for, and the
\* breaker never remembers more writes than its limit.
THEOREM TypeCorrect == Spec => []TypeOK
<1>1. TypeInv /\ ListInv => TypeOK
    BY DEF TypeInv, StateOK, CallOK, RegistersOK, ListInv, ListsOK, TypeOK
<1> QED BY <1>1, TypeInvCorrect, InitLists, NextLists, PTL DEF Spec

-----------------------------------------------------------------------------
(* What validation excludes *)

\* Where every name comes once, the point that validation has looked at is the
\* one that the executor uses.
LEMMA PointHasRegister ==
    ASSUME profile \in Loaded \cup {Legacy}, profile = Legacy \/ Unambiguous(profile),
           NEW c \in Commands, PointOf(c).supported
    PROVE  PointOf(c).write # NoAddr
<1>1. CASE profile = Legacy
    BY <1>1, SupportedPoint
<1>2. CASE profile # Legacy
    <2> DEFINE name == Canonical(c.type)
               p == profile
    <2>1. p \in Loaded /\ PointOf(c) = CommandFor(p, name) /\ Unambiguous(p)
        BY <1>2 DEF PointOf
    <2>2. name \in Named(p)
        BY <2>1 DEF CommandFor, NoPoint
    <2> HIDE DEF name, p
    <2>3. PICK i \in DOMAIN p.points : p.points[i].command = name /\ CommandFor(p, name) = p.points[i]
        BY <2>1, <2>2, FirstPoint
    <2> DEFINE IsLast(k) == /\ p.points[k].command = name
                            /\ \A j \in DOMAIN p.points : p.points[j].command = name => j <= k
               last == CHOOSE k \in DOMAIN p.points : IsLast(k)
    <2>4. IsLast(i)
        <3>1. i \in Nat
            BY <2>1, <2>3, PointsOfLoaded
        <3> QED BY <2>1, <2>3, <3>1 DEF Unambiguous
    <2>5. last \in DOMAIN p.points /\ IsLast(last)
        BY <2>3, <2>4
    <2>6. last = i
        BY <2>1, <2>3, <2>5 DEF Unambiguous
    <2>7. LastPoint(p, name) = p.points[i]
        BY <2>6 DEF LastPoint
    <2>8. ValidPoint(LastPoint(p, name))
        BY <2>1, <2>2 DEF Loaded, Valid
    <2> QED BY <2>1, <2>3, <2>7, <2>8 DEF ValidPoint
<1> QED BY <1>1, <1>2

ConfiguredInv == profile = Legacy \/ Unambiguous(profile) => verdict # "misconfigured"

LEMMA NextConfigured == TypeInv /\ ConfiguredInv /\ [Next]_vars => ConfiguredInv'
<1> SUFFICES ASSUME TypeInv, ConfiguredInv, [Next]_vars PROVE ConfiguredInv'
    OBVIOUS
<1>1. ASSUME NEW c \in Commands, Misconfigured(c) PROVE ConfiguredInv'
    <2>1. PointOf(c).supported /\ PointOf(c).write = NoAddr /\ UNCHANGED profile
        BY <1>1 DEF Misconfigured, Refused
    <2>2. ~(profile = Legacy \/ Unambiguous(profile))
        BY <2>1, PointHasRegister DEF TypeInv, StateOK
    <2> QED BY <2>1, <2>2 DEF ConfiguredInv, Unambiguous
<1>2. ASSUME UNCHANGED profile, UNCHANGED verdict \/ verdict' \in {"acked", "failed"} PROVE ConfiguredInv'
    BY <1>2 DEF ConfiguredInv, Unambiguous
<1> QED
    BY <1>1, <1>2 DEF Next, Refuse, Write, WriteIgnored, WriteRaises, Writes, Restart, Reconcile,
       ReconcileGarbage, ReconcileRaises, Recover, RecoverRaises, Conclude, Settle, Tick, vars

\* Whatever profile has passed validate_profile and names every command once,
\* and without a profile, no command is counted as a write and then refused for
\* want of a register, and every readback has one (profile_validation.py:72-83,
\* commands.py:112-122).
THEOREM ValidatedProfileRunsCorrect == Spec => []ValidatedProfileRuns
<1>1. TypeInv /\ ConfiguredInv => ValidatedProfileRuns
    BY DEF TypeInv, HandInv, WrittenInv, ConfiguredInv, ValidatedProfileRuns, VerifyAddr
<1>2. Init => ConfiguredInv
    BY DEF Init, ConfiguredInv
<1> QED BY <1>1, <1>2, NextConfigured, TypeInvCorrect, InitTypes, NextTypes, PTL DEF Spec

-----------------------------------------------------------------------------
(* What an acknowledgement says about the device *)

LEMMA Int16Type == \A w \in 0 .. Word - 1 : Int16(w) \in Int
BY WordFacts DEF Int16

\* The register of a setpoint that fits holds what the command asked for.
LEMMA HoldsEncoded ==
    ASSUME NEW x \in AnyPoint, x.encoding = "int" => x.command # "idle",
           NEW c \in Commands, Fits(x, c)
    PROVE  Holds(x, c, Encoded(x, c))
<1>1. Asked(x, c) \in Int /\ x.encoding \in {"signed_scale", "uint16", "enum", "int"}
    BY CommandAssumption DEF CommandAssumption, AnyPoint, Asked
<1>2. CASE x.encoding = "signed_scale"
    <2>1. Encoded(x, c) = Encode16(Signed(x, c))
        BY <1>2 DEF Encoded
    <2>2. -Half <= Signed(x, c) /\ Signed(x, c) < Half /\ Signed(x, c) \in Int
        BY <1>2, EncodedType DEF Fits
    <2>3. Int16(Encoded(x, c)) = Signed(x, c)
        BY <2>1, <2>2, RoundTrip
    <2> QED BY <1>2, <2>3 DEF Holds
<1>3. CASE x.encoding # "signed_scale"
    <2> PICK n : n = Asked(x, c)
        OBVIOUS
    <2>1. n \in Int /\ n % 10 = 0 /\ 0 <= n /\ n < 10 * Word
        BY <1>1, <1>3 DEF Fits
    <2>2. Whole(n) = n \div 10 /\ Cut(n) = n \div 10
        BY <2>1 DEF Whole, Cut
    <2>3. n \div 10 \in Nat /\ 10 * (n \div 10) = n /\ n \div 10 < Word
        BY <2>1, WordFacts
    <2>4. Encode16(n \div 10) = n \div 10
        BY <2>3, WordFacts DEF Encode16
    <2>5. x.encoding = "int" => n = c.target
        BY DEF Asked
    <2>6. Encoded(x, c) = Encode16(n \div 10)
        <3>1. CASE x.encoding = "enum"
            BY <2>2, <3>1 DEF Encoded
        <3>2. CASE x.encoding = "int"
            BY <2>2, <2>5, <3>2 DEF Encoded
        <3>3. CASE x.encoding = "uint16"
            <4>1. ~(Whole(n) < 0)
                BY <2>2, <2>3
            <4>2. Encoded(x, c) = Encode16(IF Whole(n) < 0 THEN 0 ELSE Whole(n))
                BY <3>3 DEF Encoded
            <4> QED BY <2>2, <4>1, <4>2
        <3> QED BY <1>1, <1>3, <3>1, <3>2, <3>3
    <2> QED BY <1>3, <2>3, <2>4, <2>6 DEF Holds
<1> QED BY <1>2, <1>3

\* A readback of the register that is written finds there what was asked for.
LEMMA HoldsReadBack ==
    ASSUME NEW x \in AnyPoint, x.encoding = "int" => x.command # "idle",
           NEW c \in Commands, Fits(x, c),
           ReadsBack(x), NEW w, NEW s, Confirms(x, c, w, s)
    PROVE  Holds(x, c, w)
<1>1. CASE x.mode = "readback_equals"
    <2>1. w = Encoded(x, c)
        BY <1>1 DEF Confirms
    <2> QED BY <2>1, HoldsEncoded
<1>2. CASE x.mode # "readback_equals"
    <2>1. x.mode = "mode_equals" /\ x.command = "set_mode" /\ x.encoding # "signed_scale"
        BY <1>2 DEF ReadsBack
    <2>2. w = Encode16(Cut(c.target)) /\ Asked(x, c) = c.target
        BY <2>1 DEF Confirms, Asked
    <2> PICK n : n = c.target
        OBVIOUS
    <2>3. n \in Int /\ n % 10 = 0 /\ 0 <= n /\ n < 10 * Word
        BY <2>1, <2>2, CommandAssumption DEF CommandAssumption, Fits
    <2>4. Cut(n) = n \div 10
        BY <2>3 DEF Cut
    <2>5. n \div 10 \in Nat /\ 10 * (n \div 10) = n /\ n \div 10 < Word
        BY <2>3, WordFacts
    <2>6. Encode16(n \div 10) = n \div 10
        BY <2>5, WordFacts DEF Encode16
    <2> QED BY <2>1, <2>2, <2>4, <2>5, <2>6 DEF Holds
<1> QED BY <1>1, <1>2

\* the modes and the commands of an observed setpoint
LEMMA ObservedFacts ==
    ASSUME NEW x, Observed(x)
    PROVE  /\ Measured /\ x.write = "setpoint" /\ VerifyAddr(x) = "power"
           /\ x.encoding = "signed_scale" /\ ~ReadsBack(x)
           /\ \/ x.command = "charge_setpoint_kw" /\ x.mode \in {"observed_positive", "legacy_positive"}
              \/ x.command = "discharge_setpoint_kw" /\ x.mode \in {"observed_negative", "legacy_negative"}
              \/ x.command = "idle" /\ x.mode = "observed_near_zero"
BY DEF Observed, ReadsBack

\* A battery that has reached the setpoint, or stands still, obeys.
LEMMA ObeysSetpoint ==
    ASSUME NEW x \in AnyPoint, Observed(x), NEW c \in Commands
    PROVE  /\ \A w : Holds(x, c, w) => Obeys(x, w)
           /\ Obeys(x, 0)
<1>1. c.target \in Int /\ x.tolerance \in Nat
    BY CommandAssumption DEF CommandAssumption, AnyPoint
<1>2. Int16(0) = 0
    BY WordFacts DEF Int16
<1>3. Obeys(x, 0)
    BY <1>1, <1>2 DEF Obeys, Abs
<1>4. ASSUME NEW w, Holds(x, c, w) PROVE Obeys(x, w)
    <2>1. Int16(w) = Signed(x, c)
        BY <1>4, ObservedFacts DEF Holds
    <2>2. Abs(c.target) >= 0 /\ Abs(c.target) \in Int /\ -Abs(c.target) <= 0
        BY <1>1 DEF Abs
    <2>3. CASE x.command = "charge_setpoint_kw" /\ x.mode \in {"observed_positive", "legacy_positive"}
        <3>1. Signed(x, c) = Abs(c.target)
            BY <2>3 DEF Signed
        <3> QED BY <2>1, <2>2, <2>3, <3>1 DEF Obeys
    <2>4. CASE x.command = "discharge_setpoint_kw" /\ x.mode \in {"observed_negative", "legacy_negative"}
        <3>1. Signed(x, c) = -Abs(c.target)
            BY <2>4 DEF Signed
        <3> QED BY <2>1, <2>2, <2>4, <3>1 DEF Obeys
    <2>5. CASE x.command = "idle" /\ x.mode = "observed_near_zero"
        <3>1. Signed(x, c) = 0
            BY <2>5 DEF Signed
        <3> QED BY <1>1, <2>1, <2>5, <3>1 DEF Obeys, Abs
    <2> QED BY <2>3, <2>4, <2>5, ObservedFacts
<1> QED BY <1>3, <1>4

\* A readback that confirms has seen the battery obey.
LEMMA ObeysConfirmed ==
    ASSUME NEW x \in AnyPoint, Observed(x), NEW c, NEW w \in 0 .. Word - 1, NEW s,
           Confirms(x, c, w, s)
    PROVE  Obeys(x, w)
<1> DEFINE kw == Int16(w)
<1>1. kw \in Int /\ x.tolerance \in Nat
    BY Int16Type DEF AnyPoint
<1>2. CASE x.mode \in {"observed_positive", "legacy_positive"}
    <2>1. 10 * kw >= x.tolerance
        BY <1>2 DEF Confirms
    <2>2. kw >= 0
        <3> HIDE DEF kw
        <3> QED BY <1>1, <2>1
    <2> QED BY <1>2, <2>2 DEF Obeys
<1>3. CASE x.mode \in {"observed_negative", "legacy_negative"}
    <2>1. 10 * kw <= -x.tolerance
        BY <1>3 DEF Confirms
    <2>2. kw <= 0
        <3> HIDE DEF kw
        <3> QED BY <1>1, <2>1
    <2> QED BY <1>3, <2>2 DEF Obeys
<1>4. CASE x.mode = "observed_near_zero"
    <2>1. Abs(10 * kw) <= x.tolerance
        BY <1>4 DEF Confirms
    <2>2. Abs(10 * kw) = 10 * Abs(kw)
        <3> HIDE DEF kw
        <3> QED BY <1>1 DEF Abs
    <2> QED BY <1>4, <2>1, <2>2 DEF Obeys
<1> QED BY <1>2, <1>3, <1>4, ObservedFacts

\* what a command that is acknowledged says of its register
HoldsFor(x, c, a, word, power) ==
    a # "power" /\ Fits(x, c) => Holds(x, c, word) /\ (Observed(x) => Obeys(x, power))

\* what AckInv says of one register
AckOf(a) ==
    acked[a] # NoCommand =>
        LET x == PointOf(acked[a])
        IN  /\ acked[a] \in Commands /\ x.supported
            /\ x.write = a
            /\ HoldsFor(x, acked[a], a, reg[a], reg["power"])

\* A point of a command that is supported; only a legacy limit or mode is
\* encoded as an int.
LEMMA WrittenPoint ==
    ASSUME profile \in Loaded \cup {Legacy}, NEW c \in Commands,
           PointOf(c).supported, PointOf(c).write # NoAddr
    PROVE  /\ PointOf(c) \in AnyPoint /\ PointOf(c).write \in Addr
           /\ PointOf(c).encoding = "int" => PointOf(c).command # "idle"
           /\ Measured => PointOf(c).write # "power"
<1>1. PointOf(c) \in AnyPoint /\ (profile = Legacy => PointOf(c).write # "power")
    BY SupportedPoint
<1>2. PointOf(c).write \in Addr
    BY <1>1 DEF AnyPoint
<1>3. CASE profile = Legacy
    <2>1. PointOf(c) = LegacyPoint(c.type)
        BY <1>3 DEF PointOf
    <2>2. c.type \in {"charge", "discharge", "idle", "set_limit", "set_mode"}
        BY <2>1 DEF LegacyPoint, NoPoint
    <2>3. \A type \in {"charge", "discharge", "idle", "set_limit", "set_mode"} :
              LegacyPoint(type).encoding = "int" => LegacyPoint(type).command # "idle"
        BY DEF LegacyPoint
    <2> QED BY <1>1, <1>2, <1>3, <2>1, <2>2, <2>3
<1>4. CASE profile # Legacy
    <2>1. profile \in Loaded /\ PointOf(c) = CommandFor(profile, Canonical(c.type))
        BY <1>4 DEF PointOf
    <2>2. Canonical(c.type) \in Named(profile)
        BY <2>1 DEF CommandFor, NoPoint
    <2>3. /\ PointOf(c) \in CommandPoint
          /\ \E i \in DOMAIN profile.points : PointOf(c) = profile.points[i]
        BY <2>1, <2>2, FirstPoint
    <2>4. PointOf(c).encoding # "int"
        BY <2>3 DEF CommandPoint
    <2>5. Measured => PointOf(c).write # "power"
        BY <2>3 DEF Measured
    <2> QED BY <1>1, <1>2, <2>4, <2>5
<1> QED BY <1>3, <1>4

\* A register that is not written keeps what was acknowledged, as long as the
\* power stays or goes where its setpoint sends it.
LEMMA AckKept ==
    ASSUME TypeInv, NEW a \in Addr, AckOf(a),
           UNCHANGED profile, acked'[a] = acked[a], a # "power" => reg'[a] = reg[a],
           \/ ~Measured
           \/ reg'["power"] = reg["power"]
           \/ reg'["power"] \in {reg["setpoint"], 0}
    PROVE  AckOf(a)'
<1> SUFFICES ASSUME acked[a] # NoCommand, acked'[a] # NoCommand PROVE AckOf(a)'
    BY DEF AckOf
<1> PICK c, x : c = acked[a] /\ x = PointOf(c)
    OBVIOUS
<1>1. /\ c \in Commands /\ x.supported /\ x.write = a
      /\ HoldsFor(x, c, a, reg[a], reg["power"])
    BY DEF AckOf
<1>2. x \in AnyPoint
    BY <1>1, WrittenPoint DEF TypeInv, StateOK, Addr, NoAddr
<1>3. acked'[a] = c /\ PointOf(acked[a])' = x
    BY DEF PointOf
<1>4. Observed(x)' <=> Observed(x)
    BY DEF Observed, Measured
<1>5. ASSUME a # "power", Fits(x, c)
      PROVE  Holds(x, c, reg'[a]) /\ (Observed(x) => Obeys(x, reg'["power"]))
    <2>1. Holds(x, c, reg[a]) /\ (Observed(x) => Obeys(x, reg["power"]))
        BY <1>1, <1>5 DEF HoldsFor
    <2>2. ASSUME Observed(x) PROVE Obeys(x, reg'["power"])
        <3>1. Measured /\ a = "setpoint"
            BY <1>1, <2>2, ObservedFacts
        <3>2. CASE reg'["power"] = reg["power"]
            BY <2>1, <2>2, <3>2
        <3>3. CASE reg'["power"] = 0
            BY <1>1, <1>2, <2>2, <3>3, ObeysSetpoint
        <3>4. CASE reg'["power"] = reg["setpoint"]
            BY <1>1, <1>2, <2>1, <2>2, <3>1, <3>4, ObeysSetpoint
        <3> QED BY <3>1, <3>2, <3>3, <3>4
    <2> QED BY <1>5, <2>1, <2>2
<1>6. HoldsFor(x, c, a, reg[a], reg["power"])'
    BY <1>4, <1>5 DEF HoldsFor, Fits, Holds, Obeys
<1> QED BY <1>1, <1>3, <1>6 DEF AckOf

\* A register that is confirmed: it was written, or it is itself read back.
LEMMA AckGiven ==
    ASSUME TypeInv, CallInv, call.stage # "none",
           PointOf(call.c).supported, PointOf(call.c).write # NoAddr,
           (call.wrote /\ call.honest) \/ ReadsBack(PointOf(call.c)),
           UNCHANGED <<profile, reg>>, VerifyAddr(PointOf(call.c)) # NoAddr,
           Confirms(PointOf(call.c), call.c, reg[VerifyAddr(PointOf(call.c))], reg["setpoint"]),
           acked' = [acked EXCEPT ![PointOf(call.c).write] = call.c]
    PROVE  \A a \in Addr : a = PointOf(call.c).write => AckOf(a)'
<1> PICK c, x : c = call.c /\ x = PointOf(c)
    OBVIOUS
<1>1. /\ c \in Commands /\ x.supported /\ x.write # NoAddr
      /\ call.wrote /\ call.honest /\ x.write # "power" => reg[x.write] = Encoded(x, c)
    BY DEF TypeInv, HandInv, CallInv
<1>2. x \in AnyPoint /\ x.write \in Addr /\ (x.encoding = "int" => x.command # "idle")
    BY <1>1, WrittenPoint DEF TypeInv, StateOK
<1>3. Confirms(x, c, reg[VerifyAddr(x)], reg["setpoint"])
    OBVIOUS
<1> SUFFICES ASSUME NEW a \in Addr, a = x.write PROVE AckOf(a)'
    OBVIOUS
<1>4. acked'[a] = c
    BY <1>2 DEF TypeInv, RegistersOK
<1>5. PointOf(acked[a])' = x
    BY <1>4 DEF PointOf
<1>6. Observed(x)' <=> Observed(x)
    BY DEF Observed, Measured
<1>7. ASSUME a # "power", Fits(x, c)
      PROVE  Holds(x, c, reg[a]) /\ (Observed(x) => Obeys(x, reg["power"]))
    <2>1. CASE ReadsBack(x)
        <3>1. VerifyAddr(x) = a /\ ~Observed(x)
            BY <2>1, ObservedFacts DEF ReadsBack
        <3> QED BY <1>1, <1>2, <1>3, <1>7, <2>1, <3>1, HoldsReadBack
    <2>2. CASE call.wrote /\ call.honest
        <3>1. Holds(x, c, reg[a])
            BY <1>1, <1>2, <1>7, <2>2, HoldsEncoded
        <3>2. ASSUME Observed(x) PROVE Obeys(x, reg["power"])
            <4>1. VerifyAddr(x) = "power"
                BY <3>2, ObservedFacts
            <4>2. reg["power"] \in 0 .. Word - 1
                BY DEF TypeInv, RegistersOK, Addr
            <4> QED BY <1>2, <1>3, <3>2, <4>1, <4>2, ObeysConfirmed
        <3> QED BY <3>1, <3>2
    <2> QED BY <2>1, <2>2
<1>8. HoldsFor(x, c, a, reg[a], reg["power"])'
    BY <1>6, <1>7 DEF HoldsFor, Fits, Holds, Obeys
<1> QED BY <1>1, <1>4, <1>5, <1>8 DEF AckOf

LEMMA AckInvIs == AckInv <=> \A a \in Addr : AckOf(a)
BY DEF AckInv, AckOf, HoldsFor

LEMMA AckInvNext == AckInv' <=> \A a \in Addr : AckOf(a)'
BY DEF AckInv, AckOf, HoldsFor

DeviceAckInv == CallInv /\ AckInv

LEMMA NextAck ==
    ASSUME TypeInv, DeviceAckInv, [Next]_vars
    PROVE  DeviceAckInv'
<1> USE DEF DeviceAckInv
<1>0. profile \in Loaded \cup {Legacy} /\ \A a \in Addr : AckOf(a)
    BY AckInvIs DEF TypeInv, StateOK
<1>1. ASSUME UNCHANGED <<profile, reg, acked>> PROVE AckInv'
    BY <1>0, <1>1, AckKept, AckInvNext
<1>2. ASSUME UNCHANGED <<profile, reg>>, UNCHANGED call \/ call' = NoCall PROVE CallInv'
    BY <1>2 DEF CallInv, NoCall, PointOf
<1>3. ASSUME NEW c \in Commands, Writes(c), Overwrites(PointOf(c).write, c) PROVE AckInv'
    <2> PICK x, b : x = PointOf(c) /\ b = x.write
        OBVIOUS
    <2>1. PointOf(c).supported /\ PointOf(c).write # NoAddr /\ UNCHANGED profile
        BY <1>3 DEF Writes, Refused
    <2>2. b \in Addr /\ (Measured => b # "power")
        BY <1>0, <2>1, WrittenPoint
    <2>3. /\ acked'[b] = NoCommand
          /\ \A a \in Addr : a # b => acked'[a] = acked[a] /\ reg'[a] = reg[a]
        BY <1>3, <2>2 DEF Overwrites, TypeInv, RegistersOK
    <2>4. ~Measured \/ reg'["power"] = reg["power"]
        BY <2>2, <2>3 DEF Addr
    <2>5. ASSUME NEW a \in Addr PROVE AckOf(a)'
        <3>1. CASE a = b
            BY <2>3, <3>1 DEF AckOf
        <3>2. CASE a # b
            BY <1>0, <2>1, <2>3, <2>4, <3>2, AckKept
        <3> QED BY <3>1, <3>2
    <2> QED BY <2>5, AckInvNext
<1>4. ASSUME NEW c \in Commands, Refuse(c) \/ Misconfigured(c) PROVE DeviceAckInv'
    BY <1>1, <1>2, <1>4 DEF Refuse, Misconfigured
<1>5. ASSUME NEW c \in Commands, Write(c) PROVE DeviceAckInv'
    <2>1. Writes(c) /\ Overwrites(PointOf(c).write, c) /\ UNCHANGED profile
        BY <1>5 DEF Write, Writes
    <2>2. PointOf(c).supported /\ PointOf(c).write # NoAddr
        BY <2>1 DEF Writes, Refused
    <2>3. PointOf(c).write \in Addr
        BY <1>0, <2>2, WrittenPoint
    <2> PICK x : x = PointOf(c)
        OBVIOUS
    <2>4. call'.c = c /\ PointOf(call.c)' = x
        BY <1>5, <2>1 DEF Write, PointOf
    <2>5. reg'[x.write] = Encoded(x, c)
        BY <2>1, <2>3 DEF Overwrites, TypeInv, RegistersOK
    <2>6. CallInv'
        BY <2>2, <2>4, <2>5 DEF CallInv
    <2> QED BY <1>3, <2>1, <2>6
<1>6. ASSUME NEW c \in Commands, WriteIgnored(c) PROVE DeviceAckInv'
    <2>1. UNCHANGED <<profile, reg, acked>>
        BY <1>6 DEF WriteIgnored, Writes
    <2>2. PointOf(c).supported /\ PointOf(c).write # NoAddr
        BY <1>6 DEF WriteIgnored, Writes, Refused
    <2>3. CallInv'
        BY <1>6, <2>1, <2>2 DEF WriteIgnored, CallInv, PointOf
    <2> QED BY <1>1, <2>1, <2>3
<1>7. ASSUME NEW c \in Commands, WriteRaises(c) PROVE DeviceAckInv'
    <2>1. call.stage = "none" /\ UNCHANGED <<profile, call>> /\ Writes(c)
        BY <1>7 DEF WriteRaises, Writes
    <2>2. CallInv'
        BY <2>1 DEF CallInv
    <2>3. AckInv'
        BY <1>1, <1>3, <1>7, <2>1 DEF WriteRaises
    <2> QED BY <2>2, <2>3
<1>8. ASSUME call.stage # "none", UNCHANGED <<profile, reg>>, call' = NoCall,
             PointOf(call.c).supported, PointOf(call.c).write # NoAddr,
             (call.wrote /\ call.honest) \/ ReadsBack(PointOf(call.c)),
             VerifyAddr(PointOf(call.c)) # NoAddr,
             Confirms(PointOf(call.c), call.c, reg[VerifyAddr(PointOf(call.c))], reg["setpoint"]),
             acked' = [acked EXCEPT ![PointOf(call.c).write] = call.c]
      PROVE  DeviceAckInv'
    <2> PICK b : b = PointOf(call.c).write
        OBVIOUS
    <2>1. ASSUME NEW a \in Addr PROVE AckOf(a)'
        <3>1. CASE a = b
            BY <1>8, <3>1, AckGiven
        <3>2. CASE a # b
            <4>1. acked'[a] = acked[a]
                BY <1>8, <3>2 DEF TypeInv, RegistersOK
            <4> QED BY <1>0, <1>8, <4>1, AckKept
        <3> QED BY <3>1, <3>2
    <2> QED BY <1>2, <1>8, <2>1, AckInvNext
<1>9. ASSUME Reconcile PROVE DeviceAckInv'
    <2> PICK x : x = PointOf(call.c)
        OBVIOUS
    <2>1. /\ call.stage # "none" /\ call.wrote
          /\ UNCHANGED <<profile, reg>> /\ call' = NoCall
          /\ x.supported /\ x.write # NoAddr
        BY <1>9 DEF Reconcile, Conclude, TypeInv, HandInv, WrittenInv
    <2>2. VerifyAddr(x) # NoAddr
        BY <2>1 DEF VerifyAddr
    <2>3. CASE UNCHANGED acked
        BY <1>1, <1>2, <2>1, <2>3
    <2>4. CASE acked' # acked
        <3>1. /\ Confirms(x, call.c, reg[VerifyAddr(x)], reg["setpoint"])
              /\ call.honest \/ ReadsBack(x)
              /\ acked' = [acked EXCEPT ![x.write] = call.c]
            BY <1>9, <2>4 DEF Reconcile
        <3> QED BY <1>8, <2>1, <2>2, <3>1
    <2> QED BY <2>3, <2>4
<1>10. ASSUME Recover PROVE DeviceAckInv'
    <2> PICK x : x = PointOf(call.c)
        OBVIOUS
    <2>1. UNCHANGED <<profile, reg>> /\ call' = NoCall /\ call.stage # "none"
        BY <1>10 DEF Recover, Conclude
    <2>2. CASE UNCHANGED acked
        BY <1>1, <1>2, <2>1, <2>2
    <2>3. CASE acked' # acked
        <3>1. /\ x.supported /\ VerifyAddr(x) # NoAddr
              /\ Confirms(x, call.c, reg[VerifyAddr(x)], reg["setpoint"])
              /\ (call.wrote /\ call.honest) \/ ReadsBack(x)
              /\ acked' = [acked EXCEPT ![x.write] = call.c]
            BY <1>10, <2>3 DEF Recover
        <3>2. x.write # NoAddr
            BY <2>1, <3>1 DEF ReadsBack, TypeInv, HandInv
        <3> QED BY <1>8, <2>1, <3>1, <3>2
    <2> QED BY <2>2, <2>3
<1>11. ASSUME ReconcileGarbage \/ ReconcileRaises \/ RecoverRaises PROVE DeviceAckInv'
    BY <1>1, <1>2, <1>11 DEF ReconcileGarbage, ReconcileRaises, RecoverRaises, Conclude
<1>12. ASSUME NEW c \in Commands, Restart(c) PROVE DeviceAckInv'
    <2>1. UNCHANGED <<profile, reg, acked>>
        BY <1>12 DEF Restart
    <2>2. CallInv'
        BY <1>12, <2>1 DEF Restart, CallInv, PointOf, TypeInv, CallOK
    <2> QED BY <1>1, <2>1, <2>2
<1>13. ASSUME Settle PROVE DeviceAckInv'
    <2>1. PICK kw \in {reg["setpoint"], 0} : reg' = [reg EXCEPT !["power"] = kw]
        BY <1>13 DEF Settle
    <2>2. /\ UNCHANGED <<profile, call, acked>> /\ reg'["power"] = kw
          /\ \A a \in Addr : a # "power" => reg'[a] = reg[a]
        BY <1>13, <2>1 DEF Settle, TypeInv, RegistersOK, Addr
    <2>3. CallInv'
        <3> SUFFICES ASSUME call.stage # "none", call.wrote PROVE CallInv'
            BY <2>2 DEF CallInv
        <3>1. call.c \in Commands /\ PointOf(call.c).supported /\ PointOf(call.c).write # NoAddr
            BY DEF TypeInv, HandInv
        <3>2. PointOf(call.c).write \in Addr
            BY <1>0, <3>1, WrittenPoint
        <3> PICK x : x = PointOf(call.c)
            OBVIOUS
        <3>3. PointOf(call.c)' = x
            BY <2>2 DEF PointOf
        <3> QED BY <2>2, <3>1, <3>2, <3>3 DEF CallInv
    <2>4. ASSUME NEW a \in Addr PROVE AckOf(a)'
        BY <1>0, <2>1, <2>2, AckKept
    <2> QED BY <2>3, <2>4, AckInvNext
<1>14. ASSUME Tick \/ UNCHANGED vars PROVE DeviceAckInv'
    BY <1>1, <1>2, <1>14 DEF Tick, vars
<1> QED
    BY <1>4, <1>5, <1>6, <1>7, <1>9, <1>10, <1>11, <1>12, <1>13, <1>14 DEF Next

\* Under every profile that passes validate_profile, and without one, a command
\* that fits and was acknowledged is what its register holds until the next
\* write to it, and what the battery obeys where its power is what was observed
\* (commands.py:91-185): after a crash before or after the write too, whatever
\* the battery did meanwhile.
THEOREM AckedHoldsCorrect == Spec => []AckedHolds
<1>1. TypeInv /\ DeviceAckInv /\ [Next]_vars => DeviceAckInv'
    BY NextAck
<1>2. Init => DeviceAckInv
    BY DEF Init, DeviceAckInv, CallInv, AckInv, NoCall
<1>3. DeviceAckInv => AckedHolds
    <2> SUFFICES ASSUME AckInv, NEW a \in Addr, a # "power", acked[a] # NoCommand,
                        Fits(PointOf(acked[a]), acked[a])
                 PROVE  /\ Holds(PointOf(acked[a]), acked[a], reg[a])
                        /\ Observed(PointOf(acked[a])) => Obeys(PointOf(acked[a]), reg["power"])
        BY DEF DeviceAckInv, AckedHolds
    <2> QED BY DEF AckInv
<1> QED BY <1>1, <1>2, <1>3, TypeInvCorrect, InitTypes, NextTypes, PTL DEF Spec

-----------------------------------------------------------------------------
(* What the decoder makes of the registers of a point *)

Byte == 0 .. Base - 1

LEMMA BaseFacts == Base \in Nat /\ Base >= 2 /\ Word = Base * Base /\ Word \in Nat /\ Word > 0
BY BaseAssumption, WordFacts DEF Word

\* The quotient and the remainder put a number together.
LEMMA Division ==
    ASSUME NEW x \in Nat, NEW b \in Nat, b > 0
    PROVE  /\ x \div b \in Nat /\ x % b \in 0 .. b - 1
           /\ x = b * (x \div b) + (x % b)
<1>1. x \div b \in Nat /\ x % b \in 0 .. b - 1
    OBVIOUS
<1>2. x = b * (x \div b) + (x % b)
    OBVIOUS
<1> QED BY <1>1, <1>2

\* A number in the base has one quotient and one remainder.
LEMMA Quotient ==
    ASSUME NEW b \in Nat, b > 0, NEW q \in Nat, NEW r \in 0 .. b - 1
    PROVE  (q * b + r) \div b = q /\ (q * b + r) % b = r
<1> DEFINE x == q * b + r
<1>1. x \in Nat /\ x \div b \in Nat /\ x % b \in 0 .. b - 1 /\ x = b * (x \div b) + (x % b)
    <2>1. x \in Nat
        OBVIOUS
    <2> HIDE DEF x
    <2> QED BY <2>1, Division
<1> DEFINE d == x \div b
           m == x % b
<1>2. d \in Nat /\ m \in 0 .. b - 1 /\ q * b + r = b * d + m
    BY <1>1
<1> HIDE DEF d, m, x
<1>3. CASE d < q
    <2>1. PICK k \in Nat : q = d + 1 + k
        BY <1>2, <1>3
    <2>2. q * b = b * d + b + k * b /\ k * b \in Nat /\ b * d \in Nat
        BY <1>2, <2>1
    <2> QED BY <1>2, <2>2
<1>4. CASE d > q
    <2>1. PICK k \in Nat : d = q + 1 + k
        BY <1>2, <1>4
    <2>2. b * d = q * b + b + k * b /\ k * b \in Nat /\ q * b \in Nat
        BY <1>2, <2>1
    <2> QED BY <1>2, <2>2
<1>5. CASE d = q
    <2>1. b * d = q * b /\ q * b \in Nat
        BY <1>5
    <2> QED BY <1>2, <1>5, <2>1 DEF d, m, x
<1> QED BY <1>2, <1>3, <1>4, <1>5

\* The two bytes of a word.
LEMMA WordBytes ==
    ASSUME NEW w \in 0 .. Word - 1
    PROVE  /\ BytesOf(w) = <<w \div Base, w % Base>>
           /\ w \div Base \in Byte /\ w % Base \in Byte
           /\ (w \div Base) * Base + (w % Base) = w
<1> USE BaseFacts
<1>1. w \in Nat /\ w % Word = w
    OBVIOUS
<1>2. w \div Base \in Nat /\ w % Base \in Byte /\ w = Base * (w \div Base) + (w % Base)
    BY <1>1, Division DEF Byte
<1> DEFINE d == w \div Base
           m == w % Base
<1>3. d < Base
    <2> SUFFICES ASSUME d >= Base PROVE FALSE
        BY <1>2
    <2>1. d \in Nat /\ m \in Nat /\ w = Base * d + m /\ w < Word
        BY <1>2 DEF Byte
    <2> HIDE DEF d, m
    <2>2. PICK k \in Nat : d = Base + k
        BY <2>1
    <2>3. Base * d = Word + Base * k /\ Base * k \in Nat
        BY <2>2
    <2> QED BY <2>1, <2>3
<1>4. d \in Byte
    BY <1>2, <1>3 DEF Byte
<1>5. (w \div Base) * Base = Base * (w \div Base)
    BY <1>2
<1> QED BY <1>1, <1>2, <1>4, <1>5 DEF BytesOf

LEMMA Turned ==
    ASSUME NEW S, NEW s \in Seq(S)
    PROVE  Flipped(s) \in Seq(S) /\ Len(Flipped(s)) = Len(s) /\ Flipped(Flipped(s)) = s
<1>1. Len(s) \in Nat /\ DOMAIN s = 1 .. Len(s) /\ s \in [1 .. Len(s) -> S]
    OBVIOUS
<1>2. \A i \in 1 .. Len(s) : Len(s) + 1 - i \in 1 .. Len(s) /\ Len(s) + 1 - (Len(s) + 1 - i) = i
    BY <1>1
<1>3. Flipped(s) \in [1 .. Len(s) -> S] /\ \A i \in 1 .. Len(s) : Flipped(s)[i] = s[Len(s) + 1 - i]
    BY <1>1, <1>2 DEF Flipped
<1>4. Flipped(s) \in Seq(S) /\ Len(Flipped(s)) = Len(s) /\ DOMAIN Flipped(s) = 1 .. Len(s)
    BY <1>1, <1>3
<1>5. /\ Flipped(Flipped(s)) \in [1 .. Len(s) -> S]
      /\ \A i \in 1 .. Len(s) : Flipped(Flipped(s))[i] = Flipped(s)[Len(s) + 1 - i]
    BY <1>2, <1>3, <1>4 DEF Flipped
<1>6. \A i \in 1 .. Len(s) : Flipped(Flipped(s))[i] = s[i]
    BY <1>2, <1>3, <1>5
<1>7. Flipped(Flipped(s)) = s
    BY <1>1, <1>5, <1>6
<1> QED BY <1>4, <1>7

LEMMA FlatType ==
    ASSUME NEW ws \in Seq(0 .. Word - 1)
    PROVE  /\ Flat(ws) \in Seq(Byte) /\ Len(Flat(ws)) = 2 * Len(ws)
           /\ \A k \in 1 .. Len(ws) : /\ Flat(ws)[2 * k - 1] = ws[k] \div Base
                                      /\ Flat(ws)[2 * k] = ws[k] % Base
<1>1. Len(ws) \in Nat /\ \A k \in 1 .. Len(ws) : ws[k] \in 0 .. Word - 1
    <2>1. Word - 1 \in Int
        BY BaseFacts
    <2> QED BY <2>1
<1> DEFINE n == 2 * Len(ws)
           at(i) == BytesOf(ws[(i + 1) \div 2])[IF i % 2 = 1 THEN 1 ELSE 2]
<1>2. n \in Nat /\ \A i \in 1 .. n : (i + 1) \div 2 \in 1 .. Len(ws)
    BY <1>1
<1>3. \A i \in 1 .. n : at(i) \in Byte
    <2> SUFFICES ASSUME NEW i \in 1 .. n PROVE at(i) \in Byte
        OBVIOUS
    <2> DEFINE w == ws[(i + 1) \div 2]
    <2>1. w \in 0 .. Word - 1
        BY <1>1, <1>2
    <2> HIDE DEF w
    <2>2. BytesOf(w) = <<w \div Base, w % Base>> /\ w \div Base \in Byte /\ w % Base \in Byte
        BY <2>1, WordBytes
    <2>3. BytesOf(w)[1] \in Byte /\ BytesOf(w)[2] \in Byte
        BY <2>2
    <2> QED BY <2>3 DEF w
<1>4. Flat(ws) = [i \in 1 .. n |-> at(i)]
    BY DEF Flat
<1> HIDE DEF n, at
<1>5. Flat(ws) \in [1 .. n -> Byte]
    BY <1>3, <1>4
<1>6. Flat(ws) \in Seq(Byte) /\ Len(Flat(ws)) = n
    BY <1>2, <1>5
<1>7. ASSUME NEW k \in 1 .. Len(ws)
      PROVE  Flat(ws)[2 * k - 1] = ws[k] \div Base /\ Flat(ws)[2 * k] = ws[k] % Base
    <2>1. /\ 2 * k - 1 \in 1 .. n /\ 2 * k \in 1 .. n
          /\ ((2 * k - 1) + 1) \div 2 = k /\ (2 * k + 1) \div 2 = k
          /\ (2 * k - 1) % 2 = 1 /\ (2 * k) % 2 = 0
        BY <1>1 DEF n
    <2>2. Flat(ws)[2 * k - 1] = at(2 * k - 1) /\ Flat(ws)[2 * k] = at(2 * k)
        BY <1>4, <2>1
    <2>3. at(2 * k - 1) = BytesOf(ws[k])[1] /\ at(2 * k) = BytesOf(ws[k])[2]
        BY <2>1 DEF at
    <2>4. BytesOf(ws[k]) = <<ws[k] \div Base, ws[k] % Base>>
        BY <1>1, WordBytes
    <2> QED BY <2>2, <2>3, <2>4
<1> QED BY <1>6, <1>7 DEF n

LEMMA PairedFlat ==
    ASSUME NEW ws \in Seq(0 .. Word - 1)
    PROVE  Paired(Flat(ws)) = ws
<1>1. Len(ws) \in Nat /\ \A k \in 1 .. Len(ws) : ws[k] \in 0 .. Word - 1
    <2>1. Word - 1 \in Int
        BY BaseFacts
    <2> QED BY <2>1
<1> DEFINE t == Flat(ws)
<1>2. /\ Len(t) = 2 * Len(ws)
      /\ \A k \in 1 .. Len(ws) : t[2 * k - 1] = ws[k] \div Base /\ t[2 * k] = ws[k] % Base
    BY FlatType
<1>3. Len(t) \div 2 = Len(ws)
    BY <1>1, <1>2
<1> HIDE DEF t
<1>4. Paired(t) = [i \in 1 .. Len(ws) |-> t[2 * i - 1] * Base + t[2 * i]]
    BY <1>3 DEF Paired
<1>5. \A k \in 1 .. Len(ws) : t[2 * k - 1] * Base + t[2 * k] = ws[k]
    <2> TAKE k \in 1 .. Len(ws)
    <2>1. (ws[k] \div Base) * Base + (ws[k] % Base) = ws[k]
        BY <1>1, WordBytes
    <2> QED BY <1>2, <2>1
<1>6. ws = [i \in 1 .. Len(ws) |-> ws[i]]
    OBVIOUS
<1> QED BY <1>4, <1>5, <1>6 DEF t

\* A leading digit and a rest below its place.
LEMMA TopDigit ==
    ASSUME NEW r \in Byte, NEW k \in Nat, k > 0, NEW low \in 0 .. k - 1
    PROVE  r * k \in Nat /\ Base * k \in Nat /\ Base * k > 0 /\ r * k + low \in 0 .. Base * k - 1
<1>1. r \in Nat /\ Base \in Nat /\ r < Base
    BY BaseFacts DEF Byte
<1>2. PICK j \in Nat : Base = r + 1 + j
    <2>1. Base - r - 1 \in Nat /\ Base = r + 1 + (Base - r - 1)
        BY <1>1
    <2> QED BY <2>1
<1>3. Base * k = r * k + k + j * k /\ r * k \in Nat /\ j * k \in Nat
    BY <1>1, <1>2
<1> QED BY <1>3

LEMMA Digits ==
    ASSUME NEW n \in Nat
    PROVE  /\ Digit(n, 0) = n % Base /\ Digit(n, 1) = (n \div Base) % Base
           /\ Digit(n, 2) = (n \div Word) % Base /\ Digit(n, 3) = (n \div (Word * Base)) % Base
<1>1. n \div 1 = n
    OBVIOUS
<1> DEFINE places == <<1, Base, Word, Word * Base>>
<1>2. places[1] = 1 /\ places[2] = Base /\ places[3] = Word /\ places[4] = Word * Base
    OBVIOUS
<1>3. \A i \in 0 .. 3 : Digit(n, i) = (n \div places[i + 1]) % Base
    BY DEF Digit
<1> HIDE DEF places
<1>4. Digit(n, 0) = (n \div places[1]) % Base /\ Digit(n, 1) = (n \div places[2]) % Base
    BY <1>3
<1>5. Digit(n, 2) = (n \div places[3]) % Base /\ Digit(n, 3) = (n \div places[4]) % Base
    BY <1>3
<1> QED BY <1>1, <1>2, <1>4, <1>5

LEMMA SmallDigit == \A r \in Byte : r % Base = r
BY BaseFacts DEF Byte

LEMMA TwoDigits ==
    ASSUME NEW high \in Byte, NEW low \in Byte
    PROVE  high * Base + low \in 0 .. Word - 1
<1>1. low \in 0 .. Base - 1 /\ Base \in Nat /\ Base > 0
    BY BaseFacts DEF Byte
<1>2. high * Base + low \in 0 .. Base * Base - 1
    BY <1>1, TopDigit
<1> QED BY <1>2, BaseFacts

\* The bytes of the number that some bytes stand for are these bytes.
LEMMA BigEndianOf ==
    ASSUME NEW b \in Seq(Byte), Len(b) = 2 \/ Len(b) = 4
    PROVE  /\ BigEndian(Unsigned(b), Len(b)) = b
           /\ Unsigned(b) \in 0 .. (IF Len(b) = 2 THEN Word ELSE Word * Word) - 1
<1> USE BaseFacts
<1>0. \A i \in 1 .. Len(b) : b[i] \in Byte
    BY DEF Byte
<1>1. ASSUME NEW q \in Nat, NEW r \in Byte
      PROVE  q * Base + r \in Nat /\ (q * Base + r) \div Base = q /\ (q * Base + r) % Base = r
    BY <1>1, Quotient DEF Byte
<1>2. CASE Len(b) = 2
    <2>1. b[1] \in Byte /\ b[2] \in Byte /\ b[1] \in Nat
        BY <1>0, <1>2 DEF Byte
    <2> DEFINE n == b[1] * Base + b[2]
    <2>2. n \in Nat /\ n \div Base = b[1] /\ n % Base = b[2]
        BY <1>1, <2>1
    <2>3. Unsigned(b) = n
        BY <1>2 DEF Unsigned
    <2>4. n \in 0 .. Word - 1
        BY <2>1, TwoDigits
    <2> HIDE DEF n
    <2>5. b[1] % Base = b[1]
        BY <2>1, SmallDigit
    <2>6. BigEndian(n, 2) = [i \in 1 .. 2 |-> Digit(n, 2 - i)]
        BY DEF BigEndian
    <2>7. Digit(n, 1) = b[1] /\ Digit(n, 0) = b[2]
        BY <2>2, <2>5, Digits
    <2>8. BigEndian(n, 2) = b
        BY <1>2, <2>6, <2>7
    <2> QED BY <1>2, <2>2, <2>3, <2>4, <2>8
<1>3. CASE Len(b) = 4
    <2>1. b[1] \in Byte /\ b[2] \in Byte /\ b[3] \in Byte /\ b[4] \in Byte /\ b[1] \in Nat
        BY <1>0, <1>3 DEF Byte
    <2> DEFINE n2 == b[1] * Base + b[2]
               n3 == n2 * Base + b[3]
               n  == n3 * Base + b[4]
    <2>2. n2 \in Nat /\ n2 \div Base = b[1] /\ n2 % Base = b[2]
        BY <1>1, <2>1
    <2>3. n3 \in Nat /\ n3 \div Base = n2 /\ n3 % Base = b[3]
        <3> HIDE DEF n2
        <3> QED BY <1>1, <2>1, <2>2
    <2>4. n \in Nat /\ n \div Base = n3 /\ n % Base = b[4]
        <3> HIDE DEF n3
        <3> QED BY <1>1, <2>1, <2>3
    <2>5. Unsigned(b) = n
        BY <1>3 DEF Unsigned
    <2>6. n2 \in 0 .. Word - 1
        BY <2>1, TwoDigits
    <2> DEFINE low == b[3] * Base + b[4]
    <2>7. low \in 0 .. Word - 1
        BY <2>1, TwoDigits
    <2>8. n = n2 * Word + low
        <3>1. n = (n2 * Base + b[3]) * Base + b[4]
            OBVIOUS
        <3> HIDE DEF n2, n
        <3>2. b[3] \in Int /\ b[4] \in Int
            BY <2>1 DEF Byte
        <3> QED BY SMTT(30), <2>2, <3>1, <3>2
    <2> HIDE DEF n2, n3, n, low
    <2>9. n \div Word = n2 /\ n <= Word * Word - 1
        <3>1. n \div Word = n2
            BY <2>2, <2>7, <2>8, Quotient
        <3>2. n2 * Word <= (Word - 1) * Word /\ (Word - 1) * Word = Word * Word - Word
            BY <2>2, <2>6
        <3>3. n2 * Word \in Nat /\ Word * Word \in Nat
            BY <2>2
        <3> QED BY <2>7, <2>8, <3>1, <3>2, <3>3
    <2>10. n \div (Word * Base) = b[1]
        <3> DEFINE rest == b[2] * Word + low
                   wb == Word * Base
        <3>1. b[2] * Word \in Nat /\ wb \in Nat /\ wb > 0 /\ rest \in 0 .. wb - 1
            <4>1. Base * Word = wb
                OBVIOUS
            <4> QED BY <2>1, <2>7, <4>1, TopDigit
        <3>2. b[2] \in Nat
            BY <2>1 DEF Byte
        <3>3. n2 * Word = b[1] * wb + b[2] * Word
            <4>1. \A p, q, u, v \in Nat : (p * u + q) * v = p * (v * u) + q * v
                OBVIOUS
            <4> QED BY <2>1, <3>2, <4>1 DEF n2
        <3>4. n = b[1] * wb + rest
            <4>1. b[1] * wb \in Nat
                BY <2>1, <3>1
            <4> HIDE DEF wb
            <4> QED BY <2>7, <2>8, <3>1, <3>3, <4>1
        <3> HIDE DEF wb, rest
        <3>5. n \div wb = b[1]
            BY <2>1, <3>1, <3>4, Quotient
        <3> QED BY <3>5 DEF wb
    <2>11. b[1] % Base = b[1]
        BY <2>1, SmallDigit
    <2>12. BigEndian(n, 4) = [i \in 1 .. 4 |-> Digit(n, 4 - i)]
        BY DEF BigEndian
    <2>13. Digit(n, 3) = b[1] /\ Digit(n, 2) = b[2] /\ Digit(n, 1) = b[3] /\ Digit(n, 0) = b[4]
        BY <2>2, <2>3, <2>4, <2>9, <2>10, <2>11, Digits
    <2>14. BigEndian(n, 4) = b
        BY <1>3, <2>12, <2>13
    <2> QED BY <1>3, <2>4, <2>5, <2>9, <2>14
<1> QED BY <1>2, <1>3


LEMMA SignDropped ==
    ASSUME NEW M \in Nat, M > 0, NEW n \in 0 .. M - 1
    PROVE  n % M = n /\ (n - M) % M = n
OBVIOUS

\* Registers of the right number for the type of a point are laid out again.
LEMMA LaidOut ==
    ASSUME NEW m \in Mappings, NEW ws \in Seq(0 .. Word - 1),
           Len(ws) = m.count, 2 * m.count = Size(m.type)
    PROVE  Decode(m, ws).ok /\ Layout(Decode(m, ws).value % Modulus(m), m) = ws
<1> DEFINE size  == Size(m.type)
           words == IF m.wordOrder = "little" THEN Flipped(ws) ELSE ws
           t     == Flat(words)
           b     == IF m.byteOrder = "little" THEN Flipped(t) ELSE t
           n     == Unsigned(b)
           M     == IF size = 2 THEN Word ELSE Word * Word
           v     == FromBytes(t, m.byteOrder, m.type \in {"int16", "int32"})
<1> USE BaseFacts
<1>1. size \in {2, 4}
    BY DEF Size
<1>2. words \in Seq(0 .. Word - 1) /\ Len(words) = Len(ws)
      /\ (IF m.wordOrder = "little" THEN Flipped(words) ELSE words) = ws
    <2>1. CASE m.wordOrder = "little"
        BY <2>1, Turned
    <2>2. CASE m.wordOrder # "little"
        BY <2>2
    <2> QED BY <2>1, <2>2
<1>3. RegistersToBytes(ws, m.wordOrder) = t
    BY DEF RegistersToBytes
<1> HIDE DEF words, size
<1>4. t \in Seq(Byte) /\ Len(t) = 2 * Len(ws)
    BY <1>2, FlatType
<1>5. Paired(t) = words
    BY <1>2, PairedFlat
<1>6. Len(t) = size
    BY <1>4 DEF size
<1>7. Decode(m, ws) = [ok |-> TRUE, value |-> v]
    BY <1>3, <1>6 DEF Decode, size
<1> HIDE DEF t
<1>8. b \in Seq(Byte) /\ Len(b) = size
      /\ (IF m.byteOrder = "little" THEN Flipped(b) ELSE b) = t
    <2>1. CASE m.byteOrder = "little"
        BY <1>4, <1>6, <2>1, Turned
    <2>2. CASE m.byteOrder # "little"
        BY <1>4, <1>6, <2>2
    <2> QED BY <2>1, <2>2
<1>9. v = IF m.type \in {"int16", "int32"} THEN TwosComplement(n, size) ELSE n
    BY <1>6 DEF FromBytes
<1> HIDE DEF b
<1>10. BigEndian(n, size) = b /\ n \in 0 .. M - 1
    BY <1>1, <1>8, BigEndianOf
<1> HIDE DEF n
<1>11. v = n \/ v = n - M
    BY <1>1, <1>9 DEF TwosComplement
<1> HIDE DEF v
<1>12. M \in Nat /\ M > 0
    <2>1. Word * Word \in Nat /\ Word * Word > 0
        OBVIOUS
    <2> QED BY <2>1
<1>13. Modulus(m) = M
    BY DEF Modulus, size
<1> HIDE DEF M
<1>14. v % M = n
    BY <1>10, <1>11, <1>12, SignDropped
<1>15. Layout(n, m) = ws
    <2>1. BigEndian(n, Size(m.type)) = b
        BY <1>10 DEF size
    <2>2. Layout(n, m) = IF m.wordOrder = "little" THEN Flipped(words) ELSE words
        BY <1>5, <1>8, <2>1 DEF Layout
    <2> QED BY <1>2, <2>2
<1> QED BY <1>7, <1>13, <1>14, <1>15

LEMMA NotLaidOut ==
    ASSUME NEW m \in Mappings, NEW ws \in Seq(0 .. Word - 1),
           Len(ws) # m.count \/ 2 * m.count # Size(m.type)
    PROVE  ~Decode(m, ws).ok
<1> DEFINE words == IF m.wordOrder = "little" THEN Flipped(ws) ELSE ws
<1>1. words \in Seq(0 .. Word - 1) /\ Len(words) = Len(ws)
    <2>1. CASE m.wordOrder = "little"
        BY <2>1, Turned
    <2>2. CASE m.wordOrder # "little"
        BY <2>2
    <2> QED BY <2>1, <2>2
<1> HIDE DEF words
<1>2. Len(Flat(words)) = 2 * Len(ws)
    BY <1>1, FlatType
<1>3. RegistersToBytes(ws, m.wordOrder) = Flat(words)
    BY DEF RegistersToBytes, words
<1>4. Decode(m, ws) = NotDecoded
    BY <1>2, <1>3 DEF Decode
<1> QED BY <1>4 DEF NotDecoded

\* decoder.py:15-66 -- the number that the decoder makes of one or two registers
\* is the one that the device lays out in just these registers, whatever they
\* hold, for every type and order of bytes and words and every even base; of
\* another count of registers it makes none.
THEOREM DecodesLayoutCorrect == Spec => []DecodesLayout
<1>1. TypeInv => DecodesLayout
    <2> SUFFICES ASSUME TypeInv, NEW m \in Mappings
                 PROVE  LET ws == IF m.count = 1 THEN <<reg["power"]>>
                                                 ELSE <<reg["power"], reg["setpoint"]>>
                        IN  IF 2 * m.count = Size(m.type)
                            THEN /\ Decode(m, ws).ok
                                 /\ Layout(Decode(m, ws).value % Modulus(m), m) = ws
                            ELSE ~Decode(m, ws).ok
        BY DEF DecodesLayout
    <2> DEFINE ws == IF m.count = 1 THEN <<reg["power"]>> ELSE <<reg["power"], reg["setpoint"]>>
    <2>1. m.count \in Nat /\ reg["power"] \in 0 .. Word - 1 /\ reg["setpoint"] \in 0 .. Word - 1
        BY CommandAssumption DEF CommandAssumption, TypeInv, RegistersOK, Addr
    <2>2. ws \in Seq(0 .. Word - 1) /\ Len(ws) = IF m.count = 1 THEN 1 ELSE 2
        <3> DEFINE p == reg["power"]
                   q == reg["setpoint"]
                   W == 0 .. Word - 1
        <3>1. p \in W /\ q \in W
            BY <2>1
        <3> HIDE DEF p, q, W
        <3>2. <<p>> \in Seq(W) /\ Len(<<p>>) = 1
            BY <3>1
        <3>3. <<p, q>> \in Seq(W) /\ Len(<<p, q>>) = 2
            BY <3>1
        <3>4. ws = IF m.count = 1 THEN <<p>> ELSE <<p, q>>
            BY DEF p, q
        <3> HIDE DEF ws
        <3>5. ws \in Seq(W) /\ Len(ws) = IF m.count = 1 THEN 1 ELSE 2
            BY <3>2, <3>3, <3>4
        <3> QED BY <3>5 DEF W
    <2> HIDE DEF ws
    <2>3. CASE 2 * m.count = Size(m.type)
        <3>1. Len(ws) = m.count
            BY <2>1, <2>2, <2>3 DEF Size
        <3> QED BY <2>2, <2>3, <3>1, LaidOut DEF ws
    <2>4. CASE 2 * m.count # Size(m.type)
        BY <2>2, <2>4, NotLaidOut DEF ws
    <2> QED BY <2>3, <2>4 DEF ws
<1> QED BY <1>1, TypeInvCorrect, PTL

=============================================================================
