----------------------- MODULE TelemetryReplay_proofs -----------------------
(***************************************************************************)
(* Proofs about TelemetryReplay.  For every messaging client: type         *)
(* correctness, which step can lose which readings, and that only crashes  *)
(* and store faults let an upload escape its backoff.  Over HTTP: no       *)
(* buffered reading is lost, only a failed upload lets a reading be        *)
(* overtaken, and the replay implements TelemetryPipe.                     *)
(***************************************************************************)
EXTENDS TelemetryReplay, FiniteSetTheorems, TLAPS

-----------------------------------------------------------------------------
(* Operators *)

LEMMA BackoffType ==
    ASSUME NEW class, NEW n \in Nat
    PROVE  Backoff(class, n) \in 0 .. PermanentBackoff
<1>1. BackoffCap \in 0 .. PermanentBackoff /\ PermanentBackoff \in 0 .. PermanentBackoff
    BY ReplayAssumption DEF ReplayAssumption
<1>2. ASSUME NEW m, m \in 1 .. BackoffCap PROVE m \in 0 .. PermanentBackoff
    BY <1>2, ReplayAssumption DEF ReplayAssumption
<1>3. Exponential(n) \in 0 .. PermanentBackoff
    BY <1>1, <1>2 DEF Exponential
<1> QED BY <1>1, <1>3 DEF Backoff

LEMMA BumpType == ASSUME NEW n \in 0 .. MaxAttempts PROVE Bump(n) \in 0 .. MaxAttempts
BY ReplayAssumption DEF ReplayAssumption, Bump

LEMMA ElapseType ==
    ASSUME NEW f, f \in [Reading -> 0 .. PermanentBackoff]
    PROVE  Elapse(f) \in [Reading -> 0 .. PermanentBackoff]
BY ReplayAssumption DEF ReplayAssumption, Elapse

LEMMA ReadingFinite == ASSUME NEW S, S \subseteq Reading PROVE IsFiniteSet(S)
<1>1. IsFiniteSet(1 .. Readings)
    BY FS_Interval, ReplayAssumption DEF ReplayAssumption
<1> QED BY <1>1, FS_Subset DEF Reading

-----------------------------------------------------------------------------
(* Types *)

LEMMA InitType == Init => TypeOK
<1> SUFFICES ASSUME Init PROVE TypeOK
    OBVIOUS
<1> USE ReplayAssumption DEF ReplayAssumption, Init, Reading
<1>1. attempts \in [Reading -> 0 .. MaxAttempts]
    OBVIOUS
<1>2. wait \in [Reading -> 0 .. PermanentBackoff] /\ owed \in [Reading -> 0 .. PermanentBackoff]
    OBVIOUS
<1>3. rowClass \in [Reading -> Class \cup {"none"}]
    OBVIOUS
<1>4. stored \in [Reading -> Nat]
    OBVIOUS
<1>5. /\ polled \in 0 .. Readings /\ buffer \subseteq 1 .. polled
      /\ failures \in 0 .. MaxFailures /\ faults \in 0 .. MaxFaults /\ crashes \in 0 .. MaxCrashes
      /\ elapsed \in 0 .. CycleSeconds /\ early \in Nat
    OBVIOUS
<1>6. pc \in LoopState /\ error \in Class \cup {"none"}
    BY DEF LoopState
<1>7. batch \subseteq Reading /\ cur \in Reading \cup {0} /\ outbox \subseteq Reading /\ broker \subseteq Reading
    OBVIOUS
<1> QED BY <1>1, <1>2, <1>3, <1>4, <1>5, <1>6, <1>7 DEF TypeOK

\* what every upload of a row does to the loop
LEMMA AttemptType ==
    ASSUME TypeOK, NEW i \in Reading, Attempt(i)
    PROVE  cur' \in Reading \cup {0} /\ batch' \subseteq Reading /\ early' \in Nat
BY DEF TypeOK, Attempt

LEMMA RaisedType ==
    ASSUME TypeOK, NEW i \in Reading, NEW class \in Class, Raised(i, class)
    PROVE  /\ pc' \in LoopState /\ error' \in Class \cup {"none"}
           /\ owed' \in [Reading -> 0 .. PermanentBackoff]
<1>1. Bump(attempts[i]) \in Nat
    BY BumpType, ReplayAssumption DEF TypeOK, ReplayAssumption
<1>2. Backoff(class, Bump(attempts[i])) \in 0 .. PermanentBackoff
    BY <1>1, BackoffType
<1> QED BY <1>2 DEF TypeOK, Raised, LoopState

LEMMA InsertType ==
    ASSUME TypeOK, NEW i \in Reading, Insert(i) PROVE stored' \in [Reading -> Nat]
BY DEF TypeOK, Insert

LEMMA UploadTypeOK == ASSUME TypeOK, NEW i \in Reading, Upload(i) PROVE TypeOK'
<1> USE ReplayAssumption DEF ReplayAssumption, rowVars, cloudVars
<1>1. CASE UploadSkipped(i)
    BY <1>1, AttemptType DEF UploadSkipped, TypeOK, LoopState
<1>2. CASE UploadAccepted(i)
    BY <1>2, AttemptType, InsertType DEF UploadAccepted, TypeOK, LoopState
<1>3. CASE UploadRefused(i)
    <2>1. "validation_failure" \in Class
        BY DEF Class, Permanent
    <2> QED BY <1>3, <2>1, AttemptType, RaisedType DEF UploadRefused, TypeOK
<1>4. ASSUME NEW class \in Permanent \cup Temporary, UploadFailed(i, class) PROVE TypeOK'
    <2>1. class \in Class
        BY DEF Class
    <2> QED BY <1>4, <2>1, AttemptType, RaisedType DEF UploadFailed, TypeOK
<1>5. ASSUME NEW class \in Temporary \cup {Unclassified}, UploadUnanswered(i, class) PROVE TypeOK'
    <2>1. class \in Class
        BY DEF Class
    <2> QED BY <1>5, <2>1, AttemptType, RaisedType, InsertType DEF UploadUnanswered, TypeOK
<1>6. CASE Publish(i)
    BY <1>6, AttemptType DEF Publish, TypeOK, LoopState
<1>7. CASE PublishMock(i)
    BY <1>7, AttemptType DEF PublishMock, TypeOK, LoopState
<1> QED BY <1>1, <1>2, <1>3, <1>4, <1>5, <1>6, <1>7 DEF Upload

LEMMA MarkType == ASSUME TypeOK, LoopInv, MarkRetry PROVE TypeOK'
<1>1. cur \in Reading /\ error \in Class
    BY ReplayAssumption DEF ReplayAssumption, MarkRetry, LoopInv, TypeOK, Reading
<1>2. Bump(attempts[cur]) \in 0 .. MaxAttempts
    BY <1>1, BumpType DEF TypeOK
<1>3. Backoff(error, Bump(attempts[cur])) \in 0 .. PermanentBackoff
    BY <1>2, BackoffType, ReplayAssumption DEF ReplayAssumption
<1>4. wait' \in [Reading -> 0 .. PermanentBackoff]
    BY <1>3 DEF TypeOK, MarkRetry
<1>5. attempts' \in [Reading -> 0 .. MaxAttempts]
    BY <1>2 DEF TypeOK, MarkRetry
<1>6. rowClass' \in [Reading -> Class \cup {"none"}]
    BY <1>1 DEF TypeOK, MarkRetry
<1> QED BY <1>4, <1>5, <1>6 DEF TypeOK, MarkRetry, LoopState, cloudVars, histVars

LEMMA NextType == TypeOK /\ LoopInv /\ [Next]_vars => TypeOK'
<1> SUFFICES ASSUME TypeOK, LoopInv, [Next]_vars PROVE TypeOK'
    OBVIOUS
<1> USE ReplayAssumption
    DEF ReplayAssumption, LoopState, rowVars, loopVars, cloudVars, histVars
<1>1. CASE Boot \/ ListPending \/ BatchDone
    <2>1. CASE Boot
        BY <2>1 DEF TypeOK, Boot
    <2>2. CASE ListPending
        BY <2>2 DEF TypeOK, ListPending
    <2>3. CASE BatchDone
        BY <2>3 DEF TypeOK, BatchDone
    <2> QED BY <1>1, <2>1, <2>2, <2>3
<1>2. ASSUME NEW k \in 0 .. PollSize, Poll(k) PROVE TypeOK'
    BY <1>2 DEF TypeOK, Poll
<1>3. ASSUME NEW i \in Reading, Upload(i) PROVE TypeOK'
    BY <1>3, UploadTypeOK
<1>4. CASE AckTelemetry
    BY <1>4 DEF TypeOK, AckTelemetry
<1>5. CASE MarkRetry
    BY <1>5, MarkType
<1>6. CASE CycleFault \/ AckFault \/ MarkFault
    <2>1. CASE CycleFault
        BY <2>1 DEF TypeOK, CycleFault
    <2>2. CASE AckFault
        BY <2>2 DEF TypeOK, AckFault, Class
    <2>3. CASE MarkFault
        BY <2>3 DEF TypeOK, MarkFault
    <2> QED BY <1>6, <2>1, <2>2, <2>3
<1>7. ASSUME NEW i \in Reading, BrokerDeliver(i) PROVE TypeOK'
    BY <1>7 DEF TypeOK, BrokerDeliver
<1>8. CASE Tick
    <2>1. wait' \in [Reading -> 0 .. PermanentBackoff] /\ owed' \in [Reading -> 0 .. PermanentBackoff]
        BY <1>8, ElapseType DEF TypeOK, Tick
    <2> QED BY <1>8, <2>1 DEF TypeOK, Tick
<1>9. CASE Crash
    BY <1>9 DEF TypeOK, Crash
<1>10. CASE UNCHANGED vars
    BY <1>10 DEF TypeOK, vars
<1> QED BY <1>1, <1>2, <1>3, <1>4, <1>5, <1>6, <1>7, <1>8, <1>9, <1>10 DEF Next, Work

-----------------------------------------------------------------------------
(* The rows in the hands of the thread *)

LEMMA NextLoop == TypeOK /\ LoopInv /\ [Next]_vars => LoopInv'
<1> SUFFICES ASSUME TypeOK, LoopInv, [Next]_vars PROVE LoopInv'
    OBVIOUS
<1> USE ReplayAssumption
    DEF ReplayAssumption, LoopInv, TypeOK, Reading, rowVars, loopVars, cloudVars, histVars
<1>1. CASE Boot \/ BatchDone \/ ListPending
    BY <1>1 DEF Boot, BatchDone, ListPending, Due
<1>2. ASSUME NEW k \in 0 .. PollSize, Poll(k) PROVE LoopInv'
    BY <1>2 DEF Poll
<1>3. ASSUME NEW i \in Reading, Upload(i) PROVE LoopInv'
    <2> USE <1>3 DEF Attempt, IsHead, Raised, Class, Permanent, Temporary
    <2>1. CASE UploadSkipped(i) \/ UploadAccepted(i) \/ Publish(i) \/ PublishMock(i)
        BY <2>1 DEF UploadSkipped, UploadAccepted, Publish, PublishMock
    <2>2. CASE UploadRefused(i)
        BY <2>2 DEF UploadRefused
    <2>3. ASSUME NEW class \in Permanent \cup Temporary, UploadFailed(i, class) PROVE LoopInv'
        BY <2>3 DEF UploadFailed
    <2>4. ASSUME NEW class \in Temporary \cup {Unclassified}, UploadUnanswered(i, class) PROVE LoopInv'
        BY <2>4 DEF UploadUnanswered
    <2> QED BY <2>1, <2>2, <2>3, <2>4 DEF Upload
<1>4. CASE AckTelemetry \/ MarkRetry
    BY <1>4 DEF AckTelemetry, MarkRetry
<1>5. CASE CycleFault \/ AckFault \/ MarkFault
    BY <1>5 DEF CycleFault, AckFault, MarkFault, Class
<1>6. ASSUME NEW i \in Reading, BrokerDeliver(i) PROVE LoopInv'
    BY <1>6 DEF BrokerDeliver
<1>7. CASE Tick \/ Crash \/ UNCHANGED vars
    BY <1>7 DEF Tick, Crash, vars
<1> QED BY <1>1, <1>2, <1>3, <1>4, <1>5, <1>6, <1>7 DEF Next, Work

LEMMA LoopCorrect == Spec => [](TypeOK /\ LoopInv)
<1>1. Init => LoopInv
    BY DEF Init, LoopInv
<1> QED BY <1>1, InitType, NextType, NextLoop, PTL DEF Spec

\* Every reachable state of the buffer, the thread and the cloud is well typed.
THEOREM TypeCorrect == Spec => []TypeOK
BY LoopCorrect, PTL

-----------------------------------------------------------------------------
(* Over HTTP: stored before it is released *)

\* The statement of the ingest stores its reading and no other.
LEMMA Inserted ==
    ASSUME TypeOK, NEW i \in Reading, Insert(i)
    PROVE  /\ stored'[i] > 0
           /\ \A j \in Reading : j # i => stored'[j] = stored[j]
<1>1. stored \in [Reading -> Nat]
    BY DEF TypeOK
<1>2. stored'[i] = IF stored[i] = 0 THEN 1 ELSE stored[i]
    BY <1>1 DEF Insert
<1>3. \A j \in Reading : j # i => stored'[j] = stored[j]
    BY <1>1 DEF Insert
<1>4. stored[i] \in Nat
    BY <1>1
<1> QED BY <1>2, <1>3, <1>4

\* A step that stores the reading in hand, and leaves the buffer alone, settles.
LEMMA InsertSettles ==
    ASSUME TypeOK, LoopInv, SettleInv, NEW i \in Reading, Insert(i), Attempt(i),
           UNCHANGED <<polled, buffer, outbox>>
    PROVE  SettleInv'
<1>1. cur' = i /\ i \in batch
    BY DEF Attempt, IsHead
<1>2. i <= polled
    BY <1>1 DEF LoopInv, TypeOK
<1>3. /\ stored'[i] > 0
      /\ \A j \in Reading : j # i => stored'[j] = stored[j]
    BY Inserted
<1>4. \A j \in Reading : stored'[j] > 0 => j <= polled
    BY <1>2, <1>3 DEF SettleInv
<1>6. \A j \in Reading : j <= polled /\ j \notin buffer => stored'[j] > 0 \/ j \in NullReading
    BY <1>3 DEF SettleInv, NoLoss, Released
<1>7. outbox' = {} /\ UNCHANGED <<polled, buffer>>
    BY DEF SettleInv
<1> QED BY <1>1, <1>3, <1>4, <1>6, <1>7 DEF SettleInv, NoLoss, Released

LEMMA QuietSettles ==
    ASSUME SettleInv, UNCHANGED <<polled, buffer, outbox, stored>>, pc' # "sent"
    PROVE  SettleInv'
BY DEF SettleInv, NoLoss, Released

\* No step changes the messaging mode, so a gateway that starts with HTTP stays
\* with it.
LEMMA KeepTransport == [Next]_vars => transport' = transport
BY DEF Next, Work, Boot, ListPending, BatchDone, AckTelemetry, MarkRetry, Poll, Upload, UploadSkipped,
       UploadAccepted, UploadRefused, Publish, PublishMock, UploadFailed, UploadUnanswered, CycleFault,
       AckFault, MarkFault, BrokerDeliver, Tick, Crash, vars

LEMMA NextSettle ==
    TypeOK /\ LoopInv /\ transport = "http" /\ SettleInv /\ [Next]_vars => SettleInv'
<1> SUFFICES ASSUME TypeOK, LoopInv, transport = "http", SettleInv, [Next]_vars PROVE SettleInv'
    OBVIOUS
<1> USE ReplayAssumption
    DEF ReplayAssumption, LoopInv, SettleInv, NoLoss, Released, TypeOK,
        Reading, rowVars, loopVars, cloudVars, histVars
<1>1. CASE Boot \/ BatchDone \/ ListPending
    <2> HIDE DEF LoopInv, SettleInv, NoLoss, Released, TypeOK
    <2>1. UNCHANGED <<polled, buffer, outbox, stored>> /\ pc' # "sent"
        BY <1>1 DEF Boot, BatchDone, ListPending
    <2> QED BY <2>1, QuietSettles
<1>2. ASSUME NEW k \in 0 .. PollSize, Poll(k) PROVE SettleInv'
    BY <1>2 DEF Poll
<1>3. ASSUME NEW i \in Reading, Upload(i) PROVE SettleInv'
    <2>1. CASE UploadSkipped(i)
        BY <2>1 DEF UploadSkipped, Attempt, IsHead
    <2>2. CASE UploadAccepted(i)
        <3> HIDE DEF LoopInv, SettleInv, NoLoss, Released, TypeOK
        <3>1. Insert(i) /\ Attempt(i) /\ UNCHANGED <<polled, buffer, outbox>>
            BY <2>2 DEF UploadAccepted
        <3> QED BY <3>1, InsertSettles
    <2>3. CASE UploadRefused(i)
        BY <2>3 DEF UploadRefused, Attempt, IsHead, Raised
    <2>4. ASSUME NEW class \in Permanent \cup Temporary, UploadFailed(i, class) PROVE SettleInv'
        BY <2>4 DEF UploadFailed, Attempt, IsHead, Raised
    <2>5. ASSUME NEW class \in Temporary \cup {Unclassified}, UploadUnanswered(i, class)
          PROVE SettleInv'
        <3> HIDE DEF LoopInv, SettleInv, NoLoss, Released, TypeOK
        <3>1. Insert(i) /\ Attempt(i) /\ UNCHANGED <<polled, buffer, outbox>>
            BY <2>5 DEF UploadUnanswered
        <3> QED BY <3>1, InsertSettles
    <2>6. ~Publish(i) /\ ~PublishMock(i)
        BY DEF Publish, PublishMock
    <2> QED BY <1>3, <2>1, <2>2, <2>3, <2>4, <2>5, <2>6 DEF Upload
<1>4. CASE AckTelemetry
    BY <1>4 DEF AckTelemetry
<1>5. CASE MarkRetry
    BY <1>5 DEF MarkRetry
<1>6. CASE CycleFault \/ AckFault \/ MarkFault
    <2> HIDE DEF LoopInv, SettleInv, NoLoss, Released, TypeOK
    <2>1. UNCHANGED <<polled, buffer, outbox, stored>> /\ pc' # "sent"
        BY <1>6 DEF CycleFault, AckFault, MarkFault
    <2> QED BY <2>1, QuietSettles
<1>7. ASSUME NEW i \in Reading, BrokerDeliver(i) PROVE SettleInv'
    BY <1>7 DEF BrokerDeliver
<1>8. CASE Tick \/ Crash \/ UNCHANGED vars
    BY <1>8 DEF Tick, Crash, vars
<1> QED BY <1>1, <1>2, <1>3, <1>4, <1>5, <1>6, <1>7, <1>8 DEF Next, Work

LEMMA InitSettle == Init => SettleInv
BY ReplayAssumption DEF ReplayAssumption, Init, SettleInv, NoLoss, Released, Reading

LEMMA SettleCorrect ==
    Spec /\ transport = "http" => [](TypeOK /\ LoopInv /\ transport = "http" /\ SettleInv)
<1>1. transport = "http" /\ [Next]_vars => (transport = "http")'
    BY KeepTransport
<1> QED BY <1>1, InitSettle, NextSettle, LoopCorrect, PTL DEF Spec

\* Over HTTP no reading leaves the buffer before the cloud holds it, also when
\* other gateways use MQTT.
THEOREM NoLossCorrect == Spec /\ transport = "http" => []NoLoss
<1>1. SettleInv => NoLoss
    BY DEF SettleInv
<1> QED BY <1>1, SettleCorrect, PTL

-----------------------------------------------------------------------------
(* What the cloud holds, and which readings are lost, with any client *)

\* a step stores nothing, or the reading that the thread uploads over HTTP
LEMMA StoredBy ==
    ASSUME TypeOK, [Next]_vars
    PROVE  \/ UNCHANGED stored
           \/ \E i \in Reading :
                 transport = "http" /\ i \notin NullReading \cup Poison /\ Attempt(i) /\ Insert(i)
<1> USE DEF rowVars, loopVars, cloudVars, histVars
<1>1. ASSUME NEW i \in Reading, Upload(i)
      PROVE  \/ UNCHANGED stored
             \/ transport = "http" /\ i \notin NullReading \cup Poison /\ Attempt(i) /\ Insert(i)
    <2>1. CASE UploadSkipped(i) \/ UploadRefused(i) \/ Publish(i) \/ PublishMock(i)
        BY <2>1 DEF UploadSkipped, UploadRefused, Publish, PublishMock
    <2>2. CASE UploadAccepted(i)
        BY <2>2 DEF UploadAccepted
    <2>3. ASSUME NEW class, UploadFailed(i, class) PROVE UNCHANGED stored
        BY <2>3 DEF UploadFailed
    <2>4. ASSUME NEW class, UploadUnanswered(i, class)
          PROVE  transport = "http" /\ i \notin NullReading \cup Poison /\ Attempt(i) /\ Insert(i)
        BY <2>4 DEF UploadUnanswered
    <2> QED BY <1>1, <2>1, <2>2, <2>3, <2>4 DEF Upload
<1>2. ASSUME NEW i \in Reading, BrokerDeliver(i) PROVE UNCHANGED stored
    BY <1>2 DEF BrokerDeliver
<1>3. ASSUME NEW k \in 0 .. PollSize, Poll(k) PROVE UNCHANGED stored
    BY <1>3 DEF Poll
<1>4. CASE \/ Boot \/ ListPending \/ BatchDone \/ AckTelemetry \/ MarkRetry
           \/ CycleFault \/ AckFault \/ MarkFault \/ Tick \/ Crash \/ UNCHANGED vars
    BY <1>4 DEF Boot, ListPending, BatchDone, AckTelemetry, MarkRetry, CycleFault, AckFault, MarkFault,
                Tick, Crash, vars
<1> QED BY <1>1, <1>2, <1>3, <1>4 DEF Next, Work

\* What an upload hands to the client library stays there until the broker has
\* it: no step but a crash takes the row that waits for its DELETE out of both.
LEMMA NextOutbox == OutboxInv /\ [Next]_vars => OutboxInv'
<1> SUFFICES ASSUME OutboxInv, [Next]_vars, transport' = "mqtt", pc' = "sent"
             PROVE  cur' \in outbox' \cup broker'
    BY DEF OutboxInv
<1> USE DEF rowVars, loopVars, cloudVars, histVars
<1>1. transport = "mqtt"
    BY KeepTransport
<1>2. ASSUME NEW i \in Reading, Upload(i) PROVE cur' \in outbox'
    <2>1. Publish(i)
        BY <1>1, <1>2
        DEF Upload, UploadSkipped, UploadAccepted, UploadRefused, UploadFailed, UploadUnanswered,
            PublishMock
    <2> QED BY <2>1 DEF Publish, Attempt
<1>3. ASSUME NEW i \in Reading, BrokerDeliver(i) PROVE cur' \in outbox' \cup broker'
    BY <1>1, <1>3 DEF BrokerDeliver, OutboxInv
<1>4. CASE Tick \/ UNCHANGED vars
    <2>1. UNCHANGED <<pc, cur, broker, outbox>>
        BY <1>4 DEF Tick, vars
    <2> QED BY <1>1, <2>1 DEF OutboxInv
<1>5. ASSUME NEW k \in 0 .. PollSize PROVE ~Poll(k)
    BY DEF Poll
<1>6. ~(\/ Boot \/ ListPending \/ BatchDone \/ AckTelemetry \/ MarkRetry
        \/ CycleFault \/ AckFault \/ MarkFault \/ Crash)
    BY DEF Boot, ListPending, BatchDone, AckTelemetry, MarkRetry, CycleFault, AckFault, MarkFault, Crash
<1> QED BY <1>2, <1>3, <1>4, <1>5, <1>6 DEF Next, Work

\* What a step releases was in the hands of the thread, uploaded and waiting for
\* its DELETE.
LEMMA ReleasedBy ==
    ASSUME TypeOK, LoopInv, [Next]_vars, NEW i \in Reading, Released(i)', ~Released(i)
    PROVE  AckTelemetry /\ i = cur
<1> USE DEF rowVars, loopVars, cloudVars, histVars, Released
<1>1. ASSUME UNCHANGED <<polled, buffer>> PROVE FALSE
    BY <1>1
<1>2. ASSUME NEW k \in 0 .. PollSize, Poll(k) PROVE FALSE
    <2>1. polled' = polled + k /\ buffer' = buffer \cup ((polled + 1) .. (polled + k))
        BY <1>2 DEF Poll
    <2>2. polled \in Nat /\ k \in Nat /\ i \in Nat
        BY ReplayAssumption DEF ReplayAssumption, TypeOK, Reading
    <2> QED BY <2>1, <2>2
<1>3. ASSUME NEW j \in Reading, Upload(j) PROVE UNCHANGED <<polled, buffer>>
    BY <1>3 DEF Upload, UploadSkipped, UploadAccepted, UploadRefused, UploadFailed, UploadUnanswered,
                Publish, PublishMock
<1>4. ASSUME NEW j \in Reading, BrokerDeliver(j) PROVE UNCHANGED <<polled, buffer>>
    BY <1>4 DEF BrokerDeliver
<1>5. CASE \/ Boot \/ ListPending \/ BatchDone \/ MarkRetry
           \/ CycleFault \/ AckFault \/ MarkFault \/ Tick \/ Crash \/ UNCHANGED vars
    <2>1. UNCHANGED <<polled, buffer>>
        BY <1>5 DEF Boot, ListPending, BatchDone, MarkRetry, CycleFault, AckFault, MarkFault, Tick, Crash, vars
    <2> QED BY <1>1, <2>1
<1>6. CASE AckTelemetry
    BY <1>6 DEF AckTelemetry
<1> QED BY <1>1, <1>2, <1>3, <1>4, <1>5, <1>6 DEF Next, Work

\* A reading that was released and held somewhere is held there after the step,
\* unless a crash takes it out of the outbox.
LEMMA HeldStays ==
    ASSUME TypeOK, [Next]_vars, NEW i \in Reading, stored[i] # 0 \/ i \in outbox \cup broker
    PROVE  \/ stored'[i] # 0
           \/ i \in outbox' \cup broker'
           \/ crashes' # crashes /\ i \in outbox
<1>1. stored[i] # 0 => stored'[i] # 0
    <2>1. ASSUME NEW j \in Reading, Insert(j), stored[i] # 0 PROVE stored'[i] # 0
        BY <2>1 DEF Insert, TypeOK
    <2> QED BY <2>1, StoredBy
<1> USE DEF rowVars, loopVars, cloudVars, histVars
<1>2. CASE outbox \cup broker \subseteq outbox' \cup broker'
    BY <1>1, <1>2
<1>3. CASE Crash
    <2>1. crashes' # crashes /\ broker' = broker
        BY <1>3 DEF Crash, TypeOK
    <2> QED BY <1>1, <2>1
<1>4. ASSUME NEW j \in Reading, Upload(j) \/ BrokerDeliver(j)
      PROVE  outbox \cup broker \subseteq outbox' \cup broker'
    BY <1>4 DEF Upload, UploadSkipped, UploadAccepted, UploadRefused, UploadFailed, UploadUnanswered,
                Publish, PublishMock, BrokerDeliver
<1>5. CASE \/ Boot \/ ListPending \/ BatchDone \/ AckTelemetry \/ MarkRetry
           \/ CycleFault \/ AckFault \/ MarkFault \/ Tick \/ UNCHANGED vars
    <2>1. UNCHANGED <<outbox, broker>>
        BY <1>5 DEF Boot, ListPending, BatchDone, AckTelemetry, MarkRetry, CycleFault, AckFault, MarkFault,
                    Tick, vars
    <2> QED BY <1>2, <2>1
<1>6. ASSUME NEW k \in 0 .. PollSize, Poll(k) PROVE UNCHANGED <<outbox, broker>>
    BY <1>6 DEF Poll
<1> QED BY <1>2, <1>3, <1>4, <1>5, <1>6 DEF Next, Work

\* nothing is in the memory of a library that is not used
NoOutboxInv == transport # "mqtt" => outbox = {}

LEMMA NextNoOutbox == NoOutboxInv /\ [Next]_vars => NoOutboxInv'
<1> SUFFICES ASSUME NoOutboxInv, [Next]_vars, transport # "mqtt" PROVE outbox' = {}
    BY KeepTransport DEF NoOutboxInv
<1> outbox = {}
    BY DEF NoOutboxInv
<1> USE DEF rowVars, loopVars, cloudVars, histVars
<1>1. ASSUME NEW i \in Reading, Upload(i) \/ BrokerDeliver(i) PROVE outbox' = {}
    BY <1>1 DEF Upload, UploadSkipped, UploadAccepted, UploadRefused, UploadFailed, UploadUnanswered,
                Publish, PublishMock, BrokerDeliver
<1>2. ASSUME NEW k \in 0 .. PollSize, Poll(k) PROVE outbox' = {}
    BY <1>2 DEF Poll
<1>3. CASE \/ Boot \/ ListPending \/ BatchDone \/ AckTelemetry \/ MarkRetry
           \/ CycleFault \/ AckFault \/ MarkFault \/ Tick \/ Crash \/ UNCHANGED vars
    BY <1>3 DEF Boot, ListPending, BatchDone, AckTelemetry, MarkRetry, CycleFault, AckFault, MarkFault,
                Tick, Crash, vars
<1> QED BY <1>1, <1>2, <1>3 DEF Next, Work

\* over HTTP a row is deleted only when the cloud holds it, with any other
\* gateways about
HttpInv == transport = "http" => SettleInv

LEMMA LostCorrect == Spec => [](TypeOK /\ LoopInv /\ OutboxInv /\ NoOutboxInv /\ HttpInv)
<1>1. Init => OutboxInv /\ NoOutboxInv
    BY DEF Init, OutboxInv, NoOutboxInv
<1>2. Init => HttpInv
    BY InitSettle DEF HttpInv
<1>3. TypeOK /\ LoopInv /\ HttpInv /\ [Next]_vars => HttpInv'
    BY KeepTransport, NextSettle DEF HttpInv
<1> QED BY <1>1, <1>2, <1>3, NextOutbox, NextNoOutbox, LoopCorrect, PTL DEF Spec

\* Which step can lose which readings, with each of the three clients of
\* main.py:74-89: over HTTP none that has a value; over MQTT a crash, and only
\* what waited in the memory of the library, so neither the replay nor a failing
\* DELETE nor the way to the broker loses any (messaging.py:76-86, replay.py:49);
\* the mock client the one row it was handed (messaging.py:87-88).
THEOREM AccountedCorrect == Spec => Accounted
<1> DEFINE May == CASE transport = "http" -> NullReading
                    [] transport = "mqtt" -> IF crashes' = crashes THEN {} ELSE outbox
                    [] OTHER -> {cur}
<1>1. ASSUME TypeOK, LoopInv, OutboxInv, NoOutboxInv, HttpInv, [Next]_vars
      PROVE  Lost' \ Lost \subseteq May
    <2> SUFFICES ASSUME NEW i \in Reading, i \in Lost', i \notin Lost PROVE i \in May
        BY DEF Lost
    <2>1. Released(i)' /\ stored'[i] = 0 /\ i \notin outbox' \cup broker'
        BY DEF Lost
    <2>2. CASE Released(i)
        <3>1. stored[i] # 0 \/ i \in outbox \cup broker
            BY <2>2 DEF Lost
        <3>2. crashes' # crashes /\ i \in outbox
            BY <1>1, <2>1, <3>1, HeldStays
        <3>3. transport = "mqtt"
            BY <1>1, <3>2 DEF NoOutboxInv
        <3> QED BY <3>2, <3>3
    <2>3. CASE ~Released(i)
        <3>1. AckTelemetry /\ i = cur
            BY <1>1, <2>1, <2>3, ReleasedBy
        <3>2. pc = "sent" /\ UNCHANGED <<stored, outbox, broker>>
            BY <3>1 DEF AckTelemetry, cloudVars
        <3>3. ASSUME transport = "http" PROVE i \in NullReading
            <4>1. stored[i] > 0 \/ i \in NullReading
                BY <1>1, <3>1, <3>2, <3>3 DEF HttpInv, SettleInv
            <4> QED BY <2>1, <3>2, <4>1
        <3>4. ASSUME transport = "mqtt" PROVE FALSE
            BY <1>1, <2>1, <3>1, <3>2, <3>4 DEF OutboxInv
        <3> QED BY <3>1, <3>3, <3>4
    <2> QED BY <2>2, <2>3
<1>2. TypeOK /\ LoopInv /\ OutboxInv /\ NoOutboxInv /\ HttpInv /\ [Next]_vars => [Lost' \ Lost \subseteq May]_vars
    BY <1>1
<1> QED BY <1>2, LostCorrect, PTL DEF Spec, Accounted

-----------------------------------------------------------------------------
(* Over HTTP only a failed upload is overtaken *)

\* a row that is waited for by nobody, is not in hand and is not behind the batch
InOrder(j) == wait[j] = 0 /\ cur # j /\ \A i \in batch : j < i => j \in batch

\* the rows that OrderInv speaks about
Unsent == {j \in buffer \ (NullReading \cup Poison) : stored[j] = 0}

LEMMA ListOrder ==
    ASSUME TypeOK, ListPending, NEW j \in Reading, Due(j), NEW i \in batch', j < i
    PROVE  j \in batch'
<1> DEFINE Before(k) == {h \in Reading : Due(h) /\ h < k}
<1>1. i \in Reading /\ Cardinality(Before(i)) < ReplayLimit
    BY DEF ListPending
<1>2. Before(j) \in SUBSET Before(i)
    <2>1. \A h \in Reading : h < j => h < i
        BY <1>1, ReplayAssumption DEF ReplayAssumption, Reading
    <2> QED BY <2>1
<1>3. IsFiniteSet(Before(i)) /\ IsFiniteSet(Before(j))
    BY ReadingFinite
<1>4. Cardinality(Before(j)) <= Cardinality(Before(i))
    <2> HIDE DEF Before
    <2> QED BY <1>2, <1>3, FS_Subset
<1>5. Cardinality(Before(i)) \in Nat /\ Cardinality(Before(j)) \in Nat
    <2> HIDE DEF Before
    <2> QED BY <1>3, FS_CardinalityType
<1>6. Cardinality(Before(j)) < ReplayLimit
    <2> HIDE DEF Before
    <2> QED BY <1>1, <1>4, <1>5, ReplayAssumption DEF ReplayAssumption
<1> QED BY <1>6 DEF ListPending

LEMMA NextWaits ==
    ASSUME TypeOK, LoopInv, [Next]_vars, \A i \in Reading : i > polled => wait[i] = 0
    PROVE  \A i \in Reading : i > polled' => wait'[i] = 0
<1> USE ReplayAssumption DEF ReplayAssumption, TypeOK, Reading, rowVars
<1>1. CASE UNCHANGED wait /\ polled' \in Nat /\ polled' >= polled
    BY <1>1
<1>2. CASE Tick
    BY <1>2 DEF Tick, Elapse
<1>3. CASE MarkRetry
    <2>1. cur \in buffer /\ UNCHANGED polled
        BY <1>3 DEF MarkRetry, LoopInv
    <2>2. cur \in 1 .. polled
        BY <2>1
    <2>3. \A i \in Reading : i # cur => wait'[i] = wait[i]
        BY <1>3 DEF MarkRetry
    <2>4. \A i \in Reading : i > polled => i # cur
        BY <2>2
    <2> HIDE DEF TypeOK
    <2> QED BY <2>1, <2>3, <2>4
<1>4. ASSUME NEW k \in 0 .. PollSize, Poll(k) PROVE UNCHANGED wait /\ polled' \in Nat /\ polled' >= polled
    BY <1>4 DEF Poll
<1>5. ASSUME NEW i \in Reading, Upload(i) PROVE UNCHANGED <<wait, polled>>
    BY <1>5 DEF Upload, UploadSkipped, UploadAccepted, UploadRefused, UploadFailed, UploadUnanswered, Publish,
               PublishMock
<1>6. ASSUME NEW i \in Reading, BrokerDeliver(i) PROVE UNCHANGED <<wait, polled>>
    BY <1>6 DEF BrokerDeliver
<1>7. CASE \/ Boot \/ ListPending \/ BatchDone \/ AckTelemetry \/ CycleFault \/ AckFault \/ MarkFault
           \/ Crash \/ UNCHANGED vars
    <2>1. UNCHANGED <<wait, polled>>
        BY <1>7 DEF Boot, ListPending, BatchDone, AckTelemetry, CycleFault, AckFault, MarkFault, Crash, vars
    <2> QED BY <1>1, <2>1
<1> QED BY <1>1, <1>2, <1>3, <1>4, <1>5, <1>6, <1>7 DEF Next, Work

LEMMA NextOrder ==
    ASSUME TypeOK, LoopInv, SettleInv, transport = "http", OrderInv, [Next]_vars
    PROVE  OrderInv'
<1> USE ReplayAssumption
    DEF ReplayAssumption, TypeOK, rowVars, loopVars, cloudVars, histVars
<1>1. SUFFICES ASSUME failures' = 0, NEW j \in Unsent' PROVE InOrder(j)'
    <2>1. (\A i \in Reading : i > polled => wait[i] = 0)'
        BY NextWaits DEF OrderInv
    <2> QED BY <2>1 DEF OrderInv, Unsent, InOrder
<1>2. failures = 0 => \A h \in Unsent : InOrder(h)
    BY DEF OrderInv, Unsent, InOrder
<1>3. CASE Boot \/ BatchDone \/ CycleFault \/ AckFault \/ UNCHANGED vars
    <2>1. UNCHANGED <<buffer, stored, wait, cur, batch, failures>>
        BY <1>3 DEF Boot, BatchDone, CycleFault, AckFault, vars
    <2> QED BY <1>1, <1>2, <2>1 DEF Unsent, InOrder
<1>4. CASE ListPending
    <2>1. UNCHANGED <<buffer, stored, wait, cur, failures>>
        BY <1>4 DEF ListPending
    <2>2. j \in Unsent /\ InOrder(j)
        BY <1>1, <1>2, <2>1 DEF Unsent
    <2>3. j \in Reading /\ Due(j)
        BY <2>2 DEF Unsent, InOrder, Due, Reading
    <2> QED BY <1>4, <2>1, <2>2, <2>3, ListOrder DEF InOrder
<1>5. ASSUME NEW k \in 0 .. PollSize, Poll(k) PROVE InOrder(j)'
    <2>1. batch' = {} /\ cur' = 0 /\ UNCHANGED <<stored, wait, failures>>
        BY <1>5 DEF Poll, LoopInv
    <2>2. j \in Reading /\ j # 0
        BY <1>5 DEF Unsent, Poll, Reading
    <2>3. wait[j] = 0
        <3>1. CASE j \in buffer
            BY <1>1, <1>2, <2>1, <3>1 DEF Unsent, InOrder
        <3>2. CASE j \notin buffer
            BY <1>5, <2>2, <3>2 DEF Unsent, Poll, OrderInv, Reading
        <3> QED BY <3>1, <3>2
    <2> QED BY <2>1, <2>2, <2>3 DEF InOrder
<1>6. ASSUME NEW i \in Reading, Upload(i) PROVE InOrder(j)'
    <2>1. Attempt(i) /\ UNCHANGED <<buffer, wait>> /\ (\A h \in Reading : stored'[h] = 0 => stored[h] = 0)
        <3>1. ~Publish(i) /\ ~PublishMock(i)
            BY DEF Publish, PublishMock
        <3> QED BY <1>6, <3>1 DEF Upload, UploadSkipped, UploadAccepted, UploadRefused, UploadFailed,
                                  UploadUnanswered, Insert, Raised
    <2>2. failures = 0 /\ j # i
        <3>1. ASSUME NEW class, UploadFailed(i, class) \/ UploadUnanswered(i, class) PROVE FALSE
            BY <1>1, <3>1 DEF UploadFailed, UploadUnanswered
        <3>2. ~Publish(i) /\ ~PublishMock(i)
            BY DEF Publish, PublishMock
        <3>3. CASE UploadSkipped(i) \/ UploadRefused(i)
            BY <1>1, <3>3 DEF UploadSkipped, UploadRefused, Unsent
        <3>4. CASE UploadAccepted(i)
            BY <1>1, <3>4 DEF UploadAccepted, Insert, Unsent
        <3> QED BY <1>6, <3>1, <3>2, <3>3, <3>4 DEF Upload
    <2>3. j \in Unsent /\ InOrder(j)
        <3>1. j \in buffer /\ j \notin NullReading \cup Poison /\ stored'[j] = 0
            BY <1>1, <2>1 DEF Unsent
        <3>2. j \in Reading
            BY <3>1 DEF Reading
        <3>3. j \in Unsent
            BY <2>1, <3>1, <3>2 DEF Unsent
        <3> QED BY <1>2, <2>2, <3>3
    <2> QED BY <2>1, <2>2, <2>3 DEF InOrder, Attempt
<1>7. CASE AckTelemetry \/ MarkFault \/ Crash
    <2>1. /\ UNCHANGED <<stored, wait, failures>> /\ buffer' \subseteq buffer
          /\ cur' = 0 /\ batch' \subseteq batch /\ (batch' = batch \/ batch' = {})
        BY <1>7 DEF AckTelemetry, MarkFault, Crash
    <2>2. j \in Unsent /\ InOrder(j)
        BY <1>1, <1>2, <2>1 DEF Unsent
    <2>3. j # 0
        BY <2>2 DEF Unsent
    <2> QED BY <2>1, <2>2, <2>3 DEF InOrder
<1>8. CASE MarkRetry
    <2>1. /\ UNCHANGED <<stored, failures, buffer, batch>> /\ cur' = 0
          /\ \A h \in Reading : h # cur => wait'[h] = wait[h]
        BY <1>8 DEF MarkRetry
    <2>2. j \in Unsent /\ InOrder(j)
        BY <1>1, <1>2, <2>1 DEF Unsent
    <2>3. j \in Reading /\ j # 0
        BY <2>2 DEF Unsent, Reading
    <2> QED BY <2>1, <2>2, <2>3 DEF InOrder
<1>9. CASE Tick
    <2>1. UNCHANGED <<stored, failures, buffer, batch, cur>> /\ wait' = Elapse(wait)
        BY <1>9 DEF Tick
    <2>2. j \in Unsent /\ InOrder(j)
        BY <1>1, <1>2, <2>1 DEF Unsent
    <2>3. j \in Reading
        BY <2>2 DEF Unsent, Reading
    <2>4. wait'[j] = 0
        BY <2>1, <2>2, <2>3 DEF Elapse, InOrder
    <2> QED BY <2>1, <2>2, <2>4 DEF InOrder
<1>10. ASSUME NEW i \in Reading, BrokerDeliver(i) PROVE FALSE
    BY <1>10 DEF BrokerDeliver, SettleInv
<1> QED BY <1>3, <1>4, <1>5, <1>6, <1>7, <1>8, <1>9, <1>10 DEF Next, Work

\* Over HTTP, until an upload fails, no reading of a stream is stored before an
\* older one of it that can be stored: rows are listed and sent in id order
\* (sqlite.py:120-149) and a crash or a store fault starts again at the oldest.
THEOREM OrderedUntilFailureCorrect == Spec /\ transport = "http" => OrderedUntilFailure
<1>1. Init => OrderInv
    BY DEF Init, OrderInv
<1>2. TypeOK /\ LoopInv /\ SettleInv /\ transport = "http" /\ OrderInv /\ [Next]_vars => OrderInv'
    BY NextOrder
<1>3. ASSUME TypeOK, LoopInv, SettleInv, OrderInv, [Next]_vars, failures = 0,
             NEW i \in Reading, NEW j \in Reading, stored[i] = 0, Overtakes(i, j)
      PROVE  FALSE
    <2> USE ReplayAssumption DEF ReplayAssumption
    <2>1. PICK h \in Reading : Insert(h) /\ Attempt(h)
        BY <1>3, StoredBy DEF Overtakes
    <2>2. h = i
        BY <1>3, <2>1 DEF Overtakes, Insert, TypeOK
    <2>4. i \in batch /\ \A k \in batch : i <= k
        BY <2>1, <2>2 DEF Attempt, IsHead
    <2>5. i \in buffer /\ i <= polled /\ j < i /\ i \in Int /\ j \in Int /\ polled \in Int
        BY <1>3, <2>4 DEF LoopInv, TypeOK, Reading, Overtakes
    <2>6. stored[j] = 0
        BY <1>3, <2>1 DEF Insert, Overtakes, TypeOK
    <2>7. j \in buffer
        BY <1>3, <2>5, <2>6 DEF SettleInv, NoLoss, Released, Overtakes
    <2>8. j \in batch
        BY <1>3, <2>4, <2>5, <2>6, <2>7 DEF OrderInv, Overtakes
    <2> QED BY <2>4, <2>5, <2>8
<1>4. TypeOK /\ LoopInv /\ SettleInv /\ OrderInv /\ [Next]_vars =>
        [failures = 0 => \A i, j \in Reading : stored[i] = 0 => ~Overtakes(i, j)]_vars
    BY <1>3
<1> QED BY <1>1, <1>2, <1>4, SettleCorrect, PTL DEF Spec, OrderedUntilFailure

-----------------------------------------------------------------------------
(* Over HTTP the replay implements TelemetryPipe *)

LEMMA PipeInit == Init => Pipe!Init
BY ReplayAssumption DEF ReplayAssumption, Init, Pipe!Init, Stage, Reading

\* a step that moves neither the buffer nor the cloud is a stutter of the pipe
LEMMA PipeStutter ==
    ASSUME polled' = polled, buffer' = buffer, stored' = stored
    PROVE  UNCHANGED Pipe!vars
BY DEF Pipe!vars, Stage

\* a first copy is a delivery, a second one a stutter
LEMMA PipeInsert ==
    ASSUME TypeOK, NEW i \in buffer, i \in Reading, Insert(i), polled' = polled, buffer' = buffer
    PROVE  Pipe!Deliver(i) \/ UNCHANGED Pipe!vars
<1>1. [j \in Reading |-> Stage(j)]' = [j \in Reading |-> Stage(j)]
    BY DEF Stage
<1>2. Stage(i) = "buffered"
    BY ReplayAssumption DEF ReplayAssumption, Stage, TypeOK, Reading
<1>3. CASE stored[i] = 0
    <2>1. stored' = [stored EXCEPT ![i] = 1]
        BY <1>3 DEF Insert, TypeOK
    <2> QED BY <1>1, <1>2, <1>3, <2>1 DEF Pipe!Deliver
<1>4. CASE stored[i] # 0
    <2>1. stored' = stored
        BY <1>4 DEF Insert, TypeOK
    <2> QED BY <1>1, <2>1 DEF Pipe!vars
<1> QED BY <1>3, <1>4

LEMMA PipePoll == ASSUME TypeOK, NEW k \in 0 .. PollSize, Poll(k) PROVE Pipe!Buffer((polled + 1) .. (polled + k))
<1> USE ReplayAssumption DEF ReplayAssumption, TypeOK, Poll, Reading, Stage, cloudVars
<1>1. \A i \in (polled + 1) .. (polled + k) : i \in Reading /\ Stage(i) = "new"
    OBVIOUS
<1>2. \A i \in Reading :
        Stage(i)' = IF i \in (polled + 1) .. (polled + k) THEN "buffered" ELSE Stage(i)
    OBVIOUS
<1> QED BY <1>1, <1>2 DEF Pipe!Buffer

LEMMA PipeRelease ==
    ASSUME TypeOK, LoopInv, SettleInv, AckTelemetry PROVE Pipe!Release(cur)
<1> USE ReplayAssumption DEF ReplayAssumption, TypeOK, AckTelemetry, Reading, cloudVars
<1>1. cur \in buffer /\ cur \in Reading /\ Stage(cur) = "buffered"
    BY DEF LoopInv, Stage
<1>2. stored[cur] > 0 \/ cur \in NullReading
    BY <1>1 DEF SettleInv
<1>3. \A i \in Reading : Stage(i)' = IF i = cur THEN "released" ELSE Stage(i)
    BY <1>1 DEF Stage
<1> QED BY <1>1, <1>2, <1>3 DEF Pipe!Release

LEMMA PipeNext ==
    TypeOK /\ LoopInv /\ transport = "http" /\ SettleInv /\ [Next]_vars => [Pipe!Next]_(Pipe!vars)
<1> SUFFICES ASSUME TypeOK, LoopInv, transport = "http", SettleInv, [Next]_vars
             PROVE  Pipe!Next \/ UNCHANGED Pipe!vars
    OBVIOUS
<1> USE DEF rowVars, loopVars, cloudVars, histVars
<1>1. CASE \/ Boot \/ BatchDone \/ ListPending \/ MarkRetry \/ CycleFault \/ AckFault
           \/ MarkFault \/ Tick \/ Crash \/ UNCHANGED vars
    BY <1>1, PipeStutter
       DEF Boot, BatchDone, ListPending, MarkRetry, CycleFault, AckFault, MarkFault, Tick, Crash, vars
<1>2. ASSUME NEW k \in 0 .. PollSize, Poll(k) PROVE Pipe!Next
    <2>1. (polled + 1) .. (polled + k) \in SUBSET Reading
        BY <1>2, ReplayAssumption DEF ReplayAssumption, TypeOK, Poll, Reading
    <2> QED BY <1>2, <2>1, PipePoll DEF Pipe!Next
<1>3. ASSUME NEW i \in Reading, Upload(i) PROVE Pipe!Next \/ UNCHANGED Pipe!vars
    <2>1. CASE \/ UploadSkipped(i) \/ UploadRefused(i)
               \/ \E class \in Permanent \cup Temporary : UploadFailed(i, class)
        BY <2>1, PipeStutter DEF UploadSkipped, UploadRefused, UploadFailed
    <2>2. CASE \/ UploadAccepted(i)
               \/ \E class \in Temporary \cup {Unclassified} : UploadUnanswered(i, class)
        <3>1. Insert(i) /\ polled' = polled /\ buffer' = buffer /\ i \in batch
            BY <2>2 DEF UploadAccepted, UploadUnanswered, Attempt, IsHead
        <3>2. i \in buffer
            BY <3>1 DEF LoopInv
        <3> QED BY <3>1, <3>2, PipeInsert DEF Pipe!Next
    <2>3. ~Publish(i) /\ ~PublishMock(i)
        BY DEF Publish, PublishMock
    <2> QED BY <1>3, <2>1, <2>2, <2>3 DEF Upload
<1>4. CASE AckTelemetry
    <2>1. cur \in Reading
        BY <1>4, ReplayAssumption DEF ReplayAssumption, AckTelemetry, LoopInv, TypeOK, Reading
    <2> QED BY <1>4, <2>1, PipeRelease DEF Pipe!Next
<1>5. ASSUME NEW i \in Reading, BrokerDeliver(i) PROVE FALSE
    BY <1>5 DEF BrokerDeliver, SettleInv
<1> QED BY <1>1, <1>2, <1>3, <1>4, <1>5 DEF Next, Work

\* Over HTTP the buffer, the replay and the ingest together behave as the pipe:
\* a reading is held by the cloud before it is released.
THEOREM ImplementsPipeCorrect == Spec /\ transport = "http" => ImplementsPipe
BY PipeNext, SettleCorrect, PipeInit, PTL DEF Spec, ImplementsPipe, Pipe!Spec

-----------------------------------------------------------------------------
(* With any client: only a crash or a store fault escapes the backoff *)

LEMMA BufferType == ASSUME TypeOK PROVE buffer \subseteq Reading
<1>1. polled \in 0 .. Readings /\ buffer \subseteq 1 .. polled
    BY DEF TypeOK
<1> QED BY <1>1, ReplayAssumption DEF ReplayAssumption, Reading

LEMMA IndebtedFinite == ASSUME TypeOK PROVE IsFiniteSet(Indebted) /\ Cardinality(Indebted) \in Nat
<1>1. Indebted \subseteq Reading
    BY BufferType DEF Indebted
<1> QED BY <1>1, ReadingFinite, FS_CardinalityType

LEMMA Smaller ==
    ASSUME NEW T, IsFiniteSet(T), NEW S, S \subseteq T
    PROVE  Cardinality(S) \in Nat /\ Cardinality(T) \in Nat /\ Cardinality(S) <= Cardinality(T)
BY FS_Subset, FS_CardinalityType

LEMMA OneMore ==
    ASSUME NEW T, IsFiniteSet(T), NEW x, NEW S, S \subseteq T \cup {x}
    PROVE  Cardinality(S) \in Nat /\ Cardinality(S) <= Cardinality(T) + 1
<1>1. /\ IsFiniteSet(T \cup {x})
      /\ Cardinality(T \cup {x}) = IF x \in T THEN Cardinality(T) ELSE Cardinality(T) + 1
    BY FS_AddElement
<1>2. Cardinality(T) \in Nat
    BY FS_CardinalityType
<1>3. /\ Cardinality(S) \in Nat /\ Cardinality(T \cup {x}) \in Nat
      /\ Cardinality(S) <= Cardinality(T \cup {x})
    BY <1>1, Smaller
<1> QED BY <1>1, <1>2, <1>3

LEMMA OneLess ==
    ASSUME NEW T, IsFiniteSet(T), NEW x \in T, NEW S, S \subseteq T \ {x}
    PROVE  Cardinality(S) \in Nat /\ Cardinality(S) + 1 <= Cardinality(T)
<1>1. IsFiniteSet(T \ {x}) /\ Cardinality(T \ {x}) = Cardinality(T) - 1
    BY FS_RemoveElement
<1> QED BY <1>1, Smaller, FS_CardinalityType

\* an upload pays with a row that was in debt, or is no early one
LEMMA UploadDebt ==
    ASSUME TypeOK, LoopInv, DebtInv, NEW i \in Reading, Upload(i) PROVE DebtInv'
<1>1. /\ i \in batch /\ batch' = batch \ {i} /\ cur' = i /\ pc = "loop"
      /\ early' = early + (IF owed[i] > 0 THEN 1 ELSE 0)
      /\ UNCHANGED <<buffer, attempts, wait, crashes, faults>>
    BY DEF Upload, UploadSkipped, UploadAccepted, UploadRefused, UploadFailed, UploadUnanswered,
           Publish, PublishMock, Attempt, IsHead, rowVars
<1>2. i \in buffer /\ wait[i] = 0 /\ cur = 0
    BY <1>1 DEF LoopInv, DebtInv
<1>3. \/ pc' = "sent" /\ owed' = owed
      \/ /\ pc' = "failed"
         /\ owed' = [owed EXCEPT ![i] = Backoff(error', Bump(attempts[i]))]
    BY DEF Upload, UploadSkipped, UploadAccepted, UploadRefused, UploadFailed, UploadUnanswered,
           Publish, PublishMock, Raised
<1>4. i \notin Indebted'
    <2>1. CASE pc' = "sent"
        BY <2>1, <1>1 DEF Indebted
    <2>2. CASE pc' = "failed"
        <3>1. owed'[i] = Pledged(i)'
            BY <2>2, <1>1, <1>3 DEF Pledged, TypeOK
        <3>2. owed'[i] \in Nat
            <4>1. Bump(attempts[i]) \in Nat
                BY BumpType, ReplayAssumption DEF ReplayAssumption, TypeOK
            <4> QED BY <4>1, <2>2, <1>3, BackoffType, ReplayAssumption DEF ReplayAssumption, TypeOK
        <3> QED BY <3>1, <3>2 DEF Indebted
    <2> QED BY <1>3, <2>1, <2>2
<1>5. \A j \in Reading : j # i => (j \in Indebted' <=> j \in Indebted)
    BY <1>1, <1>2, <1>3 DEF Indebted, Pledged, TypeOK, Reading
<1>6. Indebted' \subseteq Indebted \ {i}
    <2>1. Indebted' \subseteq Reading
        BY <1>1, BufferType DEF Indebted
    <2> QED BY <2>1, <1>4, <1>5
<1>9. /\ \A j \in batch' : wait'[j] = 0
      /\ \A j \in Reading : j > polled' => owed'[j] = 0
    <2>1. i <= polled /\ polled' = polled
        BY <1>2 DEF TypeOK, Upload, UploadSkipped, UploadAccepted, UploadRefused, UploadFailed,
                    UploadUnanswered, Publish, PublishMock, rowVars
    <2>2. i \in Nat /\ polled \in Nat
        BY ReplayAssumption DEF ReplayAssumption, TypeOK, Reading
    <2>3. ASSUME NEW j \in Reading, j > polled' PROVE owed'[j] = 0
        <3>1. j # i
            BY <2>1, <2>2, <2>3
        <3>2. owed'[j] = owed[j]
            BY <1>3, <3>1 DEF TypeOK
        <3> QED BY <2>1, <2>3, <3>2 DEF DebtInv
    <2>4. \A j \in batch' : wait'[j] = 0
        BY <1>1 DEF DebtInv
    <2> QED BY <2>3, <2>4
<1>7. CASE owed[i] > 0
    <2>1. i \in Indebted
        BY <1>1, <1>2, <1>7 DEF Indebted, Pledged
    <2>2. Cardinality(Indebted') \in Nat /\ Cardinality(Indebted') + 1 <= Cardinality(Indebted)
        BY <1>6, <2>1, IndebtedFinite, OneLess
    <2> QED BY <1>1, <1>7, <1>9, <2>2, IndebtedFinite DEF DebtInv, TypeOK
<1>8. CASE ~(owed[i] > 0)
    <2>1. Cardinality(Indebted') \in Nat /\ Cardinality(Indebted') <= Cardinality(Indebted)
        BY <1>6, IndebtedFinite, Smaller
    <2> QED BY <1>1, <1>8, <1>9, <2>1, IndebtedFinite DEF DebtInv, TypeOK
<1> QED BY <1>7, <1>8

\* a step that makes no upload and puts no row in debt
LEMMA QuietDebt ==
    ASSUME TypeOK, DebtInv, early' = early, crashes' = crashes, faults' = faults,
           Indebted' \subseteq Indebted, \A i \in batch' : wait'[i] = 0,
           \A i \in Reading : i > polled' => owed'[i] = 0
    PROVE  DebtInv'
<1>1. Cardinality(Indebted') \in Nat /\ Cardinality(Indebted') <= Cardinality(Indebted)
    BY IndebtedFinite, Smaller
<1> QED BY <1>1, IndebtedFinite DEF DebtInv, TypeOK

\* a crash or a fault pays for the row it puts in debt
LEMMA PaidDebt ==
    ASSUME TypeOK, DebtInv, early' = early, crashes' + faults' = crashes + faults + 1,
           NEW x, Indebted' \subseteq Indebted \cup {x}, \A i \in batch' : wait'[i] = 0,
           polled' = polled, owed' = owed
    PROVE  DebtInv'
<1>1. Cardinality(Indebted') \in Nat /\ Cardinality(Indebted') <= Cardinality(Indebted) + 1
    BY IndebtedFinite, OneMore
<1>2. early \in Nat /\ crashes \in Nat /\ faults \in Nat
    BY ReplayAssumption DEF ReplayAssumption, TypeOK
<1>3. early + Cardinality(Indebted) <= crashes + faults
    BY DEF DebtInv
<1>4. early' + Cardinality(Indebted') <= crashes' + faults'
    BY <1>1, <1>2, <1>3, IndebtedFinite
<1> QED BY <1>4 DEF DebtInv

LEMMA NextDebt == TypeOK /\ LoopInv /\ DebtInv /\ [Next]_vars => DebtInv'
<1> SUFFICES ASSUME TypeOK, LoopInv, DebtInv, [Next]_vars PROVE DebtInv'
    OBVIOUS
<1> USE ReplayAssumption DEF ReplayAssumption, rowVars, loopVars, cloudVars, histVars
<1>a. \A i \in batch : wait[i] = 0
    BY DEF DebtInv
<1>b. \A i \in Reading : i > polled => owed[i] = 0
    BY DEF DebtInv
<1>c. faults \in Nat /\ crashes \in Nat /\ polled \in Nat
    BY DEF TypeOK
<1>1. CASE Boot \/ BatchDone \/ ListPending
    <2>1. Indebted' \subseteq Indebted
        BY <1>1 DEF Boot, BatchDone, ListPending, Indebted, Pledged
    <2>2. \A i \in batch' : wait'[i] = 0
        BY <1>1, <1>a DEF Boot, BatchDone, ListPending, Due
    <2>3. UNCHANGED <<polled, owed, early, crashes, faults>>
        BY <1>1 DEF Boot, BatchDone, ListPending
    <2> QED BY <1>b, <2>1, <2>2, <2>3, QuietDebt
<1>2. ASSUME NEW k \in 0 .. PollSize, Poll(k) PROVE DebtInv'
    <2>1. polled' = polled + k /\ UNCHANGED <<attempts, wait, batch, cur, error, owed, early, crashes, faults>>
        BY <1>2 DEF Poll
    <2>2. \A i \in buffer' \ buffer : owed[i] = 0
        BY <1>2, <1>b, <1>c DEF Poll, Reading
    <2>3. \A i \in buffer' : wait[i] \in Nat
        <3>1. buffer' \subseteq Reading
            BY <1>2, <1>c, BufferType DEF Poll, Reading
        <3> QED BY <3>1 DEF TypeOK
    <2>4. Indebted' \subseteq Indebted
        BY <1>2, <2>1, <2>2, <2>3 DEF Poll, Indebted, Pledged
    <2>5. \A i \in Reading : i > polled' => owed'[i] = 0
        BY <1>b, <1>c, <2>1 DEF Reading
    <2> QED BY <1>a, <2>1, <2>4, <2>5, QuietDebt
<1>3. ASSUME NEW i \in Reading, Upload(i) PROVE DebtInv'
    BY <1>3, UploadDebt
<1>4. CASE AckTelemetry
    <2>1. Indebted' \subseteq Indebted
        BY <1>4 DEF AckTelemetry, Indebted, Pledged
    <2> QED BY <1>4, <1>a, <1>b, <2>1, QuietDebt DEF AckTelemetry
<1>5. CASE MarkRetry
    <2>1. ASSUME NEW i \in Reading PROVE Pledged(i)' = Pledged(i)
        BY <1>5 DEF MarkRetry, Pledged, TypeOK
    <2>2. Indebted' \subseteq Indebted
        <3>1. buffer' = buffer /\ owed' = owed /\ pc' = "loop" /\ pc = "failed"
            BY <1>5 DEF MarkRetry
        <3> QED BY <2>1, <3>1, BufferType DEF Indebted
    <2>3. \A i \in batch' : wait'[i] = 0
        BY <1>5, <1>a DEF MarkRetry, LoopInv
    <2> QED BY <1>5, <1>b, <2>2, <2>3, QuietDebt DEF MarkRetry
<1>6. CASE CycleFault \/ AckFault \/ MarkFault
    <2>1. Indebted' \subseteq Indebted \cup {cur}
        BY <1>6 DEF CycleFault, AckFault, MarkFault, Indebted, Pledged
    <2>2. /\ early' = early /\ polled' = polled /\ owed' = owed
          /\ crashes' = crashes /\ faults' = faults + 1
        BY <1>6 DEF CycleFault, AckFault, MarkFault
    <2>3. \A i \in batch' : wait'[i] = 0
        BY <1>6, <1>a DEF CycleFault, AckFault, MarkFault
    <2>4. crashes' + faults' = crashes + faults + 1
        BY <1>c, <2>2
    <2> QED BY <2>1, <2>2, <2>3, <2>4, PaidDebt
<1>7. ASSUME NEW i \in Reading, BrokerDeliver(i) PROVE DebtInv'
    <2>1. Indebted' = Indebted
        BY <1>7 DEF BrokerDeliver, Indebted, Pledged
    <2> QED BY <1>7, <1>a, <1>b, <2>1, QuietDebt DEF BrokerDeliver
<1>8. CASE Tick
    <2>1. \A i \in Reading : /\ wait[i] \in Nat /\ owed[i] \in Nat
                            /\ wait'[i] = (IF wait[i] > 0 THEN wait[i] - 1 ELSE 0)
                            /\ owed'[i] = (IF owed[i] > 0 THEN owed[i] - 1 ELSE 0)
        BY <1>8 DEF Tick, Elapse, TypeOK
    <2>2. UNCHANGED <<polled, buffer, attempts, pc, batch, cur, error, early, crashes, faults>>
        BY <1>8 DEF Tick
    <2>3. ASSUME NEW i \in Indebted' PROVE i \in Indebted
        <3>1. i \in buffer /\ i \in Reading /\ owed'[i] > Pledged(i)' /\ ~(pc = "sent" /\ cur = i)
            BY <2>2, BufferType DEF Indebted
        <3>2. CASE pc = "failed" /\ cur = i
            <4>1. Pledged(i)' = Pledged(i)
                BY <2>2, <3>2 DEF Pledged
            <4>2. Pledged(i) \in Nat
                BY <3>2, <3>1, BumpType, BackoffType DEF Pledged, TypeOK
            <4> QED BY <2>1, <3>1, <4>1, <4>2 DEF Indebted
        <3>3. CASE ~(pc = "failed" /\ cur = i)
            <4>1. Pledged(i)' = wait'[i] /\ Pledged(i) = wait[i]
                BY <2>2, <3>3 DEF Pledged
            <4> QED BY <2>1, <3>1, <4>1 DEF Indebted
        <3> QED BY <3>2, <3>3
    <2>4. \A i \in batch' : wait'[i] = 0
        BY <1>a, <2>1, <2>2, BufferType DEF LoopInv
    <2>5. \A i \in Reading : i > polled' => owed'[i] = 0
        BY <1>b, <2>1, <2>2
    <2> QED BY <2>2, <2>3, <2>4, <2>5, QuietDebt
<1>9. CASE Crash
    <2>1. Indebted' \subseteq Indebted \cup {cur}
        BY <1>9 DEF Crash, Indebted, Pledged
    <2>2. /\ early' = early /\ polled' = polled /\ owed' = owed
          /\ crashes' = crashes + 1 /\ faults' = faults /\ batch' = {}
        BY <1>9 DEF Crash
    <2>3. crashes' + faults' = crashes + faults + 1
        BY <1>c, <2>2
    <2> QED BY <2>1, <2>2, <2>3, PaidDebt
<1>10. CASE UNCHANGED vars
    <2>1. Indebted' = Indebted
        BY <1>10 DEF vars, Indebted, Pledged
    <2> QED BY <1>10, <1>a, <1>b, <2>1, QuietDebt DEF vars
<1> QED BY <1>1, <1>2, <1>3, <1>4, <1>5, <1>6, <1>7, <1>8, <1>9, <1>10 DEF Next, Work

\* An upload escapes its backoff only through a crash or a store fault, one
\* upload for each, whatever the transport and however long the outage.
THEOREM EarlyRetriesCorrect == Spec => []EarlyRetriesBounded
<1>1. Init => DebtInv
    <2>1. ASSUME Init PROVE Indebted = {} /\ early = 0 /\ crashes = 0 /\ faults = 0
        BY <2>1 DEF Init, Indebted
    <2>2. ASSUME Init PROVE batch = {} /\ \A i \in Reading : owed[i] = 0
        BY <2>2 DEF Init
    <2> QED BY <2>1, <2>2, FS_EmptySet DEF DebtInv
<1>2. TypeOK /\ DebtInv => EarlyRetriesBounded
    BY IndebtedFinite, ReplayAssumption
    DEF ReplayAssumption, DebtInv, EarlyRetriesBounded, TypeOK
<1> QED BY <1>1, <1>2, LoopCorrect, NextDebt, PTL DEF Spec
=============================================================================
