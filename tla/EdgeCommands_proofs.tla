------------------------ MODULE EdgeCommands_proofs ------------------------
(***************************************************************************)
(* Proofs about EdgeCommands, for every set of commands and callers and    *)
(* every bound on crashes and faults: types, one application at a time,    *)
(* one write of a command and of a key, what repeated deliveries can cost, *)
(* the journal ahead of the device, final verdicts, what an                *)
(* acknowledgement says of the device, one unresolved command with one     *)
(* caller, the standoff of two, and the abstract journal.                  *)
(***************************************************************************)
EXTENDS EdgeCommands, FiniteSetTheorems, TLAPS

TypeInv == TypeOK /\ Holding

-----------------------------------------------------------------------------
(* Type correctness *)

\* An empty batch is a batch.
LEMMA NoBatchType == NoBatch \in [Command -> Unresolved \cup {"absent"}]
BY DEF NoBatch

\* After an exception or a crash the supervisor holds no command.
LEMMA ForgetType ==
    ASSUME ForgetCommand
    PROVE  /\ batch' \in [Command -> Unresolved \cup {"absent"}]
           /\ cmd' = NoCommand /\ seen' = "absent" /\ ok' = FALSE
BY NoBatchType DEF ForgetCommand

LEMMA InitTypeInv == Init => TypeInv
<1> SUFFICES ASSUME Init PROVE TypeInv
    OBVIOUS
<1> USE CommandAssumption DEF CommandAssumption, Init, Status, ProcState, SubState
<1>1. status \in [Command -> Status] /\ writes \in [Command -> Nat]
    OBVIOUS
<1>2. batch \in [Command -> Unresolved \cup {"absent"}]
    BY NoBatchType
<1>3. spc \in [Submitter -> SubState]
    OBVIOUS
<1>4. scmd \in [Submitter -> Command \cup {NoCommand}]
    OBVIOUS
<1>5. /\ device \in Effect /\ pc \in ProcState /\ ok \in BOOLEAN
      /\ cmd \in Command \cup {NoCommand} /\ seen \in Unresolved \cup {"absent"}
    OBVIOUS
<1>6. crashes \in 0 .. MaxCrashes /\ faults \in 0 .. MaxFaults
    OBVIOUS
<1>7. Holding
    BY DEF Holding
<1> QED BY <1>1, <1>2, <1>3, <1>4, <1>5, <1>6, <1>7 DEF TypeInv, TypeOK

LEMMA NextTypeInv == TypeInv /\ [Next]_vars => TypeInv'
<1> USE CommandAssumption
    DEF CommandAssumption, TypeInv, TypeOK, Holding, Status, Unresolved, Terminal, ProcState, SubState,
        queueVars, deviceVars, procVars, subVars, boundVars
<1> SUFFICES ASSUME TypeInv, [Next]_vars PROVE TypeInv'
    OBVIOUS
<1>1. ASSUME NEW s \in Submitter, Submit(s) PROVE TypeInv'
    <2>1. ASSUME NEW c \in Command, SubmitDedup(s, c) PROVE TypeInv'
        BY <2>1 DEF SubmitDedup, SubGoto
    <2>2. ASSUME SubmitGate(s) PROVE TypeInv'
        BY <2>2 DEF SubmitGate, SubGoto
    <2>3. ASSUME UpsertRecheck(s) PROVE TypeInv'
        BY <2>3 DEF UpsertRecheck, SubGoto
    <2>4. ASSUME UpsertInsert(s) PROVE TypeInv'
        BY <2>4 DEF UpsertInsert, SubGoto
    <2> QED BY <1>1, <2>1, <2>2, <2>3, <2>4 DEF Submit
<1>2. ASSUME Recovery PROVE TypeInv'
    <2>1. ASSUME Boot \/ ListUnresolved PROVE TypeInv'
        BY <2>1 DEF Boot, ListUnresolved, Listing, Backlog
    <2>2. ASSUME NEW c \in Command, RecoverCommand(c) PROVE TypeInv'
        BY <2>2 DEF RecoverCommand
    <2>3. ASSUME LogRecovery PROVE TypeInv'
        BY <2>3 DEF LogRecovery
    <2>4. ASSUME RecoveryDone PROVE TypeInv'
        BY <2>4 DEF RecoveryDone
    <2> QED BY <1>2, <2>1, <2>2, <2>3, <2>4 DEF Recovery
<1>3. ASSUME ProcessBacklog PROVE TypeInv'
    <2>1. ASSUME ListBacklog PROVE TypeInv'
        BY <2>1 DEF ListBacklog, Backlog
    <2>2. ASSUME NEW c \in Command, GateCommand(c) PROVE TypeInv'
        BY <2>2 DEF GateCommand
    <2>3. ASSUME MarkApplying PROVE TypeInv'
        BY <2>3 DEF MarkApplying
    <2>4. ASSUME ExecuteRefused PROVE TypeInv'
        BY <2>4 DEF ExecuteRefused
    <2>5. ASSUME ExecuteWrite PROVE TypeInv'
        BY <2>5 DEF ExecuteWrite, DeviceWrite
    <2>6. ASSUME ExecuteRaises PROVE TypeInv'
        BY <2>6 DEF ExecuteRaises, DeviceWrite
    <2>7. ASSUME ReconcileOnly PROVE TypeInv'
        BY <2>7 DEF ReconcileOnly
    <2>8. ASSUME Readback PROVE TypeInv'
        BY <2>8 DEF Readback
    <2>9. ASSUME SaveVerdict PROVE TypeInv'
        BY <2>9 DEF SaveVerdict
    <2>10. ASSUME LogVerdict PROVE TypeInv'
        BY <2>10 DEF LogVerdict, NextInBatch
    <2>11. ASSUME FailOnException PROVE TypeInv'
        BY <2>11 DEF FailOnException, NextInBatch
    <2>12. ASSUME FinishBatch PROVE TypeInv'
        BY <2>12 DEF FinishBatch
    <2> QED BY <1>3, <2>1, <2>2, <2>3, <2>4, <2>5, <2>6, <2>7, <2>8, <2>9, <2>10, <2>11, <2>12
            DEF ProcessBacklog
<1>4. ASSUME Fault PROVE TypeInv'
    <2>1. ASSUME FaultInTry PROVE TypeInv'
        BY <2>1 DEF FaultInTry, StoreFault
    <2>2. ASSUME FaultOutsideTry PROVE TypeInv'
        BY <2>2, ForgetType DEF FaultOutsideTry, StoreFault
    <2>3. ASSUME NEW c \in Command, FaultInRecovery(c) PROVE TypeInv'
        BY <2>3 DEF FaultInRecovery, StoreFault
    <2> QED BY <1>4, <2>1, <2>2, <2>3 DEF Fault
<1>5. ASSUME Crash PROVE TypeInv'
    <2>1. spc' \in [Submitter -> SubState] /\ scmd' \in [Submitter -> Command \cup {NoCommand}]
        BY <1>5 DEF Crash
    <2>2. /\ pc' = "down" /\ crashes' \in 0 .. MaxCrashes
          /\ UNCHANGED <<status, device, writes, faults>>
        BY <1>5 DEF Crash
    <2>3. ForgetCommand
        BY <1>5 DEF Crash
    <2> QED BY <2>1, <2>2, <2>3, ForgetType
<1>6. ASSUME DeviceDrift PROVE TypeInv'
    BY <1>6 DEF DeviceDrift
<1>7. ASSUME UNCHANGED vars PROVE TypeInv'
    BY <1>7 DEF vars
<1> QED BY <1>1, <1>2, <1>3, <1>4, <1>5, <1>6, <1>7 DEF Next, Supervisor

LEMMA TypeInvCorrect == Spec => []TypeInv
BY InitTypeInv, NextTypeInv, PTL DEF Spec

\* Every reachable state of the queue, the callers and the supervisor thread is
\* well typed.
THEOREM TypeCorrect == Spec => []TypeOK
BY TypeInvCorrect, PTL DEF TypeInv

-----------------------------------------------------------------------------
(* One command at a time reaches the device *)

LEMMA NextGateInv == TypeInv /\ GateInv /\ [Next]_vars => GateInv'
<1> USE CommandAssumption
    DEF CommandAssumption, TypeInv, TypeOK, Holding, GateInv, ApplyExclusion,
        Unresolved, Terminal, queueVars, deviceVars, procVars, subVars, boundVars
<1> SUFFICES ASSUME TypeInv, GateInv, [Next]_vars PROVE GateInv'
    OBVIOUS
<1>1. ASSUME NEW s \in Submitter, Submit(s) PROVE GateInv'
    <2>1. ASSUME UpsertInsert(s) PROVE GateInv'
        BY <2>1 DEF UpsertInsert
    <2> QED BY <1>1, <2>1 DEF Submit, SubmitDedup, SubmitGate, UpsertRecheck
<1>2. ASSUME Recovery PROVE GateInv'
    BY <1>2 DEF Recovery, Boot, ListUnresolved, RecoverCommand, LogRecovery, RecoveryDone
<1>3. ASSUME ProcessBacklog PROVE GateInv'
    <2>1. ASSUME NEW c \in Command, GateCommand(c) PROVE GateInv'
        BY <2>1 DEF GateCommand, Blocked, Backlog
    <2>2. ASSUME MarkApplying PROVE GateInv'
        BY <2>2 DEF MarkApplying
    <2>3. ASSUME SaveVerdict PROVE GateInv'
        BY <2>3 DEF SaveVerdict
    <2>4. ASSUME FailOnException PROVE GateInv'
        BY <2>4 DEF FailOnException, NextInBatch
    <2>5. ASSUME ListBacklog \/ LogVerdict \/ FinishBatch PROVE GateInv'
        BY <2>5 DEF ListBacklog, LogVerdict, FinishBatch, NextInBatch
    <2>6. ASSUME ExecuteRefused \/ ExecuteWrite \/ ExecuteRaises \/ ReconcileOnly \/ Readback
          PROVE GateInv'
        BY <2>6 DEF ExecuteRefused, ExecuteWrite, ExecuteRaises, ReconcileOnly, Readback
    <2> QED BY <1>3, <2>1, <2>2, <2>3, <2>4, <2>5, <2>6 DEF ProcessBacklog
<1>4. ASSUME Fault PROVE GateInv'
    <2>1. ASSUME FaultInTry PROVE GateInv'
        BY <2>1 DEF FaultInTry
    <2>2. ASSUME FaultOutsideTry PROVE GateInv'
        BY <2>2 DEF FaultOutsideTry
    <2>3. ASSUME NEW c \in Command, FaultInRecovery(c) PROVE GateInv'
        BY <2>3 DEF FaultInRecovery
    <2> QED BY <1>4, <2>1, <2>2, <2>3 DEF Fault
<1>5. ASSUME Crash \/ DeviceDrift \/ UNCHANGED vars PROVE GateInv'
    BY <1>5 DEF Crash, DeviceDrift, vars
<1> QED BY <1>1, <1>2, <1>3, <1>4, <1>5 DEF Next, Supervisor

\* No two commands are ever being applied at once, for any callers, any sharing
\* of ids between them and any crashes and store faults: the second gate, in
\* process_command_backlog, is enough without the first, in submit_command.
THEOREM ApplyExclusionCorrect == Spec => []ApplyExclusion
<1>1. Init => GateInv
    BY DEF Init, GateInv, ApplyExclusion
<1>2. GateInv => ApplyExclusion
    BY DEF GateInv
<1> QED BY <1>1, <1>2, NextGateInv, TypeInvCorrect, PTL DEF Spec

-----------------------------------------------------------------------------
(* At most one register write per command, when no id has two callers *)

LEMMA InitJournalInv == Init => JournalInv
<1> SUFFICES ASSUME Init PROVE JournalInv
    OBVIOUS
<1>1. CallerInv
    BY DEF Init, CallerInv
<1>2. BatchInv
    BY DEF Init, BatchInv, NoBatch
<1>3. ProcessorInv
    BY DEF Init, ProcessorInv
<1>4. WriteInv
    BY DEF Init, WriteInv
<1> QED BY <1>1, <1>2, <1>3, <1>4 DEF JournalInv

LEMMA NextJournalInv ==
    ASSUME DistinctCallers, TypeInv, JournalInv, [Next]_vars
    PROVE  JournalInv'
<1> USE CommandAssumption
    DEF CommandAssumption, TypeInv, TypeOK, Holding, JournalInv, CallerInv, BatchInv,
        ProcessorInv, WriteInv, queueVars, deviceVars, procVars, subVars, boundVars
<1>1. ASSUME NEW s \in Submitter, Submit(s) PROVE JournalInv'
    <2>1. ASSUME NEW c \in Command, SubmitDedup(s, c) PROVE JournalInv'
        BY <2>1 DEF SubmitDedup, SubGoto
    <2>2. ASSUME SubmitGate(s) PROVE JournalInv'
        BY <2>2 DEF SubmitGate, SubGoto
    <2>3. ASSUME UpsertRecheck(s) PROVE JournalInv'
        BY <2>3 DEF UpsertRecheck, SubGoto, Known
    <2>4. ASSUME UpsertInsert(s) PROVE JournalInv'
        <3> DEFINE c == scmd[s]
        <3>1. c \in Command /\ c \in Submits[s] /\ status[c] = "absent"
            BY <2>4 DEF UpsertInsert
        <3>2. \A d \in Command \ {c} : status'[d] = status[d]
            BY <2>4, <3>1 DEF UpsertInsert
        <3>3. CallerInv'
            <4> SUFFICES ASSUME NEW t \in Submitter, spc'[t] # "idle"
                         PROVE  /\ scmd'[t] \in Submits[t]
                                /\ spc'[t] = "rechecked" => status'[scmd'[t]] = "absent"
                OBVIOUS
            <4>1. t # s /\ spc'[t] = spc[t] /\ scmd'[t] = scmd[t]
                BY <2>4 DEF UpsertInsert, SubGoto
            <4>2. scmd[t] \in Command \ {c}
                BY <4>1, <3>1 DEF DistinctCallers
            <4> QED BY <4>1, <4>2, <3>2
        <3>4. UNCHANGED <<pc, cmd, seen, batch, writes>>
            BY <2>4 DEF UpsertInsert
        <3>5. BatchInv' /\ ProcessorInv' /\ WriteInv'
            BY <3>1, <3>2, <3>4, <2>4 DEF UpsertInsert
        <3> QED BY <3>3, <3>5
    <2> QED BY <1>1, <2>1, <2>2, <2>3, <2>4 DEF Submit
<1>2. ASSUME Recovery PROVE JournalInv'
    <2>1. ASSUME Boot \/ ListUnresolved PROVE JournalInv'
        BY <2>1 DEF Boot, ListUnresolved, Listing, Backlog
    <2>2. ASSUME NEW c \in Command, RecoverCommand(c) PROVE JournalInv'
        BY <2>2 DEF RecoverCommand
    <2>3. ASSUME LogRecovery PROVE JournalInv'
        BY <2>3 DEF LogRecovery
    <2>4. ASSUME RecoveryDone PROVE JournalInv'
        BY <2>4 DEF RecoveryDone
    <2> QED BY <1>2, <2>1, <2>2, <2>3, <2>4 DEF Recovery
<1>3. ASSUME ProcessBacklog PROVE JournalInv'
    <2>1. ASSUME ListBacklog PROVE JournalInv'
        BY <2>1 DEF ListBacklog, Backlog
    <2>2. ASSUME NEW c \in Command, GateCommand(c) PROVE JournalInv'
        BY <2>2 DEF GateCommand
    <2>3. ASSUME MarkApplying PROVE JournalInv'
        BY <2>3 DEF MarkApplying
    <2>4. ASSUME ExecuteRefused PROVE JournalInv'
        BY <2>4 DEF ExecuteRefused
    <2>5. ASSUME ExecuteWrite PROVE JournalInv'
        BY <2>5 DEF ExecuteWrite, DeviceWrite
    <2>6. ASSUME ExecuteRaises PROVE JournalInv'
        BY <2>6 DEF ExecuteRaises, DeviceWrite
    <2>7. ASSUME ReconcileOnly PROVE JournalInv'
        BY <2>7 DEF ReconcileOnly
    <2>8. ASSUME Readback PROVE JournalInv'
        BY <2>8 DEF Readback
    <2>9. ASSUME SaveVerdict PROVE JournalInv'
        BY <2>9 DEF SaveVerdict
    <2>10. ASSUME LogVerdict PROVE JournalInv'
        BY <2>10 DEF LogVerdict, NextInBatch
    <2>11. ASSUME FailOnException PROVE JournalInv'
        BY <2>11 DEF FailOnException, NextInBatch
    <2>12. ASSUME FinishBatch PROVE JournalInv'
        BY <2>12 DEF FinishBatch
    <2> QED BY <1>3, <2>1, <2>2, <2>3, <2>4, <2>5, <2>6, <2>7, <2>8, <2>9, <2>10, <2>11, <2>12
            DEF ProcessBacklog
<1>4. ASSUME Fault PROVE JournalInv'
    <2>1. ASSUME FaultInTry PROVE JournalInv'
        BY <2>1 DEF FaultInTry
    <2>2. ASSUME FaultOutsideTry PROVE JournalInv'
        BY <2>2 DEF FaultOutsideTry, ForgetCommand, NoBatch
    <2>3. ASSUME NEW c \in Command, FaultInRecovery(c) PROVE JournalInv'
        BY <2>3 DEF FaultInRecovery
    <2> QED BY <1>4, <2>1, <2>2, <2>3 DEF Fault
<1>5. ASSUME Crash PROVE JournalInv'
    BY <1>5 DEF Crash, ForgetCommand, NoBatch
<1>6. ASSUME DeviceDrift \/ UNCHANGED vars PROVE JournalInv'
    BY <1>6 DEF DeviceDrift, vars
<1> QED BY <1>1, <1>2, <1>3, <1>4, <1>5, <1>6 DEF Next, Supervisor

-----------------------------------------------------------------------------
(* Deliveries: rows, keys and the writes that a row entitles to.  Nothing is   *)
(* assumed of the callers here.                                                *)

LEMMA InitRowInv == Init => RowInv
BY DEF Init, RowInv, NoBatch

LEMMA NextRowInv == TypeInv /\ RowInv /\ [Next]_vars => RowInv'
<1> USE CommandAssumption
    DEF CommandAssumption, TypeInv, TypeOK, Holding, RowInv,
        queueVars, deviceVars, procVars, subVars, boundVars
<1> SUFFICES ASSUME TypeInv, RowInv, [Next]_vars PROVE RowInv'
    OBVIOUS
<1>1. ASSUME NEW s \in Submitter, Submit(s) PROVE RowInv'
    <2>1. ASSUME NEW c \in Command, SubmitDedup(s, c) PROVE RowInv'
        BY <2>1 DEF SubmitDedup, SubGoto
    <2>2. ASSUME SubmitGate(s) PROVE RowInv'
        BY <2>2 DEF SubmitGate, SubGoto
    <2>3. ASSUME UpsertRecheck(s) PROVE RowInv'
        BY <2>3 DEF UpsertRecheck, SubGoto
    <2>4. ASSUME UpsertInsert(s) PROVE RowInv'
        BY <2>4 DEF UpsertInsert, SubGoto
    <2> QED BY <1>1, <2>1, <2>2, <2>3, <2>4 DEF Submit
<1>2. ASSUME Recovery PROVE RowInv'
    <2>1. ASSUME Boot \/ ListUnresolved PROVE RowInv'
        BY <2>1 DEF Boot, ListUnresolved, Listing, Backlog, Unresolved
    <2>2. ASSUME NEW c \in Command, RecoverCommand(c) PROVE RowInv'
        BY <2>2 DEF RecoverCommand
    <2>3. ASSUME LogRecovery \/ RecoveryDone PROVE RowInv'
        BY <2>3 DEF LogRecovery, RecoveryDone
    <2> QED BY <1>2, <2>1, <2>2, <2>3 DEF Recovery
<1>3. ASSUME ProcessBacklog PROVE RowInv'
    <2>1. ASSUME ListBacklog PROVE RowInv'
        BY <2>1 DEF ListBacklog, Backlog, Unresolved
    <2>2. ASSUME NEW c \in Command, GateCommand(c) PROVE RowInv'
        BY <2>2 DEF GateCommand
    <2>3. ASSUME MarkApplying PROVE RowInv'
        BY <2>3 DEF MarkApplying
    <2>4. ASSUME ExecuteRefused \/ ExecuteWrite \/ ExecuteRaises \/ ReconcileOnly \/ Readback
          PROVE RowInv'
        BY <2>4 DEF ExecuteRefused, ExecuteWrite, ExecuteRaises, ReconcileOnly, Readback
    <2>5. ASSUME SaveVerdict PROVE RowInv'
        BY <2>5 DEF SaveVerdict
    <2>6. ASSUME LogVerdict \/ FinishBatch PROVE RowInv'
        BY <2>6 DEF LogVerdict, FinishBatch, NextInBatch
    <2>7. ASSUME FailOnException PROVE RowInv'
        BY <2>7 DEF FailOnException, NextInBatch
    <2> QED BY <1>3, <2>1, <2>2, <2>3, <2>4, <2>5, <2>6, <2>7 DEF ProcessBacklog
<1>4. ASSUME Fault PROVE RowInv'
    <2>1. ASSUME FaultInTry PROVE RowInv'
        BY <2>1 DEF FaultInTry
    <2>2. ASSUME FaultOutsideTry PROVE RowInv'
        BY <2>2 DEF FaultOutsideTry, ForgetCommand, NoBatch
    <2>3. ASSUME NEW c \in Command, FaultInRecovery(c) PROVE RowInv'
        BY <2>3 DEF FaultInRecovery
    <2> QED BY <1>4, <2>1, <2>2, <2>3 DEF Fault
<1>5. ASSUME Crash PROVE RowInv'
    BY <1>5 DEF Crash, ForgetCommand, NoBatch
<1>6. ASSUME DeviceDrift \/ UNCHANGED vars PROVE RowInv'
    BY <1>6 DEF DeviceDrift, vars
<1> QED BY <1>1, <1>2, <1>3, <1>4, <1>5, <1>6 DEF Next, Supervisor

\* Every step but an insert keeps the set of rows, and adds no "queued" row.
LEMMA RowsOfNext ==
    ASSUME TypeInv, RowInv, [Next]_vars, NEW c \in Command, status'[c] # status[c],
           ~\E s \in Submitter : UpsertInsert(s)
    PROVE  status[c] # "absent" /\ status'[c] \notin {"absent", "queued"}
<1> USE DEF queueVars, deviceVars, procVars, subVars, boundVars, RowInv, TypeInv, TypeOK
<1>1. ASSUME NEW d \in Command, RecoverCommand(d) \/ FaultInRecovery(d)
      PROVE  status[c] # "absent" /\ status'[c] \notin {"absent", "queued"}
    BY <1>1 DEF RecoverCommand, FaultInRecovery, Holding
<1>2. ASSUME MarkApplying \/ SaveVerdict \/ FailOnException \/ FaultOutsideTry
      PROVE  status[c] # "absent" /\ status'[c] \notin {"absent", "queued"}
    BY <1>2 DEF MarkApplying, SaveVerdict, FailOnException, FaultOutsideTry, Holding
<1>3. \/ \E d \in Command : RecoverCommand(d) \/ FaultInRecovery(d)
      \/ MarkApplying \/ SaveVerdict \/ FailOnException \/ FaultOutsideTry
    BY DEF Next, Submit, SubmitDedup, SubmitGate, UpsertRecheck,
           Supervisor, Recovery, Boot, ListUnresolved, LogRecovery, RecoveryDone,
           ProcessBacklog, ListBacklog, GateCommand, ExecuteRefused, ExecuteWrite, ExecuteRaises,
           ReconcileOnly, Readback, LogVerdict, FinishBatch, Fault, FaultInTry,
           Crash, DeviceDrift, vars
<1> QED BY <1>1, <1>2, <1>3

LEMMA NextKeyInv == TypeInv /\ RowInv /\ KeyInv /\ [Next]_vars => KeyInv'
<1> SUFFICES ASSUME TypeInv, RowInv, KeyInv, [Next]_vars PROVE KeyInv'
    OBVIOUS
<1>1. ASSUME NEW s \in Submitter, UpsertInsert(s) PROVE KeyInv'
    BY <1>1 DEF UpsertInsert, KeyTaken, KeyInv, TypeInv, TypeOK
<1>2. ASSUME ~\E s \in Submitter : UpsertInsert(s) PROVE KeyInv'
    <2>1. \A c \in Command : status'[c] # "absent" => status[c] # "absent"
        BY <1>2, RowsOfNext
    <2> QED BY <2>1 DEF KeyInv
<1> QED BY <1>1, <1>2

\* With no id sent by two callers at once, every command and every idempotency
\* key make at most one register write, across any number of crashes, restarts
\* and store faults.
THEOREM AtMostOneWriteCorrect ==
    ASSUME DistinctCallers
    PROVE  Spec => []AtMostOneWrite
<1>1. TypeInv /\ JournalInv /\ [Next]_vars => JournalInv'
    BY NextJournalInv
<1>2. JournalInv /\ KeyInv => AtMostOneWrite
    BY DEF JournalInv, WriteInv, KeyInv, AtMostOneWrite
<1>3. Init => KeyInv
    BY DEF Init, KeyInv
<1> QED BY <1>1, <1>2, <1>3, InitJournalInv, InitRowInv, NextRowInv, NextKeyInv, TypeInvCorrect, PTL DEF Spec

\* Only the two executing steps of the supervisor touch the write history, and
\* both write the command in hand, listed as "queued".
LEMMA WritesOfNext ==
    ASSUME [Next]_vars, UNCHANGED writes => FALSE
    PROVE  /\ pc = "marked" /\ seen = "queued"
           /\ writes' = [writes EXCEPT ![cmd] = @ + 1]
           /\ UNCHANGED status
<1> USE DEF queueVars, deviceVars, procVars, subVars, boundVars
<1>1. \/ ExecuteWrite
      \/ ExecuteRaises
    BY DEF Next, Supervisor, Submit, SubmitDedup, SubmitGate, UpsertRecheck, UpsertInsert,
           Recovery, Boot, ListUnresolved, RecoverCommand, LogRecovery, RecoveryDone,
           ProcessBacklog, ListBacklog, GateCommand, MarkApplying, ExecuteRefused,
           ReconcileOnly, Readback, SaveVerdict, LogVerdict, FailOnException, FinishBatch,
           Fault, FaultInTry, FaultOutsideTry, FaultInRecovery, Crash, DeviceDrift, vars
<1> QED BY <1>1 DEF ExecuteWrite, ExecuteRaises, DeviceWrite

-----------------------------------------------------------------------------
(* What repeated deliveries can cost *)

\* What a row entitles to, and who may insert it, are numbers.
LEMMA BudgetType ==
    ASSUME IsFiniteSet(Submitter), TypeInv, RowInv, NEW c \in Command
    PROVE  /\ Granted(c) \in Nat
           /\ IsFiniteSet(Inserting(c)) /\ IsFiniteSet(Senders(c))
           /\ Cardinality(Inserting(c)) \in Nat /\ Cardinality(Senders(c)) \in Nat
           /\ Cardinality(Inserting(c)) <= Cardinality(Senders(c))
<1>1. Inserting(c) \subseteq Senders(c) /\ Senders(c) \subseteq Submitter
    BY DEF Inserting, Senders, RowInv
<1>2. IsFiniteSet(Senders(c))
    BY <1>1, FS_Subset
<1>3. IsFiniteSet(Inserting(c)) /\ Cardinality(Inserting(c)) <= Cardinality(Senders(c))
    BY <1>1, <1>2, FS_Subset
<1>4. Granted(c) \in Nat
    BY DEF Granted, TypeInv, TypeOK
<1> QED BY <1>2, <1>3, <1>4, FS_CardinalityType

\* A step that grants nothing and lets no further caller insert keeps the budget.
LEMMA KeepBudget ==
    ASSUME IsFiniteSet(Submitter), TypeInv, RowInv, TypeInv', RowInv', NEW c \in Command,
           Granted(c) + Cardinality(Inserting(c)) <= Cardinality(Senders(c)),
           Granted(c)' <= Granted(c), Inserting(c)' \subseteq Inserting(c)
    PROVE  Granted(c)' + Cardinality(Inserting(c)') <= Cardinality(Senders(c))
<1>1. Cardinality(Inserting(c)') <= Cardinality(Inserting(c))
    BY BudgetType, FS_Subset
<1>2. Granted(c)' \in Nat /\ Cardinality(Inserting(c)') \in Nat
    <2>1. Granted(c)' \in Nat
        BY DEF Granted, TypeInv, TypeOK
    <2>2. IsFiniteSet(Inserting(c)')
        BY BudgetType, FS_Subset
    <2> QED BY <2>1, <2>2, FS_CardinalityType
<1> QED BY <1>1, <1>2, BudgetType

\* Outside the callers a grant is spent or lost: marking a "queued" row turns
\* the grant of the row into that of the supervisor, and the write spends it.
LEMMA GrantsOfSupervisor ==
    ASSUME TypeInv, RowInv, [Next]_vars, ~\E s \in Submitter : Submit(s), NEW c \in Command
    PROVE  Granted(c)' <= Granted(c)
<1> USE DEF queueVars, deviceVars, procVars, subVars, boundVars
<1>1. status'[c] = "queued" => status[c] = "queued"
    BY RowsOfNext DEF Submit
<1>2. CASE ~UNCHANGED writes
    <2>1. /\ pc = "marked" /\ seen = "queued"
          /\ writes' = [writes EXCEPT ![cmd] = @ + 1]
        BY <1>2, WritesOfNext
    <2>2. pc' # "marked"
        BY <1>2, <2>1
           DEF Next, Supervisor, Recovery, Boot, ListUnresolved, RecoverCommand, LogRecovery, RecoveryDone,
               ProcessBacklog, ListBacklog, GateCommand, MarkApplying, ExecuteRefused, ExecuteWrite,
               ExecuteRaises, ReconcileOnly, Readback, SaveVerdict, LogVerdict, FailOnException,
               FinishBatch, NextInBatch, Fault, FaultInTry, FaultOutsideTry, FaultInRecovery, Crash,
               DeviceDrift, vars
    <2> QED BY <1>1, <2>1, <2>2 DEF Granted, TypeInv, TypeOK
<1>3. CASE UNCHANGED writes
    <2>1. ASSUME MarkApplying PROVE Granted(c)' <= Granted(c)
        <3>1. /\ pc = "gated" /\ pc' = "marked" /\ cmd' = cmd /\ seen' = seen
              /\ status' = [status EXCEPT ![cmd] = "applying"]
            BY <2>1 DEF MarkApplying
        <3>2. cmd = c /\ seen = "queued" => status[c] = "queued" /\ status'[c] # "queued"
            BY <3>1 DEF RowInv, TypeInv, TypeOK
        <3> QED BY <1>1, <1>3, <3>1, <3>2 DEF Granted, TypeInv, TypeOK
    <2>2. ASSUME ~MarkApplying PROVE Granted(c)' <= Granted(c)
        <3>1. pc' = "marked" => UNCHANGED <<pc, cmd, seen>>
            BY <2>2
               DEF Next, Supervisor, Recovery, Boot, ListUnresolved, RecoverCommand, LogRecovery, RecoveryDone,
                   ProcessBacklog, ListBacklog, GateCommand, ExecuteRefused, ExecuteWrite,
                   ExecuteRaises, ReconcileOnly, Readback, SaveVerdict, LogVerdict, FailOnException,
                   FinishBatch, NextInBatch, Fault, FaultInTry, FaultOutsideTry, FaultInRecovery,
                   Crash, DeviceDrift, vars
        <3> QED BY <1>1, <1>3, <3>1 DEF Granted, TypeInv, TypeOK
    <2> QED BY <2>1, <2>2
<1> QED BY <1>2, <1>3

LEMMA InitBudget == IsFiniteSet(Submitter) /\ Init => BudgetInv
<1> SUFFICES ASSUME IsFiniteSet(Submitter), Init, NEW c \in Command
             PROVE  /\ status[c] = "absent" => writes[c] = 0
                    /\ Granted(c) + Cardinality(Inserting(c)) <= Cardinality(Senders(c))
    BY DEF BudgetInv
<1>1. Granted(c) = 0
    BY DEF Init, Granted
<1>2. TypeInv /\ RowInv
    BY InitTypeInv, InitRowInv
<1> QED BY <1>1, <1>2, BudgetType DEF Init

LEMMA NextBudget ==
    ASSUME IsFiniteSet(Submitter), TypeInv, RowInv, BudgetInv, [Next]_vars
    PROVE  BudgetInv'
<1>1. TypeInv' /\ RowInv'
    BY NextTypeInv, NextRowInv
<1> SUFFICES ASSUME NEW c \in Command
             PROVE  /\ status'[c] = "absent" => writes'[c] = 0
                    /\ Granted(c)' + Cardinality(Inserting(c)') <= Cardinality(Senders(c))
    BY DEF BudgetInv, Senders
<1>2. /\ status[c] = "absent" => writes[c] = 0
      /\ Granted(c) + Cardinality(Inserting(c)) <= Cardinality(Senders(c))
    BY DEF BudgetInv
<1> USE DEF queueVars, deviceVars, procVars, subVars, boundVars
<1>3. ASSUME NEW s \in Submitter, UpsertInsert(s) PROVE
          /\ status'[c] = "absent" => writes'[c] = 0
          /\ Granted(c)' + Cardinality(Inserting(c)') <= Cardinality(Senders(c))
    <2>1. /\ spc[s] = "rechecked" /\ UNCHANGED <<writes, pc, cmd, seen>>
          /\ spc' = [spc EXCEPT ![s] = "idle"] /\ scmd' = [scmd EXCEPT ![s] = NoCommand]
          /\ UNCHANGED status \/ status' = [status EXCEPT ![scmd[s]] = "queued"]
        BY <1>3 DEF UpsertInsert, SubGoto
    <2>2. CASE c = scmd[s]
        <3>1. s \in Inserting(c) /\ Inserting(c)' = Inserting(c) \ {s}
            BY <2>1, <2>2 DEF Inserting, TypeInv, TypeOK
        <3>2. Cardinality(Inserting(c)') = Cardinality(Inserting(c)) - 1
            BY <3>1, BudgetType, FS_RemoveElement
        <3>3. Granted(c)' <= Granted(c) + 1 /\ Granted(c)' \in Nat
            BY <2>1 DEF Granted, TypeInv, TypeOK
        <3>4. status'[c] = "absent" => writes'[c] = 0
            BY <1>2, <2>1 DEF TypeInv, TypeOK
        <3> QED BY <1>2, <3>2, <3>3, <3>4, BudgetType
    <2>3. CASE c # scmd[s]
        <3>1. status'[c] = status[c] /\ Granted(c)' = Granted(c)
            BY <2>1, <2>3 DEF Granted, TypeInv, TypeOK
        <3>2. Inserting(c)' \subseteq Inserting(c)
            BY <2>1, <2>3 DEF Inserting, TypeInv, TypeOK
        <3>3. Granted(c)' <= Granted(c)
            BY <3>1, BudgetType
        <3> QED BY <1>1, <1>2, <2>1, <3>1, <3>2, <3>3, KeepBudget
    <2> QED BY <2>2, <2>3
<1>4. ASSUME NEW s \in Submitter, UpsertRecheck(s) PROVE
          /\ status'[c] = "absent" => writes'[c] = 0
          /\ Granted(c)' + Cardinality(Inserting(c)') <= Cardinality(Senders(c))
    <2>1. UNCHANGED <<status, writes, pc, cmd, seen>>
        BY <1>4 DEF UpsertRecheck
    <2>2. Granted(c)' = Granted(c)
        BY <2>1 DEF Granted
    <2>3. CASE Inserting(c)' \subseteq Inserting(c)
        <3>1. Granted(c)' <= Granted(c)
            BY <2>2, BudgetType
        <3> QED BY <1>1, <1>2, <2>1, <2>3, <3>1, KeepBudget
    <2>4. CASE ~(Inserting(c)' \subseteq Inserting(c))
        <3>1. status[c] = "absent"
            BY <1>4, <2>4 DEF UpsertRecheck, SubGoto, Inserting, Known, TypeInv, TypeOK
        <3>2. Granted(c) = 0
            BY <1>2, <3>1 DEF Granted, RowInv, TypeInv, TypeOK
        <3>3. Inserting(c)' \subseteq Senders(c)
            BY <1>1 DEF Inserting, Senders, RowInv
        <3>4. /\ Cardinality(Inserting(c)') \in Nat
              /\ Cardinality(Inserting(c)') <= Cardinality(Senders(c))
            BY <3>3, BudgetType, FS_Subset, FS_CardinalityType
        <3> QED BY <1>2, <2>1, <2>2, <3>2, <3>4, BudgetType
    <2> QED BY <2>3, <2>4
<1>5. ASSUME ~\E s \in Submitter : UpsertInsert(s) \/ UpsertRecheck(s) PROVE
          /\ status'[c] = "absent" => writes'[c] = 0
          /\ Granted(c)' + Cardinality(Inserting(c)') <= Cardinality(Senders(c))
    <2>1. Inserting(c)' \subseteq Inserting(c)
        <3>1. \/ \E s \in Submitter : Submit(s)
              \/ Crash
              \/ UNCHANGED <<spc, scmd>>
            BY DEF Next, Supervisor, Recovery, Boot, ListUnresolved, RecoverCommand, LogRecovery, RecoveryDone,
                   ProcessBacklog, ListBacklog, GateCommand, MarkApplying, ExecuteRefused, ExecuteWrite,
                   ExecuteRaises, ReconcileOnly, Readback, SaveVerdict, LogVerdict, FailOnException,
                   FinishBatch, Fault, FaultInTry, FaultOutsideTry, FaultInRecovery, DeviceDrift, vars
        <3>2. ASSUME NEW s \in Submitter, Submit(s) PROVE Inserting(c)' \subseteq Inserting(c)
            BY <1>5, <3>2 DEF Submit, SubmitDedup, SubmitGate, SubGoto, Inserting, TypeInv, TypeOK
        <3>3. ASSUME Crash PROVE Inserting(c)' \subseteq Inserting(c)
            BY <3>3 DEF Crash, Inserting
        <3> QED BY <3>1, <3>2, <3>3 DEF Inserting
    <2>2. Granted(c)' <= Granted(c)
        <3>1. ASSUME NEW s \in Submitter, Submit(s) PROVE Granted(c)' = Granted(c)
            BY <1>5, <3>1 DEF Submit, SubmitDedup, SubmitGate, Granted
        <3> QED BY <3>1, GrantsOfSupervisor, BudgetType
    <2>3. status'[c] = "absent" => writes'[c] = 0
        <3>1. status'[c] = "absent" => status[c] = "absent"
            BY <1>5, RowsOfNext
        <3>2. status[c] = "absent" => writes'[c] = writes[c]
            BY WritesOfNext DEF RowInv, TypeInv, TypeOK
        <3> QED BY <1>2, <3>1, <3>2
    <2> QED BY <1>1, <1>2, <2>1, <2>2, <2>3, KeepBudget
<1> QED BY <1>3, <1>4, <1>5

\* Whoever delivers which commands how often: a command is written at most as
\* often as there are callers that may deliver it at the same time.  A delivery
\* that finds the row is answered from it, so retries cost nothing, and nothing
\* that happens to the gateway multiplies a write.
THEOREM DeliveriesBoundWritesCorrect ==
    ASSUME IsFiniteSet(Submitter)
    PROVE  Spec => []DeliveriesBoundWrites
<1>1. TypeInv /\ RowInv /\ BudgetInv => DeliveriesBoundWrites
    <2> SUFFICES ASSUME TypeInv, RowInv, BudgetInv, NEW c \in Command
                 PROVE  writes[c] <= Cardinality(Senders(c))
        BY DEF DeliveriesBoundWrites
    <2>1. writes[c] <= Granted(c) /\ writes[c] \in Nat
        BY DEF Granted, TypeInv, TypeOK
    <2> QED BY <2>1, BudgetType DEF BudgetInv
<1>2. TypeInv /\ RowInv /\ BudgetInv /\ [Next]_vars => BudgetInv'
    BY NextBudget
<1>3. Init => BudgetInv
    BY InitBudget
<1> QED BY <1>1, <1>2, <1>3, InitRowInv, NextRowInv, TypeInvCorrect, PTL DEF Spec

\* With no id sent by two callers at once, every register write finds the row
\* of its command, and no other, marked "applying".
THEOREM WriteAheadCorrect ==
    ASSUME DistinctCallers
    PROVE  Spec => WriteAhead
<1>1. TypeInv /\ JournalInv /\ [Next]_vars => JournalInv'
    BY NextJournalInv
<1>2. ASSUME TypeInv, GateInv, JournalInv, [Next]_vars,
             NEW c \in Command, writes'[c] # writes[c]
      PROVE  /\ status[c] = "applying"
             /\ \A d \in Command \ {c} : status[d] # "applying"
    <2>1. /\ pc = "marked" /\ seen = "queued"
          /\ writes' = [writes EXCEPT ![cmd] = @ + 1]
        BY <1>2, WritesOfNext
    <2>2. c = cmd
        BY <1>2, <2>1 DEF TypeInv, TypeOK
    <2>3. status[c] = "applying"
        BY <1>2, <2>1, <2>2 DEF JournalInv, ProcessorInv
    <2> QED BY <1>2, <2>3 DEF GateInv, ApplyExclusion
<1>3. TypeInv /\ GateInv /\ JournalInv /\ [Next]_vars
        => [\A c \in Command : writes'[c] # writes[c] =>
              /\ status[c] = "applying"
              /\ \A d \in Command \ {c} : status[d] # "applying"]_vars
    BY <1>2
<1>4. Init => GateInv
    BY DEF Init, GateInv, ApplyExclusion
<1> QED BY <1>1, <1>3, <1>4, NextGateInv, InitJournalInv, TypeInvCorrect, PTL DEF Spec, WriteAhead

-----------------------------------------------------------------------------
(* A verdict is kept while the store works *)

\* without a store fault only a device call raises, under "applying"
RaisedInv == faults = 0 /\ pc = "raised" => status[cmd] = "applying"

LEMMA NextRaised ==
    ASSUME DistinctCallers, TypeInv, JournalInv, RaisedInv, [Next]_vars
    PROVE  RaisedInv'
<1> SUFFICES ASSUME faults' = 0, pc' = "raised" PROVE status'[cmd'] = "applying"
    BY DEF RaisedInv
<1> USE DEF queueVars, deviceVars, procVars, subVars, boundVars
<1>1. ASSUME NEW s \in Submitter, Submit(s) PROVE status'[cmd'] = "applying"
    <2>1. UNCHANGED <<pc, cmd, faults>>
        BY <1>1 DEF Submit, SubmitDedup, SubmitGate, UpsertRecheck, UpsertInsert
    <2>2. cmd \in Command /\ status[cmd] = "applying"
        BY <2>1 DEF RaisedInv, TypeInv, Holding
    <2>3. ASSUME UpsertInsert(s) PROVE status'[cmd] = "applying"
        <3>1. status[scmd[s]] = "absent"
            BY <2>3 DEF UpsertInsert, JournalInv, CallerInv
        <3> QED BY <2>2, <2>3, <3>1 DEF UpsertInsert, TypeInv, TypeOK
    <2>4. UpsertInsert(s) \/ UNCHANGED status
        BY <1>1 DEF Submit, SubmitDedup, SubmitGate, UpsertRecheck
    <2> QED BY <2>1, <2>2, <2>3, <2>4
<1>2. ASSUME ~\E s \in Submitter : Submit(s) PROVE status'[cmd'] = "applying"
    <2>1. \/ ExecuteRaises
          \/ Readback
          \/ DeviceDrift
          \/ UNCHANGED vars
        BY <1>2 DEF Next, Supervisor, Recovery, Boot, ListUnresolved, RecoverCommand, LogRecovery, RecoveryDone,
               ProcessBacklog, ListBacklog, GateCommand, MarkApplying, ExecuteRefused, ExecuteWrite,
               ReconcileOnly, SaveVerdict, LogVerdict, FailOnException, FinishBatch, NextInBatch,
               Fault, FaultInTry, FaultOutsideTry, FaultInRecovery, StoreFault, Crash, TypeInv, TypeOK,
               CommandAssumption
    <2>2. ASSUME ExecuteRaises \/ Readback PROVE status'[cmd'] = "applying"
        BY <2>2 DEF ExecuteRaises, Readback, JournalInv, ProcessorInv
    <2>3. ASSUME DeviceDrift \/ UNCHANGED vars PROVE status'[cmd'] = "applying"
        BY <2>3 DEF DeviceDrift, vars, RaisedInv
    <2> QED BY <2>1, <2>2, <2>3
<1> QED BY <1>1, <1>2

\* A verdict is only taken back after a store fault, from the command in hand.
LEMMA TerminalStep ==
    ASSUME TypeInv, JournalInv, RaisedInv, [Next]_vars,
           NEW c \in Command, status[c] \in Terminal, status'[c] # status[c]
    PROVE  faults' > 0 /\ c = cmd /\ status[c] = "acked" /\ status'[c] = "failed"
<1> USE DEF queueVars, deviceVars, procVars, subVars, boundVars, Terminal
<1>1. ASSUME NEW s \in Submitter, Submit(s) PROVE FALSE
    <2>1. ASSUME UpsertInsert(s) PROVE FALSE
        <3>1. status[scmd[s]] = "absent"
            BY <2>1 DEF UpsertInsert, JournalInv, CallerInv
        <3> QED BY <2>1, <3>1 DEF UpsertInsert, TypeInv, TypeOK
    <2> QED BY <1>1, <2>1 DEF Submit, SubmitDedup, SubmitGate, UpsertRecheck
<1>2. ASSUME NEW d \in Command, batch[d] # "absent", status' = [status EXCEPT ![d] = status'[d]] PROVE FALSE
    <2>1. status[d] \in Unresolved
        BY <1>2 DEF JournalInv, BatchInv, TypeInv, TypeOK
    <2> QED BY <1>2, <2>1 DEF TypeInv, TypeOK, Unresolved
<1>3. ASSUME NEW d \in Command, RecoverCommand(d) PROVE FALSE
    BY <1>2, <1>3 DEF RecoverCommand, TypeInv, TypeOK
<1>4. ASSUME MarkApplying \/ SaveVerdict PROVE FALSE
    <2>1. status[cmd] \in Unresolved
        BY <1>4 DEF MarkApplying, SaveVerdict, JournalInv, ProcessorInv, TypeInv, TypeOK, Unresolved
    <2>2. \A d \in Command \ {cmd} : status'[d] = status[d]
        BY <1>4 DEF MarkApplying, SaveVerdict, TypeInv, TypeOK
    <2> QED BY <2>1, <2>2 DEF Unresolved
<1>5. ASSUME pc = "raised", status' = [status EXCEPT ![cmd] = "failed"], faults' >= faults
      PROVE  faults' > 0 /\ c = cmd /\ status[c] = "acked" /\ status'[c] = "failed"
    <2>1. c = cmd /\ status[c] = "acked" /\ status'[c] = "failed"
        BY <1>5 DEF TypeInv, TypeOK
    <2>2. faults > 0
        BY <1>5, <2>1, CommandAssumption DEF RaisedInv, TypeInv, TypeOK, CommandAssumption
    <2>3. faults' > 0
        <3>1. faults \in Nat /\ faults' \in Nat
            BY NextTypeInv, CommandAssumption DEF TypeInv, TypeOK, CommandAssumption
        <3> QED BY <1>5, <2>2, <3>1
    <2> QED BY <2>1, <2>3
<1>6. ASSUME FailOnException
      PROVE  faults' > 0 /\ c = cmd /\ status[c] = "acked" /\ status'[c] = "failed"
    <2>1. pc = "raised" /\ status' = [status EXCEPT ![cmd] = "failed"] /\ faults' = faults
        BY <1>6 DEF FailOnException
    <2>2. faults' >= faults
        BY <2>1, CommandAssumption DEF TypeInv, TypeOK, CommandAssumption
    <2> QED BY <1>5, <2>1, <2>2
<1>7. ASSUME Fault
      PROVE  faults' > 0 /\ c = cmd /\ status[c] = "acked" /\ status'[c] = "failed"
    <2>1. faults' > 0 /\ faults' >= faults
        BY <1>7, CommandAssumption
           DEF Fault, FaultInTry, FaultOutsideTry, FaultInRecovery, StoreFault, TypeInv, TypeOK,
               CommandAssumption
    <2>2. ASSUME FaultOutsideTry PROVE c = cmd /\ status[c] = "acked" /\ status'[c] = "failed"
        BY <1>5, <2>1, <2>2 DEF FaultOutsideTry
    <2>3. ASSUME NEW d \in Command, FaultInRecovery(d)
          PROVE  c = cmd /\ status[c] = "acked" /\ status'[c] = "failed"
        <3>1. CASE batch[d] # "absent"
            BY <1>2, <2>3, <3>1 DEF FaultInRecovery, TypeInv, TypeOK
        <3>2. CASE d = cmd
            BY <2>3, <3>2 DEF FaultInRecovery, TypeInv, TypeOK
        <3> QED BY <2>3, <3>1, <3>2 DEF FaultInRecovery
    <2> QED BY <1>7, <2>1, <2>2, <2>3 DEF Fault, FaultInTry
<1>8. \/ \E s \in Submitter : Submit(s)
      \/ \E d \in Command : RecoverCommand(d)
      \/ MarkApplying \/ SaveVerdict \/ FailOnException
      \/ Fault
    BY DEF Next, Supervisor, Recovery, Boot, ListUnresolved, LogRecovery, RecoveryDone,
       ProcessBacklog, ListBacklog, GateCommand, ExecuteRefused, ExecuteWrite, ExecuteRaises,
       ReconcileOnly, Readback, LogVerdict, FinishBatch, Crash, DeviceDrift, vars
<1> QED BY <1>1, <1>3, <1>4, <1>6, <1>7, <1>8

\* With no id sent by two callers at once, an acknowledged or failed command
\* stays so through recoveries, backlog passes, crashes and the inserts of
\* callers that were late, except that a store fault while the command is in
\* hand turns its "acked" into "failed" (runtime.py:46-197).
THEOREM TerminalIsFinalCorrect ==
    ASSUME DistinctCallers
    PROVE  Spec => TerminalIsFinal
<1>1. TypeInv /\ JournalInv /\ [Next]_vars => JournalInv'
    BY NextJournalInv
<1>2. TypeInv /\ JournalInv /\ RaisedInv /\ [Next]_vars => RaisedInv'
    BY NextRaised
<1>3. TypeInv /\ JournalInv /\ RaisedInv /\ [Next]_vars
        => [\A c \in Command : status[c] \in Terminal /\ status'[c] # status[c] =>
              /\ faults' > 0 /\ c = cmd
              /\ status[c] = "acked" /\ status'[c] = "failed"]_vars
    BY TerminalStep
<1>4. Init => RaisedInv
    BY DEF Init, RaisedInv
<1> QED BY <1>1, <1>2, <1>3, <1>4, InitJournalInv, TypeInvCorrect, PTL DEF Spec, TerminalIsFinal

-----------------------------------------------------------------------------
(* A verdict comes after a write *)

LEMMA InitVerdict == Init => VerdictInv
BY DEF Init, VerdictInv, OnlyRecoveryFindsApplying, NoBatch

LEMMA NextVerdict == TypeInv /\ VerdictInv /\ [Next]_vars => VerdictInv'
<1> SUFFICES ASSUME TypeInv, VerdictInv, [Next]_vars PROVE VerdictInv'
    OBVIOUS
<1> USE CommandAssumption
    DEF CommandAssumption, TypeInv, TypeOK, Holding, VerdictInv, OnlyRecoveryFindsApplying, NoBatch,
        Unresolved, Terminal, queueVars, deviceVars, procVars, subVars, boundVars
<1>1. ASSUME NEW s \in Submitter, Submit(s) PROVE VerdictInv'
    <2>1. ASSUME NEW c \in Command, SubmitDedup(s, c) PROVE VerdictInv'
        BY <2>1 DEF SubmitDedup, SubGoto
    <2>2. ASSUME SubmitGate(s) PROVE VerdictInv'
        BY <2>2 DEF SubmitGate, SubGoto
    <2>3. ASSUME UpsertRecheck(s) PROVE VerdictInv'
        BY <2>3 DEF UpsertRecheck, SubGoto
    <2>4. ASSUME UpsertInsert(s) PROVE VerdictInv'
        BY <2>4 DEF UpsertInsert, SubGoto
    <2> QED BY <1>1, <2>1, <2>2, <2>3, <2>4 DEF Submit
<1>2. ASSUME Recovery PROVE VerdictInv'
    <2>1. ASSUME Boot PROVE VerdictInv'
        BY <2>1 DEF Boot
    <2>2. ASSUME ListUnresolved PROVE VerdictInv'
        BY <2>2 DEF ListUnresolved, Listing, Backlog
    <2>3. ASSUME NEW c \in Command, RecoverCommand(c) PROVE VerdictInv'
        BY <2>3 DEF RecoverCommand
    <2>4. ASSUME LogRecovery PROVE VerdictInv'
        BY <2>4 DEF LogRecovery
    <2>5. ASSUME RecoveryDone PROVE VerdictInv'
        BY <2>5 DEF RecoveryDone
    <2> QED BY <1>2, <2>1, <2>2, <2>3, <2>4, <2>5 DEF Recovery
<1>3. ASSUME ProcessBacklog PROVE VerdictInv'
    <2>1. ASSUME ListBacklog PROVE VerdictInv'
        BY <2>1 DEF ListBacklog, Backlog
    <2>2. ASSUME NEW c \in Command, GateCommand(c) PROVE VerdictInv'
        BY <2>2 DEF GateCommand
    <2>3. ASSUME MarkApplying PROVE VerdictInv'
        BY <2>3 DEF MarkApplying
    <2>4. ASSUME ExecuteRefused \/ ReconcileOnly \/ Readback PROVE VerdictInv'
        BY <2>4 DEF ExecuteRefused, ReconcileOnly, Readback
    <2>5. ASSUME ExecuteWrite PROVE VerdictInv'
        BY <2>5 DEF ExecuteWrite, DeviceWrite
    <2>6. ASSUME ExecuteRaises PROVE VerdictInv'
        BY <2>6 DEF ExecuteRaises, DeviceWrite
    <2>7. ASSUME SaveVerdict PROVE VerdictInv'
        BY <2>7 DEF SaveVerdict
    <2>8. ASSUME LogVerdict PROVE VerdictInv'
        BY <2>8 DEF LogVerdict, NextInBatch
    <2>9. ASSUME FailOnException PROVE VerdictInv'
        BY <2>9 DEF FailOnException, NextInBatch
    <2>10. ASSUME FinishBatch PROVE VerdictInv'
        BY <2>10 DEF FinishBatch
    <2> QED BY <1>3, <2>1, <2>2, <2>3, <2>4, <2>5, <2>6, <2>7, <2>8, <2>9, <2>10 DEF ProcessBacklog
<1>4. ASSUME Fault PROVE VerdictInv'
    <2>1. faults' > 0
        BY <1>4 DEF Fault, FaultInTry, FaultOutsideTry, FaultInRecovery, StoreFault
    <2>2. ASSUME FaultInTry PROVE VerdictInv'
        BY <2>1, <2>2 DEF FaultInTry
    <2>3. ASSUME FaultOutsideTry PROVE VerdictInv'
        BY <2>1, <2>3 DEF FaultOutsideTry, ForgetCommand
    <2>4. ASSUME NEW c \in Command, FaultInRecovery(c) PROVE VerdictInv'
        BY <2>1, <2>4 DEF FaultInRecovery
    <2> QED BY <1>4, <2>2, <2>3, <2>4 DEF Fault
<1>5. ASSUME Crash PROVE VerdictInv'
    BY <1>5 DEF Crash, ForgetCommand
<1>6. ASSUME DeviceDrift \/ UNCHANGED vars PROVE VerdictInv'
    BY <1>6 DEF DeviceDrift, vars
<1> QED BY <1>1, <1>2, <1>3, <1>4, <1>5, <1>6 DEF Next, Supervisor

\* A step that saves "acked" is one of the startup recovery or one that saves
\* the verdict of the command in hand.
LEMMA AckStep ==
    ASSUME TypeInv, VerdictInv, [Next]_vars,
           NEW c \in Command, status[c] # "acked", status'[c] = "acked"
    PROVE  \/ writes[c] > 0
           \/ pc = "recovering" /\ device = Target[c]
           \/ faults > 0 /\ seen = "applying"
<1> USE DEF queueVars, deviceVars, procVars, subVars, boundVars, TypeInv, TypeOK
<1>1. (\E d \in Command : RecoverCommand(d)) \/ SaveVerdict
    BY DEF Next, Submit, SubmitDedup, SubmitGate, UpsertRecheck, UpsertInsert,
           Supervisor, Recovery, Boot, ListUnresolved, LogRecovery, RecoveryDone,
           ProcessBacklog, ListBacklog, GateCommand, MarkApplying, ExecuteRefused, ExecuteWrite,
           ExecuteRaises, ReconcileOnly, Readback, LogVerdict, FailOnException, FinishBatch,
           Fault, FaultInTry, FaultOutsideTry, FaultInRecovery, Crash, DeviceDrift, vars
<1>2. ASSUME NEW d \in Command, RecoverCommand(d) PROVE pc = "recovering" /\ device = Target[c]
    BY <1>2 DEF RecoverCommand
<1>3. ASSUME SaveVerdict PROVE writes[c] > 0 \/ (faults > 0 /\ seen = "applying")
    <2>1. pc = "verdict" /\ ok /\ c = cmd
        BY <1>3 DEF SaveVerdict
    <2>2. seen \in {"queued", "applying"}
        BY <2>1 DEF VerdictInv, Unresolved
    <2>3. seen = "applying" => faults > 0
        BY CommandAssumption DEF CommandAssumption, VerdictInv, OnlyRecoveryFindsApplying
    <2> QED BY <2>1, <2>2, <2>3 DEF VerdictInv
<1> QED BY <1>1, <1>2, <1>3

\* For any callers, also those that share ids or do not wait for the recovery,
\* and any crashes and store faults: an executor's "acked" follows its register
\* write, and only the startup recovery and the row that a store fault left
\* "applying" are acknowledged from a readback alone.
THEOREM AckedMeansAppliedCorrect == Spec => AckedMeansApplied
<1>1. TypeInv /\ VerdictInv /\ [Next]_vars
        => [\A c \in Command : status[c] # "acked" /\ status'[c] = "acked" =>
              \/ writes[c] > 0
              \/ pc = "recovering" /\ device = Target[c]
              \/ faults > 0 /\ seen = "applying"]_vars
    BY AckStep
<1> QED BY <1>1, InitVerdict, NextVerdict, TypeInvCorrect, PTL DEF Spec, AckedMeansApplied

-----------------------------------------------------------------------------
(* One caller has one command outstanding *)

OneCaller == \A s, t \in Submitter : s = t

LEMMA InitSerial == Init => SerialInv
BY DEF Init, SerialInv, Backlog, Unresolved

LEMMA NextSerial ==
    ASSUME OneCaller, TypeInv, JournalInv, SerialInv, [Next]_vars
    PROVE  SerialInv'
<1> USE CommandAssumption
    DEF CommandAssumption, TypeInv, TypeOK, Holding, SerialInv, Backlog,
        Unresolved, Terminal, queueVars, deviceVars, procVars, subVars, boundVars
<1>1. ASSUME NEW s \in Submitter, Submit(s) PROVE SerialInv'
    <2>1. ASSUME NEW c \in Command, SubmitDedup(s, c) PROVE SerialInv'
        BY <2>1 DEF SubmitDedup, SubGoto
    <2>2. ASSUME SubmitGate(s) PROVE SerialInv'
        BY <2>2 DEF SubmitGate, SubGoto
    <2>3. ASSUME UpsertRecheck(s) PROVE SerialInv'
        BY <2>3 DEF UpsertRecheck, SubGoto
    <2>4. ASSUME UpsertInsert(s) PROVE SerialInv'
        <3>1. Backlog = {} /\ \A t \in Submitter : spc'[t] = "idle"
            BY <2>4 DEF UpsertInsert, SubGoto, OneCaller
        <3>2. Backlog' \subseteq {scmd[s]}
            BY <2>4, <3>1 DEF UpsertInsert
        <3> QED BY <3>1, <3>2
    <2> QED BY <1>1, <2>1, <2>2, <2>3, <2>4 DEF Submit
<1>2. ASSUME Backlog' \subseteq Backlog, UNCHANGED spc PROVE SerialInv'
    BY <1>2
<1>3. ASSUME Recovery PROVE SerialInv'
    BY <1>2, <1>3 DEF Recovery, Boot, ListUnresolved, RecoverCommand, LogRecovery, RecoveryDone
<1>4. ASSUME ProcessBacklog PROVE SerialInv'
    <2>1. ASSUME MarkApplying PROVE SerialInv'
        <3>1. cmd \in Backlog
            BY <2>1 DEF MarkApplying, JournalInv, ProcessorInv
        <3> QED BY <1>2, <2>1, <3>1 DEF MarkApplying
    <2>2. ASSUME SaveVerdict \/ FailOnException PROVE SerialInv'
        BY <1>2, <2>2 DEF SaveVerdict, FailOnException, NextInBatch
    <2> QED BY <1>2, <1>4, <2>1, <2>2
            DEF ProcessBacklog, ListBacklog, GateCommand, ExecuteRefused, ExecuteWrite, ExecuteRaises,
                ReconcileOnly, Readback, LogVerdict, NextInBatch, FinishBatch
<1>5. ASSUME Fault PROVE SerialInv'
    BY <1>2, <1>5 DEF Fault, FaultInTry, FaultOutsideTry, FaultInRecovery
<1>6. ASSUME Crash PROVE SerialInv'
    BY <1>6 DEF Crash
<1>7. ASSUME DeviceDrift \/ UNCHANGED vars PROVE SerialInv'
    BY <1>2, <1>7 DEF DeviceDrift, vars
<1> QED BY <1>1, <1>3, <1>4, <1>5, <1>6, <1>7 DEF Next, Supervisor

\* A single caller of submit_command has at most one unresolved command at the
\* site (runtime.py:146), across any restarts and store faults.
THEOREM OneOutstandingCorrect ==
    ASSUME OneCaller
    PROVE  Spec => []OneOutstanding
<1>1. DistinctCallers
    BY DEF OneCaller, DistinctCallers
<1>2. TypeInv /\ JournalInv /\ [Next]_vars => JournalInv'
    BY <1>1, NextJournalInv
<1>3. TypeInv /\ JournalInv /\ SerialInv /\ [Next]_vars => SerialInv'
    BY NextSerial
<1>4. SerialInv => OneOutstanding
    <2> SUFFICES ASSUME SerialInv PROVE OneOutstanding
        OBVIOUS
    <2>1. Backlog # {} => \E c : Backlog = {c}
        <3> SUFFICES ASSUME NEW c \in Backlog PROVE Backlog = {c}
            OBVIOUS
        <3> QED BY DEF SerialInv
    <2>2. Cardinality(Backlog) \in {0, 1}
        BY <2>1, FS_EmptySet, FS_Singleton
    <2> QED BY <2>2 DEF OneOutstanding
<1> QED BY <1>2, <1>3, <1>4, InitJournalInv, InitSerial, TypeInvCorrect, PTL DEF Spec

\* A single caller never makes a row of the backlog wait for another one: what
\* is listed in a pass is applied or read back in that pass (runtime.py:168).
THEOREM NeverBlockedCorrect ==
    ASSUME OneCaller
    PROVE  Spec => []NeverBlocked
<1>1. DistinctCallers
    BY DEF OneCaller, DistinctCallers
<1>2. TypeInv /\ JournalInv /\ [Next]_vars => JournalInv'
    BY <1>1, NextJournalInv
<1>3. TypeInv /\ JournalInv /\ SerialInv /\ [Next]_vars => SerialInv'
    BY NextSerial
<1>4. TypeInv /\ JournalInv /\ SerialInv => NeverBlocked
    <2> SUFFICES ASSUME TypeInv, JournalInv, SerialInv,
                        NEW c \in Command, batch[c] # "absent"
                 PROVE  ~Blocked(c)
        BY DEF NeverBlocked
    <2>1. c \in Backlog
        BY DEF JournalInv, BatchInv, TypeInv, TypeOK, Backlog
    <2> QED BY <2>1 DEF SerialInv, Blocked
<1> QED BY <1>2, <1>3, <1>4, InitJournalInv, InitSerial, TypeInvCorrect, PTL DEF Spec

-----------------------------------------------------------------------------
(* Two callers: what a pair of unresolved rows comes to *)

\* With two unresolved rows every row is blocked by one of them.
LEMMA AllBlocked ==
    ASSUME NEW c, \E d, e \in Backlog : d # e
    PROVE  Blocked(c)
BY DEF Blocked

\* Between two passes of the supervisor only a caller changes a row, and what it
\* writes is "queued".
LEMMA NextStandoff ==
    ASSUME TypeInv, [Next]_vars, Standoff, crashes' = crashes
    PROVE  /\ pc' \in {"idle", "batch"}
           /\ UNCHANGED writes
           /\ \A c \in Command : status'[c] \in {status[c], "queued"}
<1> USE DEF queueVars, deviceVars, procVars, subVars, boundVars
<1> pc \in {"idle", "batch"} /\ \A c : Blocked(c)
    BY AllBlocked DEF Standoff
<1> status \in [Command -> Status] /\ crashes \in Nat
    BY CommandAssumption DEF TypeInv, TypeOK, CommandAssumption
<1>1. ASSUME NEW s \in Submitter, UpsertInsert(s)
      PROVE  /\ UNCHANGED <<pc, writes>>
             /\ \A c \in Command : status'[c] \in {status[c], "queued"}
    BY <1>1 DEF UpsertInsert
<1>2. ASSUME NEW s \in Submitter, Submit(s), ~UpsertInsert(s)
      PROVE  UNCHANGED <<pc, writes, status>>
    BY <1>2 DEF Submit, SubmitDedup, SubmitGate, UpsertRecheck
<1>3. ~Recovery
    BY DEF Recovery, Boot, ListUnresolved, RecoverCommand, LogRecovery, RecoveryDone
<1>4. ASSUME ProcessBacklog
      PROVE  UNCHANGED <<writes, status>> /\ pc' \in {"idle", "batch"}
    BY <1>4 DEF ProcessBacklog, ListBacklog, GateCommand, MarkApplying, ExecuteRefused, ExecuteWrite,
                ExecuteRaises, ReconcileOnly, Readback, SaveVerdict, LogVerdict, FailOnException,
                FinishBatch
<1>5. ASSUME Fault
      PROVE  UNCHANGED <<writes, status>> /\ pc' = "idle"
    BY <1>5 DEF Fault, FaultInTry, FaultOutsideTry, FaultInRecovery
<1>6. ~Crash
    BY DEF Crash
<1>7. ASSUME DeviceDrift \/ UNCHANGED vars
      PROVE  UNCHANGED <<pc, writes, status>>
    BY <1>7 DEF DeviceDrift, vars
<1> QED BY <1>1, <1>2, <1>3, <1>4, <1>5, <1>6, <1>7 DEF Next, Supervisor

\* Once two rows are unresolved between passes, whoever brought them there,
\* neither is ever written or resolved before a crash, in no order of passes,
\* submissions and store faults: the general form of the race at runtime.py:146.
THEOREM StandoffLastsCorrect == Spec => StandoffLasts
<1>1. ASSUME TypeInv, [Next]_vars, Standoff, crashes' = crashes
      PROVE  /\ Standoff'
             /\ \A c \in Backlog : status'[c] \in Unresolved
             /\ UNCHANGED writes
    <2>1. \A c \in Backlog : status'[c] \in Unresolved
        BY <1>1, NextStandoff DEF Backlog, Unresolved
    <2>2. Backlog \subseteq Backlog'
        BY <2>1 DEF Backlog
    <2>3. PICK c, d \in Backlog : c # d
        BY <1>1 DEF Standoff
    <2>4. c \in Backlog' /\ d \in Backlog' /\ pc' \in {"idle", "batch"}
        BY <1>1, <2>2, NextStandoff
    <2> QED BY <1>1, <2>1, <2>3, <2>4, NextStandoff DEF Standoff
<1>2. TypeInv /\ [Next]_vars =>
        (Standoff /\ crashes' = crashes =>
            /\ Standoff'
            /\ \A c \in Backlog : status'[c] \in Unresolved
            /\ UNCHANGED writes)
    BY <1>1
<1> QED BY <1>2, TypeInvCorrect, PTL DEF Spec, StandoffLasts

-----------------------------------------------------------------------------
(* The command path implements CommandJournal *)

\* The step relation of the journal, with the mapped variables spelled out.
JournalStep == [Journal!Next]_(Journal!vars)

\* A step that keeps the queue and the writes is a stutter of the journal.
LEMMA KeepRows ==
    ASSUME UNCHANGED <<status, writes>>
    PROVE  JournalStep
BY DEF JournalStep, Journal!vars

\* Saving a verdict for an unresolved row resolves it; saving another verdict
\* for a resolved one is a stutter.
LEMMA ResolveRow ==
    ASSUME TypeOK, NEW c \in Command, NEW v \in Terminal,
           status[c] # "absent", status' = [status EXCEPT ![c] = v], UNCHANGED writes
    PROVE  JournalStep
<1>1. CASE status[c] \in Unresolved
    <2>1. Journal!Resolve(c)
        BY <1>1 DEF Journal!Resolve, Phase, TypeOK, Status, Unresolved, Terminal
    <2> QED BY <2>1 DEF JournalStep, Journal!Next
<1>2. CASE status[c] \in Terminal
    <2>1. \A d \in Command : Phase(status'[d]) = Phase(status[d])
        BY <1>2 DEF Phase, TypeOK, Status, Unresolved, Terminal
    <2> QED BY <2>1 DEF JournalStep, Journal!vars
<1> QED BY <1>1, <1>2 DEF TypeOK, Status

LEMMA NextJournalStep ==
    ASSUME DistinctCallers, TypeInv, JournalInv, [Next]_vars
    PROVE  JournalStep
<1> USE CommandAssumption
    DEF CommandAssumption, TypeInv, TypeOK, Holding, Unresolved, Terminal,
        queueVars, deviceVars, procVars, subVars, boundVars
<1>1. ASSUME NEW s \in Submitter, Submit(s) PROVE JournalStep
    <2>1. ASSUME UpsertInsert(s), UNCHANGED status => FALSE PROVE JournalStep
        <3> DEFINE c == scmd[s]
        <3>1. c \in Command /\ status[c] = "absent"
            BY <2>1 DEF UpsertInsert, JournalInv, CallerInv
        <3>2. status' = [status EXCEPT ![c] = "queued"] /\ UNCHANGED writes
            BY <2>1 DEF UpsertInsert
        <3>3. Journal!Accept(c)
            BY <3>1, <3>2 DEF Journal!Accept, Phase
        <3> QED BY <3>1, <3>3 DEF JournalStep, Journal!Next
    <2>2. CASE UNCHANGED status
        BY <1>1, <2>2, KeepRows DEF Submit, SubmitDedup, SubmitGate, UpsertRecheck, UpsertInsert
    <2> QED BY <1>1, <2>1, <2>2 DEF Submit, SubmitDedup, SubmitGate, UpsertRecheck
<1>2. ASSUME Recovery PROVE JournalStep
    <2>1. ASSUME NEW c \in Command, RecoverCommand(c) PROVE JournalStep
        <3>1. status[c] # "absent"
            BY <2>1 DEF RecoverCommand, JournalInv, BatchInv
        <3>2. PICK v \in Terminal : status' = [status EXCEPT ![c] = v]
            BY <2>1 DEF RecoverCommand
        <3>3. UNCHANGED writes
            BY <2>1 DEF RecoverCommand
        <3> QED BY <3>1, <3>2, <3>3, ResolveRow
    <2> QED BY <1>2, <2>1, KeepRows DEF Recovery, Boot, ListUnresolved, LogRecovery, RecoveryDone
<1>3. ASSUME ProcessBacklog PROVE JournalStep
    <2>1. ASSUME MarkApplying PROVE JournalStep
        <3>1. status[cmd] \in Unresolved /\ status' = [status EXCEPT ![cmd] = "applying"]
            BY <2>1 DEF MarkApplying, JournalInv, ProcessorInv
        <3>2. \A d \in Command : Phase(status'[d]) = Phase(status[d])
            BY <3>1 DEF Phase
        <3> QED BY <2>1, <3>2 DEF MarkApplying, JournalStep, Journal!vars
    <2>2. ASSUME ExecuteWrite \/ ExecuteRaises, UNCHANGED writes => FALSE PROVE JournalStep
        <3>1. /\ pc = "marked" /\ seen = "queued"
              /\ writes' = [writes EXCEPT ![cmd] = @ + 1] /\ UNCHANGED status
            BY <2>2 DEF ExecuteWrite, ExecuteRaises, DeviceWrite
        <3>2. cmd \in Command /\ status[cmd] = "applying" /\ writes[cmd] = 0
            BY <3>1 DEF JournalInv, ProcessorInv
        <3>3. Journal!Apply(cmd)
            BY <3>1, <3>2 DEF Journal!Apply, Phase
        <3> QED BY <3>2, <3>3 DEF JournalStep, Journal!Next
    <2>3. ASSUME ExecuteWrite \/ ExecuteRaises, UNCHANGED writes PROVE JournalStep
        BY <2>3, KeepRows DEF ExecuteWrite, ExecuteRaises
    <2>4. ASSUME SaveVerdict PROVE JournalStep
        <3>1. PICK v \in Terminal : status' = [status EXCEPT ![cmd] = v]
            BY <2>4 DEF SaveVerdict
        <3>2. cmd \in Command /\ status[cmd] # "absent" /\ UNCHANGED writes
            BY <2>4 DEF SaveVerdict, JournalInv, ProcessorInv
        <3> QED BY <3>1, <3>2, ResolveRow
    <2>5. ASSUME FailOnException PROVE JournalStep
        <3>1. /\ cmd \in Command /\ status[cmd] # "absent" /\ UNCHANGED writes
              /\ status' = [status EXCEPT ![cmd] = "failed"]
            BY <2>5 DEF FailOnException, JournalInv, ProcessorInv
        <3> QED BY <3>1, ResolveRow
    <2> QED BY <1>3, <2>1, <2>2, <2>3, <2>4, <2>5, KeepRows
            DEF ProcessBacklog, ListBacklog, GateCommand, ExecuteRefused, ReconcileOnly,
                Readback, LogVerdict, FinishBatch
<1>4. ASSUME Fault PROVE JournalStep
    <2>1. ASSUME FaultInTry PROVE JournalStep
        BY <2>1, KeepRows DEF FaultInTry
    <2>2. ASSUME FaultOutsideTry PROVE JournalStep
        <3>1. CASE UNCHANGED status
            BY <2>2, <3>1, KeepRows DEF FaultOutsideTry
        <3>2. CASE pc = "raised" /\ status' = [status EXCEPT ![cmd] = "failed"]
            <4>1. cmd \in Command /\ status[cmd] # "absent" /\ UNCHANGED writes
                BY <2>2, <3>2 DEF FaultOutsideTry, JournalInv, ProcessorInv
            <4> QED BY <3>2, <4>1, ResolveRow
        <3> QED BY <2>2, <3>1, <3>2 DEF FaultOutsideTry
    <2>3. ASSUME NEW c \in Command, FaultInRecovery(c) PROVE JournalStep
        <3>1. /\ status[c] # "absent" /\ UNCHANGED writes
              /\ status' = [status EXCEPT ![c] = "failed"]
            BY <2>3 DEF FaultInRecovery, JournalInv, BatchInv, ProcessorInv
        <3> QED BY <3>1, ResolveRow
    <2> QED BY <1>4, <2>1, <2>2, <2>3 DEF Fault
<1>5. ASSUME Crash \/ DeviceDrift \/ UNCHANGED vars PROVE JournalStep
    BY <1>5, KeepRows DEF Crash, DeviceDrift, vars
<1> QED BY <1>1, <1>2, <1>3, <1>4, <1>5 DEF Next, Supervisor

\* With no id sent by two callers at once, the queue, its callers, the
\* supervisor, the crashes and the faults together implement CommandJournal.
THEOREM ImplementsJournalCorrect ==
    ASSUME DistinctCallers
    PROVE  Spec => ImplementsJournal
<1>1. ASSUME Init PROVE Journal!Init
    <2>1. \A c \in Command : Phase(status[c]) = "unknown"
        BY <1>1 DEF Init, Phase, Unresolved
    <2>2. [c \in Command |-> Phase(status[c])] = [c \in Command |-> "unknown"]
        BY <2>1
    <2> QED BY <1>1, <2>2 DEF Init, Journal!Init
<1>2. TypeInv /\ JournalInv /\ [Next]_vars => JournalInv'
    BY NextJournalInv
<1>3. TypeInv /\ JournalInv /\ [Next]_vars => [Journal!Next]_(Journal!vars)
    BY NextJournalStep DEF JournalStep
<1> QED BY <1>1, <1>2, <1>3, InitJournalInv, TypeInvCorrect, PTL
        DEF Spec, ImplementsJournal, Journal!Spec
=============================================================================
