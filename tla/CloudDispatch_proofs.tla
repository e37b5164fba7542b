------------------------ MODULE CloudDispatch_proofs ------------------------
(***************************************************************************)
(* Proofs about CloudDispatch: for any commands, slots, windows, failing   *)
(* calls and restarts, the younger of two open commands of one slot was    *)
(* made when the older was outside the window, a device has no more recent *)
(* open commands than slots, a queued row without a request is paid for by *)
(* a failing call or a restart, acknowledgements stick, and the abstract   *)
(* ledger with its keys used once is implemented.                          *)
(***************************************************************************)
EXTENDS CloudDispatch, FiniteSetTheorems, TLAPS

LEMMA Defaults == AnyDevice \in Device /\ AnyWindow \in Windows /\ NoRequest \in Request
BY DispatchAssumption DEF DispatchAssumption, AnyDevice, AnyWindow, NoRequest, Request

LEMMA WindowTypes == MaxAge \in Nat /\ \A w \in Windows : w \in Nat /\ w < MaxAge
<1>1. Windows \subseteq 0 .. MaxAge - 1 /\ MaxAge \in Nat
    BY DispatchAssumption DEF DispatchAssumption
<1> QED BY <1>1

LEMMA AgeTypes ==
    ASSUME TypeOK
    PROVE  \A c \in Command :
              /\ age[c] \in Nat /\ age[c] <= MaxAge
              /\ win[c] \in Nat /\ win[c] < MaxAge /\ win[c] \in Windows
BY WindowTypes DEF TypeOK

-----------------------------------------------------------------------------
(* Types *)

LEMMA InitType == Init => TypeOK
<1> SUFFICES ASSUME Init PROVE TypeOK
    OBVIOUS
<1> USE Defaults, DispatchAssumption DEF DispatchAssumption, Init
<1>1. status \in [Command -> Status]
    BY DEF Status
<1>2. /\ device \in [Command -> Device] /\ by \in [Command -> Caller \cup {NoCaller}]
      /\ win \in [Command -> Windows]
    OBVIOUS
<1>3. key \in [Command -> Key \cup {NoKey}] /\ acked \in [Command -> BOOLEAN]
    OBVIOUS
<1>4. age \in [Command -> 0 .. MaxAge]
    OBVIOUS
<1>5. rpc \in [Caller -> ReqState]
    BY DEF ReqState
<1>6. req \in [Caller -> Request] /\ rcmd \in [Caller -> Command \cup {NoCommand}]
    OBVIOUS
<1>7. acking \subseteq Command /\ faults \in 0 .. MaxFaults /\ crashes \in 0 .. MaxCrashes
    OBVIOUS
<1> QED BY <1>1, <1>2, <1>3, <1>4, <1>5, <1>6, <1>7 DEF TypeOK

LEMMA ReturnType ==
    ASSUME TypeOK, NEW r \in Caller, Return(r)
    PROVE  rpc' \in [Caller -> ReqState] /\ req' \in [Caller -> Request]
           /\ rcmd' \in [Caller -> Command \cup {NoCommand}]
BY Defaults DEF TypeOK, Return, Goto, ReqState

LEMMA ProceedType ==
    ASSUME TypeOK, NEW r \in Caller, NEW p \in ReqState, Proceed(r, p)
    PROVE  rpc' \in [Caller -> ReqState] /\ req' \in [Caller -> Request]
           /\ rcmd' \in [Caller -> Command \cup {NoCommand}]
BY DEF TypeOK, Proceed, Goto

LEMMA UpdateType ==
    ASSUME TypeOK, NEW c \in Command, NEW s \in Status, UpdateStatus(c, s)
    PROVE  /\ status' \in [Command -> Status] /\ acked' \in [Command -> BOOLEAN]
           /\ age' \in [Command -> 0 .. MaxAge] /\ win' \in [Command -> Windows]
           /\ by' \in [Command -> Caller \cup {NoCaller}]
<1>1. status' \in [Command -> Status]
    BY DEF TypeOK, UpdateStatus
<1>2. acked \in [Command -> BOOLEAN] /\ (acked[c] \/ s = "acked") \in BOOLEAN
    BY DEF TypeOK
<1>3. acked' = [acked EXCEPT ![c] = acked[c] \/ s = "acked"]
    BY DEF UpdateStatus
<1>4. /\ age' \in [Command -> 0 .. MaxAge] /\ win' \in [Command -> Windows]
      /\ by' \in [Command -> Caller \cup {NoCaller}]
    BY Defaults, DispatchAssumption
    DEF DispatchAssumption, TypeOK, UpdateStatus, FollowOpen, openVars
<1> QED BY <1>1, <1>2, <1>3, <1>4

\* A failing call is counted within its bound.
LEMMA FaultType == TypeOK /\ Fault => faults' \in 0 .. MaxFaults
BY DispatchAssumption DEF DispatchAssumption, TypeOK, Fault

LEMMA InsertType ==
    ASSUME TypeOK, NEW r \in Caller, NEW c \in Command, Insert(r, c)
    PROVE  /\ status' \in [Command -> Status] /\ device' \in [Command -> Device]
           /\ key' \in [Command -> Key \cup {NoKey}] /\ win' \in [Command -> Windows]
           /\ by' \in [Command -> Caller \cup {NoCaller}]
<1>1. /\ req[r].device \in Device /\ req[r].key \in Key \cup {NoKey}
      /\ req[r].window \in Windows
    BY DEF TypeOK, Request
<1>2. "queued" \in Status
    BY DEF Status
<1> QED BY <1>1, <1>2 DEF TypeOK, Insert

LEMMA NextType == TypeOK /\ DispatchInv /\ [Next]_vars => TypeOK'
<1> SUFFICES ASSUME TypeOK, DispatchInv, [Next]_vars PROVE TypeOK'
    OBVIOUS
<1> USE DispatchAssumption DEF DispatchAssumption, rowVars, reqVars, openVars, failVars
<1>1. ASSUME NEW r \in Caller, Arrive(r) PROVE TypeOK'
    BY <1>1 DEF TypeOK, Arrive, Goto, ReqState
<1>2. ASSUME NEW r \in Caller, Serve(r) PROVE TypeOK'
    <2> USE DEF TypeOK
    <2>1. CASE CheckPending(r)
        <3>1. "create" \in ReqState
            BY DEF ReqState
        <3> QED BY <2>1, <3>1, ReturnType, ProceedType DEF CheckPending
    <2>2. ASSUME NEW c \in Command, CreateCommand(r, c) PROVE TypeOK'
        <3>1. "send" \in ReqState
            BY DEF ReqState
        <3>2. /\ rcmd' \in [Caller -> Command \cup {NoCommand}] /\ rpc' \in [Caller -> ReqState]
              /\ req' \in [Caller -> Request]
            BY <2>2, <3>1, Defaults DEF CreateCommand, Goto
        <3>3. Insert(r, c) /\ UNCHANGED <<acking, failVars>>
            BY <2>2 DEF CreateCommand
        <3> QED BY <3>2, <3>3, InsertType DEF Insert
    <2>3. CASE CreateRejected(r)
        BY <2>3, ReturnType DEF CreateRejected
    <2>4. CASE SendToDevice(r)
        <3>1. "deliver" \in ReqState /\ "fail" \in ReqState
            BY DEF ReqState
        <3> QED BY <2>4, <3>1, ReturnType, ProceedType DEF SendToDevice
    <2>5. CASE MarkSent(r) \/ MarkFailed(r)
        <3>1. rcmd[r] \in Command
            BY <2>5 DEF DispatchInv, HoldInv, MarkSent, MarkFailed
        <3>2. "sent" \in Status /\ "failed" \in Status
            BY DEF Status
        <3> QED BY <2>5, <3>1, <3>2, ReturnType, UpdateType DEF MarkSent, MarkFailed
    <2>6. CASE CallRaises(r)
        BY <2>6, ReturnType, FaultType DEF CallRaises
    <2>7. ASSUME NEW c \in Command, CreateUnanswered(r, c) PROVE TypeOK'
        BY <2>7, ReturnType, FaultType, InsertType DEF CreateUnanswered, Insert
    <2> QED BY <1>2, <2>1, <2>2, <2>3, <2>4, <2>5, <2>6, <2>7 DEF Serve
<1>3. ASSUME NEW c \in Command, AckRead(c) \/ AckRaises(c) PROVE TypeOK'
    BY <1>3, FaultType DEF TypeOK, AckRead, AckRaises
<1>4. ASSUME NEW c \in Command, AckWrite(c) PROVE TypeOK'
    <2>1. "acked" \in Status
        BY DEF Status
    <2> QED BY <1>4, <2>1, UpdateType DEF TypeOK, AckWrite
<1>5. CASE Tick
    <2>1. age' \in [Command -> 0 .. MaxAge]
        BY <1>5 DEF TypeOK, Tick
    <2> QED BY <1>5, <2>1 DEF TypeOK, Tick
<1>6. CASE Restart
    <2>1. rpc' \in [Caller -> ReqState]
        BY <1>6 DEF Restart, ReqState
    <2>2. req' \in [Caller -> Request] /\ rcmd' \in [Caller -> Command \cup {NoCommand}]
        BY <1>6, Defaults DEF Restart
    <2> QED BY <1>6, <2>1, <2>2 DEF TypeOK, Restart
<1>7. CASE UNCHANGED vars
    BY <1>7 DEF TypeOK, vars
<1> QED BY <1>1, <1>2, <1>3, <1>4, <1>5, <1>6, <1>7 DEF Next

-----------------------------------------------------------------------------
(* The inductive invariant *)

\* No row opens, and those that stay open keep what is known of them.
Narrower ==
    \A d \in Command :
        Open(d)' => /\ Open(d) /\ age'[d] = age[d] /\ by'[d] = by[d]
                    /\ win'[d] = win[d] /\ device'[d] = device[d]

\* No request comes to stand before its INSERT.
FewerCreate == \A r \in Caller : rpc'[r] = "create" => rpc[r] = "create" /\ req'[r] = req[r]

LEMMA NarrowerKeeps == DispatchInv /\ Narrower => OnePerCaller' /\ AgeInv'
BY DEF DispatchInv, Narrower, OnePerCaller, AgeInv

LEMMA FewerKeeps == DispatchInv /\ Narrower /\ FewerCreate => CheckInv'
BY DEF DispatchInv, Narrower, FewerCreate, CheckInv, Pending

LEMMA RowsKept == UNCHANGED rowVars => Narrower
BY DEF rowVars, openVars, Narrower, Open

LEMMA ReturnFewer == ASSUME TypeOK, NEW r \in Caller, Return(r) PROVE FewerCreate
BY DEF TypeOK, Return, Goto, FewerCreate

LEMMA ReturnHolds ==
    ASSUME TypeOK, DispatchInv, NEW r \in Caller, Return(r), status' = status, acked' = acked
    PROVE  HoldInv'
BY DEF TypeOK, DispatchInv, HoldInv, Return, Goto

\* What a status write leaves open was open, and it leaves the others alone.
LEMMA UpdateNarrows ==
    ASSUME TypeOK, NEW c \in Command, NEW new \in {"sent", "failed", "acked"},
           status[c] # "absent", new = "sent" => status[c] = "queued" \/ acked[c],
           UpdateStatus(c, new), UNCHANGED device, RowInv
    PROVE  /\ Narrower
           /\ \A d \in Command : d # c => status'[d] = status[d] /\ acked'[d] = acked[d]
           /\ status'[c] = new
           /\ acked[c] \/ new = "acked" <=> acked'[c]
           /\ \A d \in Command : ~Open(d)' => age'[d] = 0
<1>1. \A d \in Command : d # c => status'[d] = status[d] /\ acked'[d] = acked[d]
    BY DEF TypeOK, UpdateStatus
<1>2. status'[c] = new
    BY DEF TypeOK, UpdateStatus
<1>3. acked'[c] = (acked[c] \/ new = "acked")
    BY Zenon DEF TypeOK, UpdateStatus
<1>4. acked[c] \in BOOLEAN
    BY DEF TypeOK
<1>5. CASE new = "sent" /\ ~acked[c]
    <2>1. UNCHANGED openVars
        BY <1>5 DEF UpdateStatus, FollowOpen
    <2>2. Open(c) /\ Open(c)'
        BY <1>2, <1>3, <1>5 DEF Open
    <2> QED BY <1>1, <1>2, <1>3, <1>4, <2>1, <2>2 DEF openVars, Narrower, Open, RowInv
<1>6. CASE ~(new = "sent" /\ ~acked[c])
    <2>1. /\ age' = [age EXCEPT ![c] = 0] /\ by' = [by EXCEPT ![c] = NoCaller]
          /\ win' = [win EXCEPT ![c] = AnyWindow]
        BY <1>6 DEF UpdateStatus, FollowOpen
    <2>2. ~Open(c)'
        BY <1>2, <1>3, <1>4, <1>6 DEF Open
    <2> QED BY <1>1, <1>2, <1>3, <1>4, <2>1, <2>2 DEF TypeOK, Narrower, Open, RowInv
<1> QED BY <1>5, <1>6

\* A status write over an existing row keeps what is known of the rows.
LEMMA StatusKeepsRows ==
    ASSUME RowInv, Narrower, NEW c \in Command, NEW new \in {"sent", "failed", "acked"},
           \A d \in Command : d # c => status'[d] = status[d] /\ acked'[d] = acked[d],
           status'[c] = new, \A d \in Command : ~Open(d)' => age'[d] = 0,
           acking' \subseteq acking, acking \subseteq Command
    PROVE  RowInv'
<1>1. \A d \in Command : acked'[d] => status'[d] # "absent"
    BY DEF RowInv
<1>2. \A d \in acking' : status'[d] # "absent"
    BY DEF RowInv
<1>3. \A d \in Command : Open(d)' => by'[d] # NoCaller
    BY DEF RowInv, Narrower
<1> QED BY <1>1, <1>2, <1>3 DEF RowInv

\* The row that a request inserts is the youngest, and past its window of the
\* others of the same slot.
LEMMA InsertKeeps ==
    ASSUME TypeOK, DispatchInv, NEW r \in Caller, NEW c \in Command, Insert(r, c),
           rpc' \in [Caller -> ReqState], rpc'[r] # "create",
           \A s \in Caller \ {r} : rpc'[s] = rpc[s] /\ req'[s] = req[s], acking' = acking
    PROVE  RowInv' /\ CheckInv' /\ OnePerCaller' /\ AgeInv' /\ KeyOnce'
<1>1. /\ \A d \in Command \ {c} :
            /\ status'[d] = status[d] /\ acked'[d] = acked[d] /\ age'[d] = age[d]
            /\ by'[d] = by[d] /\ win'[d] = win[d] /\ device'[d] = device[d] /\ key'[d] = key[d]
      /\ status[c] = "absent" /\ ~acked[c] /\ ~Open(c)
    BY DEF TypeOK, Insert, DispatchInv, RowInv, Open
<1>2. /\ status'[c] = "queued" /\ acked'[c] = acked[c] /\ age'[c] = 0
      /\ by'[c] = r /\ win'[c] = req[r].window /\ device'[c] = req[r].device
      /\ key'[c] = req[r].key
    BY <1>1 DEF TypeOK, Insert, DispatchInv, RowInv
<1>3. \A d \in Command \ {c} : Open(d)' = Open(d)
    BY <1>1 DEF Open
<1>4. \A d \in Command \ {c} :
        Open(d) /\ by[d] = r /\ device[d] = req[r].device => age[d] > req[r].window
    <2>1. req[r].window \in Windows
        BY DEF TypeOK, Request
    <2>2. rpc[r] = "create" /\ CheckInv
        BY DEF Insert, DispatchInv
    <2> QED BY <2>1, <2>2, WindowTypes, AgeTypes DEF CheckInv, Pending
<1>5. req[r].window \in Nat /\ \A d \in Command : age[d] \in Nat /\ age'[d] \in Nat
    <2>1. req[r].window \in Windows
        BY DEF TypeOK, Request
    <2>2. \A d \in Command : age[d] \in Nat /\ age'[d] \in Nat
        BY <1>1, <1>2, AgeTypes
    <2> QED BY <2>1, <2>2, WindowTypes
<1>6. RowInv'
    <2>1. RowInv /\ r # NoCaller /\ (Open(c)' => by'[c] # NoCaller)
        BY <1>2, DispatchAssumption DEF DispatchAssumption, DispatchInv
    <2>2. \A d \in Command : acked'[d] => status'[d] # "absent"
        BY <1>1, <1>2, <2>1 DEF RowInv
    <2>3. \A d \in Command : ~Open(d)' => age'[d] = 0
        BY <1>1, <1>2, <1>3, <2>1 DEF RowInv
    <2>4. \A d \in Command : Open(d)' => by'[d] # NoCaller
        BY <1>1, <1>3, <2>1 DEF RowInv
    <2>5. \A d \in acking' : status'[d] # "absent"
        BY <1>1, <1>2, <2>1 DEF RowInv, TypeOK
    <2> QED BY <2>2, <2>3, <2>4, <2>5 DEF RowInv
<1>7. CheckInv'
    <2> SUFFICES ASSUME NEW s \in Caller, NEW d \in Command, rpc'[s] = "create", by'[d] = s
                 PROVE  ~Pending(s, d)'
        BY DEF CheckInv
    <2>1. s # r /\ d # c
        BY <1>2
    <2> QED BY <1>1, <1>3, <2>1 DEF DispatchInv, CheckInv, Pending
<1>8. OnePerCaller' /\ AgeInv'
    <2>1. ASSUME NEW d \in Command, NEW e \in Command, Open(d)', Open(e)', d # e,
                 by'[d] = by'[e], device'[d] = device'[e], age'[e] <= age'[d]
          PROVE  age'[d] > win'[e] /\ (age'[d] = age'[e] => age'[d] = MaxAge)
        <3>1. CASE d # c /\ e # c
            BY <1>1, <1>3, <2>1, <3>1 DEF DispatchInv, OnePerCaller, AgeInv
        <3>2. CASE e = c
            BY <1>1, <1>2, <1>3, <1>4, <1>5, <2>1, <3>2
        <3>3. CASE d = c
            BY <1>1, <1>2, <1>3, <1>4, <1>5, <2>1, <3>3
        <3> QED BY <3>1, <3>2, <3>3
    <2> QED BY <1>5, <2>1 DEF OnePerCaller, AgeInv
<1>9. KeyOnce'
    BY <1>1, <1>2 DEF DispatchInv, KeyOnce, KeyTaken, Insert, Rows
<1> QED BY <1>6, <1>7, <1>8, <1>9

LEMMA NextInv == TypeOK /\ DispatchInv /\ [Next]_vars => DispatchInv'
<1> SUFFICES ASSUME TypeOK, DispatchInv, [Next]_vars PROVE DispatchInv'
    OBVIOUS
<1>1. ASSUME UNCHANGED rowVars, acking' \subseteq acking, FewerCreate, HoldInv'
      PROVE  DispatchInv'
    <2>1. RowInv' /\ KeyOnce'
        BY <1>1 DEF rowVars, openVars, DispatchInv, RowInv, KeyOnce, Rows, Open
    <2> QED BY <1>1, <2>1, RowsKept, NarrowerKeeps, FewerKeeps DEF DispatchInv
<1>2. ASSUME NEW r \in Caller, Arrive(r) PROVE DispatchInv'
    <2>1. FewerCreate /\ HoldInv'
        BY <1>2 DEF TypeOK, Arrive, Goto, FewerCreate, DispatchInv, HoldInv, rowVars
    <2> QED BY <1>1, <1>2, <2>1 DEF Arrive
<1>3. ASSUME NEW r \in Caller, CheckPending(r) PROVE DispatchInv'
    <2>1. CASE Return(r)
        BY <1>1, <1>3, <2>1, ReturnFewer, ReturnHolds DEF CheckPending, rowVars
    <2>2. CASE ~Return(r)
        <3>1. /\ \A c \in Command : ~Pending(r, c)
              /\ Proceed(r, "create") /\ rpc[r] = "check" /\ UNCHANGED <<rowVars, acking>>
            BY <1>3, <2>2 DEF CheckPending
        <3>2. CheckInv'
            BY <3>1
            DEF TypeOK, Proceed, Goto, DispatchInv, CheckInv, Pending, Open, rowVars, openVars
        <3>3. HoldInv'
            BY <3>1 DEF TypeOK, Proceed, Goto, DispatchInv, HoldInv, rowVars
        <3>4. RowInv' /\ KeyOnce'
            BY <3>1 DEF rowVars, openVars, DispatchInv, RowInv, KeyOnce, Rows, Open
        <3> QED BY <3>1, <3>2, <3>3, <3>4, RowsKept, NarrowerKeeps DEF DispatchInv
    <2> QED BY <2>1, <2>2
<1>4. ASSUME NEW r \in Caller, NEW c \in Command, CreateCommand(r, c) PROVE DispatchInv'
    <2>1. /\ Insert(r, c) /\ rpc' = [rpc EXCEPT ![r] = "send"] /\ acking' = acking
          /\ rcmd' = [rcmd EXCEPT ![r] = c] /\ req' = [req EXCEPT ![r] = NoRequest]
        BY <1>4 DEF CreateCommand, Goto
    <2>2. rpc' \in [Caller -> ReqState]
        BY <2>1 DEF TypeOK, ReqState
    <2>3. RowInv' /\ CheckInv' /\ OnePerCaller' /\ AgeInv' /\ KeyOnce'
        BY <2>1, <2>2, InsertKeeps DEF TypeOK
    <2>4. HoldInv'
        BY <2>1, DispatchAssumption
        DEF DispatchAssumption, Insert, TypeOK, DispatchInv, HoldInv
    <2> QED BY <2>3, <2>4 DEF DispatchInv
<1>5. ASSUME NEW r \in Caller, CreateRejected(r) \/ CallRaises(r) PROVE DispatchInv'
    BY <1>1, <1>5, ReturnFewer, ReturnHolds DEF CreateRejected, CallRaises, rowVars
<1>6. ASSUME NEW r \in Caller, NEW c \in Command, CreateUnanswered(r, c) PROVE DispatchInv'
    <2>1. Insert(r, c) /\ Return(r) /\ acking' = acking
        BY <1>6 DEF CreateUnanswered
    <2>2. /\ rpc' \in [Caller -> ReqState] /\ rpc'[r] # "create"
          /\ \A s \in Caller \ {r} : rpc'[s] = rpc[s] /\ req'[s] = req[s]
        BY <2>1, ReturnType DEF TypeOK, Return, Goto
    <2>3. RowInv' /\ CheckInv' /\ OnePerCaller' /\ AgeInv' /\ KeyOnce'
        BY <2>1, <2>2, InsertKeeps
    <2>4. HoldInv'
        BY <2>1 DEF Return, Goto, Insert, TypeOK, DispatchInv, HoldInv
    <2> QED BY <2>3, <2>4 DEF DispatchInv
<1>7. ASSUME NEW r \in Caller, SendToDevice(r) PROVE DispatchInv'
    <2>1. UNCHANGED <<rowVars, acking>> /\ rpc[r] = "send"
        BY <1>7 DEF SendToDevice
    <2>2. CASE Return(r)
        BY <1>1, <2>1, <2>2, ReturnFewer, ReturnHolds DEF rowVars
    <2>3. ASSUME NEW outcome \in {"deliver", "fail"}, Proceed(r, outcome) PROVE DispatchInv'
        <3>1. FewerCreate
            BY <2>3 DEF TypeOK, Proceed, Goto, FewerCreate
        <3>2. HoldInv'
            BY <2>1, <2>3 DEF TypeOK, Proceed, Goto, DispatchInv, HoldInv, rowVars
        <3> QED BY <1>1, <2>1, <3>1, <3>2
    <2> QED BY <1>7, <2>2, <2>3 DEF SendToDevice
<1>8. ASSUME NEW r \in Caller, MarkSent(r) \/ MarkFailed(r) PROVE DispatchInv'
    <2>1. PICK new \in {"sent", "failed"} : UpdateStatus(rcmd[r], new)
        BY <1>8 DEF MarkSent, MarkFailed
    <2>2. Return(r) /\ UNCHANGED <<device, key, acking>> /\ rpc[r] \in {"deliver", "fail"}
        BY <1>8 DEF MarkSent, MarkFailed
    <2>3. rcmd[r] \in Command
        BY <2>2 DEF TypeOK, DispatchInv, HoldInv
    <2>4. status[rcmd[r]] = "queued" \/ (status[rcmd[r]] = "acked" /\ acked[rcmd[r]])
        BY <2>3, DispatchAssumption DEF DispatchAssumption, TypeOK, DispatchInv, HoldInv
    <2>5. status[rcmd[r]] # "absent" /\ (status[rcmd[r]] = "queued" \/ acked[rcmd[r]])
        BY <2>4
    <2>6. /\ Narrower
          /\ \A d \in Command : d # rcmd[r] => status'[d] = status[d] /\ acked'[d] = acked[d]
          /\ status'[rcmd[r]] = new
          /\ acked[rcmd[r]] <=> acked'[rcmd[r]]
          /\ \A d \in Command : ~Open(d)' => age'[d] = 0
        <3>1. DispatchInv => RowInv
            BY DEF DispatchInv
        <3> QED BY <2>1, <2>2, <2>3, <2>5, <3>1, UpdateNarrows
    <2>7. RowInv'
        <3>1. RowInv /\ acking' \subseteq acking /\ acking \subseteq Command
            BY <2>2 DEF DispatchInv, TypeOK
        <3>2. new \in {"sent", "failed", "acked"}
            BY <2>1
        <3> QED BY <2>3, <2>6, <3>1, <3>2, StatusKeepsRows
    <2>8. HoldInv'
        BY <2>2, <2>3, <2>6 DEF TypeOK, DispatchInv, HoldInv, Return, Goto
    <2>9. KeyOnce'
        BY <2>2, <2>3, <2>5, <2>6 DEF DispatchInv, KeyOnce, Rows
    <2> QED BY <2>2, <2>6, <2>7, <2>8, <2>9, NarrowerKeeps, FewerKeeps, ReturnFewer DEF DispatchInv
<1>9. ASSUME NEW c \in Command, AckRead(c) PROVE DispatchInv'
    <2>1. UNCHANGED <<rowVars, reqVars>> /\ acking' = acking \cup {c} /\ status[c] # "absent"
        BY <1>9 DEF AckRead
    <2>2. RowInv' /\ HoldInv' /\ KeyOnce' /\ FewerCreate
        BY <2>1
        DEF rowVars, reqVars, openVars, DispatchInv, RowInv, HoldInv, KeyOnce, Rows, Open, FewerCreate
    <2> QED BY <2>1, <2>2, RowsKept, NarrowerKeeps, FewerKeeps DEF DispatchInv
<1>10. ASSUME NEW c \in Command, AckWrite(c) PROVE DispatchInv'
    <2>1. /\ UpdateStatus(c, "acked") /\ UNCHANGED <<device, key, reqVars>>
          /\ acking' \subseteq acking /\ status[c] # "absent" /\ RowInv
        BY <1>10 DEF AckWrite, DispatchInv, RowInv
    <2>2. /\ Narrower
          /\ \A d \in Command : d # c => status'[d] = status[d] /\ acked'[d] = acked[d]
          /\ status'[c] = "acked"
          /\ acked'[c]
          /\ \A d \in Command : ~Open(d)' => age'[d] = 0
        BY <2>1, UpdateNarrows
    <2>3. RowInv'
        <3>1. acking \subseteq Command
            BY DEF TypeOK
        <3> QED BY <2>1, <2>2, <3>1, StatusKeepsRows
    <2>4. HoldInv'
        <3>1. rpc' = rpc /\ rcmd' = rcmd /\ (acked'[c] <=> TRUE)
            BY <2>1, <2>2 DEF reqVars
        <3>2. \A r \in Caller : rcmd[r] # NoCommand => rcmd[r] \in Command
            BY DEF TypeOK
        <3>3. \A r \in Caller : rcmd[r] # NoCommand =>
                 \/ status'[rcmd[r]] = "queued"
                 \/ status'[rcmd[r]] = "acked" /\ acked'[rcmd[r]]
            BY <2>2, <3>1, <3>2 DEF DispatchInv, HoldInv
        <3> QED BY <3>1, <3>3 DEF DispatchInv, HoldInv
    <2>6. FewerCreate
        BY <2>1 DEF reqVars, FewerCreate
    <2>5. KeyOnce'
        BY <2>1, <2>2 DEF DispatchInv, KeyOnce, Rows
    <2> QED BY <2>2, <2>3, <2>4, <2>5, <2>6, NarrowerKeeps, FewerKeeps DEF DispatchInv
<1>11. ASSUME NEW c \in Command, AckRaises(c) PROVE DispatchInv'
    <2>1. UNCHANGED <<rowVars, reqVars>> /\ acking' \subseteq acking
        BY <1>11 DEF AckRaises
    <2>2. HoldInv' /\ FewerCreate
        BY <2>1 DEF rowVars, reqVars, DispatchInv, HoldInv, FewerCreate
    <2> QED BY <1>1, <2>1, <2>2
<1>12. CASE Tick
    <2>1. UNCHANGED <<status, device, key, acked, by, win, rpc, req, rcmd, acking>>
        BY <1>12 DEF Tick, reqVars
    <2>2. \A c \in Command : Open(c)' = Open(c)
        BY <2>1 DEF Open
    <2>3. \A c \in Command :
            /\ age[c] \in Nat /\ age'[c] \in Nat /\ age[c] <= age'[c] /\ age[c] <= MaxAge
            /\ ~Open(c) => age'[c] = age[c]
            /\ Open(c) => age'[c] = (IF age[c] < MaxAge THEN age[c] + 1 ELSE MaxAge)
        BY <1>12, DispatchAssumption DEF DispatchAssumption, TypeOK, Tick
    <2>4. \A c \in Command : win[c] \in Nat /\ win[c] < MaxAge
        BY AgeTypes
    <2>5. OnePerCaller'
        BY <2>1, <2>2, <2>3, <2>4, DispatchAssumption
        DEF DispatchAssumption, DispatchInv, OnePerCaller
    <2>6. AgeInv'
        BY <2>1, <2>2, <2>3, DispatchAssumption DEF DispatchAssumption, DispatchInv, AgeInv
    <2>7. CheckInv'
        <3>1. \A r \in Caller : req[r].window \in Nat
            BY WindowTypes DEF TypeOK, Request
        <3> QED BY <2>1, <2>2, <2>3, <3>1 DEF DispatchInv, CheckInv, Pending
    <2>8. RowInv' /\ HoldInv' /\ KeyOnce'
        BY <2>1, <2>2, <2>3 DEF DispatchInv, RowInv, HoldInv, KeyOnce, Rows
    <2> QED BY <2>5, <2>6, <2>7, <2>8 DEF DispatchInv
<1>13. CASE Restart
    <2>1. FewerCreate /\ HoldInv'
        BY <1>13 DEF Restart, FewerCreate, HoldInv
    <2>2. UNCHANGED rowVars /\ acking' \subseteq acking
        BY <1>13 DEF Restart
    <2> QED BY <1>1, <2>1, <2>2
<1>14. CASE UNCHANGED vars
    BY <1>1, <1>14 DEF vars, reqVars, rowVars, FewerCreate, DispatchInv, HoldInv
<1> QED BY <1>2, <1>3, <1>4, <1>5, <1>6, <1>7, <1>8, <1>9, <1>10, <1>11, <1>12, <1>13, <1>14
        DEF Next, Serve

LEMMA InvCorrect == Spec => [](TypeOK /\ DispatchInv)
<1>1. Init => DispatchInv
    BY DEF Init, DispatchInv, RowInv, CheckInv, HoldInv, OnePerCaller, AgeInv, KeyOnce, Rows, Open
<1> QED BY <1>1, InitType, NextType, NextInv, PTL DEF Spec

\* Every reachable state of the table and of the requests is well typed.
THEOREM TypeCorrect == Spec => []TypeOK
BY InvCorrect, PTL

\* Of two commands of one slot that are open on a device, the older was outside
\* the block window of the request that made the younger (dispatcher.py:30-46),
\* whatever windows the requests bring and however many slots interleave.
THEOREM OnePerCallerCorrect == Spec => []OnePerCaller
<1>1. DispatchInv => OnePerCaller
    BY DEF DispatchInv
<1> QED BY <1>1, InvCorrect, PTL

\* However often the pending check is raced (dispatcher.py:30-46), a device has
\* at most as many open commands younger than every block window as requests
\* are served at once: each of them has a slot of its own.
THEOREM PendingBoundedCorrect == Spec => []PendingBounded
<1>1. TypeOK /\ RowInv /\ OnePerCaller => PendingBounded
    <2> SUFFICES ASSUME TypeOK, RowInv, OnePerCaller, NEW d \in Device
                 PROVE  Cardinality({c \in Command : Open(c) /\ device[c] = d /\ Recent(c)})
                            <= Cardinality(Caller)
        BY DEF PendingBounded
    <2> DEFINE P == {c \in Command : Open(c) /\ device[c] = d /\ Recent(c)}
               f == [c \in P |-> by[c]]
    <2>1. f \in [P -> Caller]
        BY DEF TypeOK, RowInv
    <2>2. \A c, e \in P : age[c] \in Nat /\ age[e] \in Nat /\ age[c] <= win[e] /\ win[e] \in Nat
        BY AgeTypes DEF Recent
    <2>3. \A c, e \in P : f[c] = f[e] => c = e
        BY <2>2 DEF OnePerCaller
    <2>4. f \in Injection(P, Caller)
        BY <2>1, <2>3 DEF Injection, IsInjective
    <2> HIDE DEF P, f
    <2>5. Cardinality(P) <= Cardinality(Caller)
        BY <2>4, FS_Injection, DispatchAssumption DEF DispatchAssumption
    <2> QED BY <2>5 DEF P
<1>2. DispatchInv => RowInv /\ OnePerCaller
    BY DEF DispatchInv
<1> QED BY <1>1, <1>2, InvCorrect, PTL

-----------------------------------------------------------------------------
(* Settled commands *)

\* The count is kept by induction for the configurations that retry at all.
OrphanInv == MaxRetries > 0 => IsFiniteSet(Orphans) /\ NoOrphan

LEMMA CountTypes ==
    ASSUME TypeOK
    PROVE  /\ faults \in Nat /\ crashes \in Nat /\ Cardinality(Caller) \in Nat
           /\ IsFiniteSet(Caller) /\ crashes * Cardinality(Caller) \in Nat
<1>1. IsFiniteSet(Caller) /\ Cardinality(Caller) \in Nat
    BY DispatchAssumption, FS_CardinalityType DEF DispatchAssumption
<1>2. faults \in Nat /\ crashes \in Nat
    BY DispatchAssumption DEF DispatchAssumption, TypeOK
<1> QED BY <1>1, <1>2

\* A step that orphans no row.
LEMMA NoneOrphaned ==
    ASSUME TypeOK, OrphanInv, MaxRetries > 0, Orphans' \subseteq Orphans,
           faults' = faults \/ faults' = faults + 1, crashes' = crashes
    PROVE  OrphanInv'
<1>1. IsFiniteSet(Orphans) /\ Cardinality(Orphans) <= faults + crashes * Cardinality(Caller)
    BY DEF OrphanInv, NoOrphan
<1>2. /\ IsFiniteSet(Orphans') /\ Cardinality(Orphans') <= Cardinality(Orphans)
      /\ Cardinality(Orphans) \in Nat /\ Cardinality(Orphans') \in Nat
    BY <1>1, FS_Subset, FS_CardinalityType
<1>3. Cardinality(Orphans') <= faults' + crashes' * Cardinality(Caller)
    BY <1>1, <1>2, CountTypes
<1> QED BY <1>2, <1>3 DEF OrphanInv, NoOrphan

\* A call that raised orphans at most the row of its request.
LEMMA OneOrphaned ==
    ASSUME TypeOK, OrphanInv, MaxRetries > 0, NEW c, Orphans' \subseteq Orphans \cup {c},
           faults' = faults + 1, crashes' = crashes
    PROVE  OrphanInv'
<1> DEFINE S == Orphans \cup {c}
<1>1. IsFiniteSet(Orphans) /\ Cardinality(Orphans) <= faults + crashes * Cardinality(Caller)
    BY DEF OrphanInv, NoOrphan
<1>2. IsFiniteSet(S) /\ Cardinality(S) <= Cardinality(Orphans) + 1 /\ Cardinality(Orphans) \in Nat
    <2>1. Cardinality(Orphans) \in Nat
        BY <1>1, FS_CardinalityType
    <2>2. IsFiniteSet(S) /\ Cardinality(S) =
            IF c \in Orphans THEN Cardinality(Orphans) ELSE Cardinality(Orphans) + 1
        BY <1>1, FS_AddElement
    <2> QED BY <2>1, <2>2
<1> HIDE DEF S
<1>3. Orphans' \subseteq S
    BY DEF S
<1>4. IsFiniteSet(Orphans') /\ Cardinality(Orphans') <= Cardinality(S)
    BY <1>2, <1>3, FS_Subset
<1>5. Cardinality(Orphans') \in Nat /\ Cardinality(S) \in Nat
    BY <1>2, <1>4, FS_CardinalityType
<1>6. Cardinality(Orphans') <= faults' + crashes' * Cardinality(Caller)
    BY <1>1, <1>2, <1>4, <1>5, CountTypes
<1> QED BY <1>4, <1>6 DEF OrphanInv, NoOrphan

\* A restart orphans at most the row of each request.
LEMMA RestartOrphans ==
    ASSUME TypeOK, OrphanInv, MaxRetries > 0, Restart
    PROVE  OrphanInv'
<1> DEFINE H == {rcmd[r] : r \in Caller}
           S == Orphans \cup H
<1>1. IsFiniteSet(Orphans) /\ Cardinality(Orphans) <= faults + crashes * Cardinality(Caller)
    BY DEF OrphanInv, NoOrphan
<1>2. IsFiniteSet(H) /\ Cardinality(H) <= Cardinality(Caller)
    <2> DEFINE f == [r \in Caller |-> rcmd[r]]
    <2>1. f \in Surjection(Caller, H)
        BY DEF Surjection
    <2> QED BY <2>1, CountTypes, FS_Surjection
<1>3. Orphans' \subseteq S
    BY DEF Orphans, Restart, rowVars
<1> HIDE DEF H
<1>4. IsFiniteSet(S) /\ Cardinality(S) <= Cardinality(Orphans) + Cardinality(H)
    <2>1. IsFiniteSet(Orphans \cap H) /\ Cardinality(Orphans \cap H) \in Nat
        BY <1>1, FS_Intersection, FS_CardinalityType
    <2>2. Cardinality(Orphans) \in Nat /\ Cardinality(H) \in Nat
        BY <1>1, <1>2, FS_CardinalityType
    <2>3. IsFiniteSet(S) /\ Cardinality(S) = Cardinality(Orphans) + Cardinality(H) - Cardinality(Orphans \cap H)
        BY <1>1, <1>2, FS_Union
    <2> QED BY <2>1, <2>2, <2>3
<1> HIDE DEF S
<1>5. IsFiniteSet(Orphans') /\ Cardinality(Orphans') <= Cardinality(S)
    BY <1>3, <1>4, FS_Subset
<1>6. /\ Cardinality(Orphans') \in Nat /\ Cardinality(S) \in Nat
      /\ Cardinality(H) \in Nat /\ Cardinality(Orphans) \in Nat
    BY <1>1, <1>2, <1>4, <1>5, FS_CardinalityType
<1>7. faults' = faults /\ crashes' = crashes + 1
    BY DEF Restart
<1>8. crashes' * Cardinality(Caller) = crashes * Cardinality(Caller) + Cardinality(Caller)
    BY <1>7, CountTypes
<1>9. Cardinality(Orphans') <= faults' + crashes' * Cardinality(Caller)
    BY <1>1, <1>2, <1>4, <1>5, <1>6, <1>7, <1>8, CountTypes
<1> QED BY <1>5, <1>9 DEF OrphanInv, NoOrphan

LEMMA NextOrphans == TypeOK /\ DispatchInv /\ OrphanInv /\ [Next]_vars => OrphanInv'
<1> SUFFICES ASSUME TypeOK, DispatchInv, OrphanInv, [Next]_vars, MaxRetries > 0 PROVE OrphanInv'
    BY DEF OrphanInv
<1> USE DEF failVars, rowVars, reqVars
<1>1. ASSUME NEW r \in Caller, Arrive(r) PROVE OrphanInv'
    <2>1. Orphans' \subseteq Orphans
        BY <1>1 DEF Arrive, Orphans
    <2> QED BY <1>1, <2>1, NoneOrphaned DEF Arrive
<1>2. ASSUME NEW r \in Caller, CheckPending(r) \/ CreateRejected(r) PROVE OrphanInv'
    <2>1. rcmd[r] = NoCommand
        BY <1>2 DEF CheckPending, CreateRejected, DispatchInv, HoldInv
    <2>2. Orphans' \subseteq Orphans
        BY <1>2, <2>1, DispatchAssumption
        DEF DispatchAssumption, TypeOK, CheckPending, CreateRejected, Return, Proceed, Orphans
    <2> QED BY <1>2, <2>2, NoneOrphaned DEF CheckPending, CreateRejected
<1>3. ASSUME NEW r \in Caller, NEW c \in Command, CreateCommand(r, c) PROVE OrphanInv'
    <2>1. rcmd[r] = NoCommand
        BY <1>3 DEF CreateCommand, Insert, DispatchInv, HoldInv
    <2>2. Orphans' \subseteq Orphans
        BY <1>3, <2>1, DispatchAssumption
        DEF DispatchAssumption, TypeOK, CreateCommand, Insert, Orphans
    <2> QED BY <1>3, <2>2, NoneOrphaned DEF CreateCommand
<1>4. ASSUME NEW r \in Caller, SendToDevice(r) PROVE OrphanInv'
    <2>1. rcmd' = rcmd /\ status' = status
        BY <1>4 DEF SendToDevice, Proceed
    <2>2. Orphans' \subseteq Orphans
        BY <2>1 DEF Orphans
    <2> QED BY <1>4, <2>2, NoneOrphaned DEF SendToDevice
<1>5. ASSUME NEW r \in Caller, MarkSent(r) \/ MarkFailed(r) PROVE OrphanInv'
    <2>1. rcmd[r] \in Command
        BY <1>5 DEF TypeOK, DispatchInv, HoldInv, MarkSent, MarkFailed
    <2>2. Orphans' \subseteq Orphans
        BY <1>5, <2>1 DEF TypeOK, MarkSent, MarkFailed, UpdateStatus, Return, Orphans
    <2> QED BY <1>5, <2>2, NoneOrphaned DEF MarkSent, MarkFailed
<1>6. ASSUME NEW r \in Caller, CallRaises(r) PROVE OrphanInv'
    <2>1. Orphans' \subseteq Orphans \cup {rcmd[r]}
        BY <1>6 DEF TypeOK, CallRaises, Return, Orphans
    <2> QED BY <1>6, <2>1, OneOrphaned DEF CallRaises, Fault
<1>7. ASSUME NEW r \in Caller, NEW c \in Command, CreateUnanswered(r, c) PROVE OrphanInv'
    <2>1. rcmd[r] = NoCommand
        BY <1>7 DEF CreateUnanswered, Insert, DispatchInv, HoldInv
    <2>2. Orphans' \subseteq Orphans \cup {c}
        BY <1>7, <2>1, DispatchAssumption
        DEF DispatchAssumption, TypeOK, CreateUnanswered, Insert, Return, Orphans
    <2> QED BY <1>7, <2>2, OneOrphaned DEF CreateUnanswered, Fault
<1>8. ASSUME NEW c \in Command, AckRead(c) \/ AckWrite(c) \/ AckRaises(c) PROVE OrphanInv'
    <2>1. Orphans' \subseteq Orphans
        BY <1>8 DEF TypeOK, AckRead, AckWrite, AckRaises, UpdateStatus, Orphans
    <2> QED BY <1>8, <2>1, NoneOrphaned DEF AckRead, AckWrite, AckRaises, Fault
<1>9. CASE Tick
    <2>1. Orphans' \subseteq Orphans
        BY <1>9 DEF Tick, Orphans
    <2> QED BY <1>9, <2>1, NoneOrphaned DEF Tick
<1>10. CASE Restart
    BY <1>10, RestartOrphans
<1>11. CASE UNCHANGED vars
    <2>1. Orphans' \subseteq Orphans
        BY <1>11 DEF vars, Orphans
    <2> QED BY <1>11, <2>1, NoneOrphaned DEF vars
<1> QED BY <1>1, <1>2, <1>3, <1>4, <1>5, <1>6, <1>7, <1>8, <1>9, <1>10, <1>11 DEF Next, Serve

\* Every row left "queued" for good is paid for by a repository call that raised
\* (dispatcher.py:38, :53 or :61) or by a request that a restart has ended.
THEOREM NoOrphanCorrect == Spec => []NoOrphan
<1>1. Init => OrphanInv
    <2> SUFFICES ASSUME Init PROVE IsFiniteSet(Orphans) /\ NoOrphan
        BY DEF OrphanInv
    <2>1. Orphans = {}
        BY DEF Init, Orphans
    <2>2. IsFiniteSet({}) /\ Cardinality({}) = 0
        BY FS_EmptySet
    <2>3. Cardinality(Caller) \in Nat
        BY DispatchAssumption, FS_CardinalityType DEF DispatchAssumption
    <2> QED BY <2>1, <2>2, <2>3 DEF NoOrphan, Init
<1>2. OrphanInv => NoOrphan
    BY DEF OrphanInv, NoOrphan
<1> QED BY <1>1, <1>2, InvCorrect, NextOrphans, PTL DEF Spec

\* An acknowledged command stays acknowledged once its dispatcher is done.
THEOREM AckSticksCorrect == Spec => AckSticks
<1>1. ASSUME TypeOK, DispatchInv, [Next]_vars, NEW c \in Command,
             status[c] = "acked", \A r \in Caller : rcmd[r] # c
      PROVE  status'[c] = "acked"
    <2> USE <1>1, DispatchAssumption DEF DispatchAssumption, TypeOK, DispatchInv, RowInv, HoldInv, rowVars, reqVars
    <2>1. ASSUME NEW r \in Caller, Arrive(r) \/ Serve(r) PROVE status'[c] = "acked"
        <3>1. CASE Arrive(r) \/ CheckPending(r) \/ CreateRejected(r) \/ SendToDevice(r) \/ CallRaises(r)
            BY <3>1 DEF Arrive, CheckPending, CreateRejected, SendToDevice, CallRaises
        <3>2. ASSUME NEW d \in Command, Insert(r, d) PROVE status'[c] = "acked"
            BY <3>2 DEF Insert
        <3>3. CASE MarkSent(r) \/ MarkFailed(r)
            BY <3>3 DEF MarkSent, MarkFailed, UpdateStatus
        <3> QED BY <2>1, <3>1, <3>2, <3>3 DEF Serve, CreateCommand, CreateUnanswered
    <2>2. ASSUME NEW d \in Command, AckRead(d) \/ AckWrite(d) \/ AckRaises(d)
          PROVE  status'[c] = "acked"
        BY <2>2 DEF AckRead, AckWrite, AckRaises, UpdateStatus
    <2>3. CASE Tick \/ Restart \/ UNCHANGED vars
        BY <2>3 DEF Tick, Restart, vars
    <2> QED BY <2>1, <2>2, <2>3 DEF Next
<1>2. TypeOK /\ DispatchInv /\ [Next]_vars =>
        [\A c \in Command :
            status[c] = "acked" /\ (\A r \in Caller : rcmd[r] # c) => status'[c] = "acked"]_vars
    BY <1>1
<1> QED BY <1>2, InvCorrect, PTL DEF Spec, AckSticks

-----------------------------------------------------------------------------
(* The table, its requests and the acknowledgements implement CommandLedger *)

\* The step relation of the ledger, with the mapped variables spelled out.
LedgerStep == [Ledger!Next]_(Ledger!vars)

\* A step that keeps the rows is a stutter of the ledger.
LEMMA KeepTable ==
    ASSUME UNCHANGED <<status, acked, device, key>>
    PROVE  LedgerStep
BY DEF LedgerStep, Ledger!vars, PhaseOf, Open

\* A status written over an existing row leaves it open, settles it, or finds it
\* settled and leaves it so.
LEMMA UpdateRow ==
    ASSUME TypeOK, NEW c \in Command, NEW new \in {"sent", "failed", "acked"},
           status[c] # "absent", new = "sent" => status[c] = "queued" \/ acked[c],
           UpdateStatus(c, new), UNCHANGED <<device, key>>
    PROVE  LedgerStep
<1>1. \A d \in Command \ {c} : PhaseOf(d)' = PhaseOf(d)
    BY DEF TypeOK, UpdateStatus, PhaseOf, Open
<1>2. status'[c] = new
    BY DEF TypeOK, UpdateStatus
<1>3. acked'[c] = (acked[c] \/ new = "acked")
    BY Zenon DEF TypeOK, UpdateStatus
<1>4. acked[c] \in BOOLEAN
    BY DEF TypeOK
<1>5. CASE Open(c) /\ new # "sent"
    <2>1. PhaseOf(c) = "open" /\ PhaseOf(c)' = "settled"
        BY <1>2, <1>3, <1>4, <1>5 DEF PhaseOf, Open
    <2>2. Ledger!Settle(c)
        BY <1>1, <2>1 DEF Ledger!Settle
    <2> QED BY <2>2 DEF LedgerStep, Ledger!Next
<1>6. CASE ~Open(c) \/ new = "sent"
    <2>1. PhaseOf(c)' = PhaseOf(c)
        BY <1>2, <1>3, <1>4, <1>6 DEF PhaseOf, Open
    <2>2. [d \in Command |-> PhaseOf(d)'] = [d \in Command |-> PhaseOf(d)]
        BY <1>1, <2>1
    <2> QED BY <2>2 DEF LedgerStep, Ledger!vars
<1> QED BY <1>5, <1>6

\* An INSERT that the unique constraint accepts issues a command.
LEMMA InsertRow ==
    ASSUME TypeOK, DispatchInv, NEW r \in Caller, NEW c \in Command, Insert(r, c)
    PROVE  LedgerStep
<1>1. PhaseOf(c) = "none" /\ ~acked[c]
    BY DEF TypeOK, Insert, DispatchInv, RowInv, PhaseOf, Open
<1>2. PhaseOf(c)' = "open"
    BY <1>1 DEF TypeOK, Insert, PhaseOf, Open
<1>3. \A d \in Command \ {c} : PhaseOf(d)' = PhaseOf(d)
    BY DEF TypeOK, Insert, PhaseOf, Open
<1>4. \A d \in Command : status[d] # "absent" <=> PhaseOf(d) # "none"
    BY DEF PhaseOf, Open
<1>5. ~Ledger!Used(req[r].key, req[r].device)
    BY <1>4 DEF Insert, KeyTaken, Ledger!Used
<1>6. req[r].device \in Device /\ req[r].key \in Key \cup {NoKey}
    BY DEF TypeOK, Request
<1>7. [d \in Command |-> PhaseOf(d)'] = [[d \in Command |-> PhaseOf(d)] EXCEPT ![c] = "open"]
    BY <1>2, <1>3
<1>8. Ledger!Issue(c)
    BY <1>1, <1>5, <1>6, <1>7 DEF Ledger!Issue, Insert
<1> QED BY <1>8 DEF LedgerStep, Ledger!Next

LEMMA NextLedgerStep ==
    ASSUME TypeOK, DispatchInv, [Next]_vars
    PROVE  LedgerStep
<1> USE DEF rowVars, reqVars
<1>1. ASSUME NEW r \in Caller, Arrive(r) PROVE LedgerStep
    BY <1>1, KeepTable DEF Arrive
<1>2. ASSUME NEW r \in Caller, Serve(r) PROVE LedgerStep
    <2>1. CASE CheckPending(r) \/ CreateRejected(r) \/ SendToDevice(r) \/ CallRaises(r)
        BY <2>1, KeepTable DEF CheckPending, CreateRejected, SendToDevice, CallRaises
    <2>2. ASSUME NEW c \in Command, Insert(r, c) PROVE LedgerStep
        BY <2>2, InsertRow
    <2>3. CASE MarkSent(r) \/ MarkFailed(r)
        <3>1. rcmd[r] # NoCommand /\ rcmd[r] \in Command
            BY <2>3 DEF TypeOK, DispatchInv, HoldInv, MarkSent, MarkFailed
        <3>2. \/ status[rcmd[r]] = "queued"
              \/ status[rcmd[r]] = "acked" /\ acked[rcmd[r]]
            BY <3>1, Zenon DEF DispatchInv, HoldInv
        <3> status[rcmd[r]] # "absent" /\ (status[rcmd[r]] = "queued" \/ acked[rcmd[r]])
            BY <3>2
        <3>3. CASE MarkSent(r)
            <4>1. UpdateStatus(rcmd[r], "sent") /\ UNCHANGED <<device, key>>
                BY <3>3 DEF MarkSent
            <4> QED BY <3>1, <3>2, <4>1, UpdateRow
        <3>4. CASE MarkFailed(r)
            <4>1. UpdateStatus(rcmd[r], "failed") /\ UNCHANGED <<device, key>>
                BY <3>4 DEF MarkFailed
            <4> QED BY <3>1, <3>2, <4>1, UpdateRow
        <3> QED BY <2>3, <3>3, <3>4
    <2> QED BY <1>2, <2>1, <2>2, <2>3 DEF Serve, CreateCommand, CreateUnanswered
<1>3. ASSUME NEW c \in Command, AckRead(c) \/ AckRaises(c) PROVE LedgerStep
    BY <1>3, KeepTable DEF AckRead, AckRaises
<1>4. ASSUME NEW c \in Command, AckWrite(c) PROVE LedgerStep
    <2>1. status[c] # "absent" /\ UpdateStatus(c, "acked") /\ UNCHANGED <<device, key>>
        BY <1>4 DEF AckWrite, DispatchInv, RowInv
    <2> QED BY <2>1, UpdateRow
<1>5. CASE Tick \/ Restart \/ UNCHANGED vars
    BY <1>5, KeepTable DEF Tick, Restart, vars
<1> QED BY <1>1, <1>2, <1>3, <1>4, <1>5 DEF Next

\* With all their interleavings and restarts, the requests and the
\* acknowledgements implement CommandLedger: a key issues one command
\* (repository.py:462) and no late status write reopens a settled one
\* (repository.py:482-502).
THEOREM ImplementsLedgerCorrect == Spec => ImplementsLedger
<1>1. ASSUME Init PROVE Ledger!Init
    <2>1. \A c \in Command : PhaseOf(c) = "none"
        BY <1>1 DEF Init, PhaseOf, Open
    <2>2. [c \in Command |-> PhaseOf(c)] = [c \in Command |-> "none"]
        BY <2>1
    <2>3. device \in [Command -> Device] /\ key = [c \in Command |-> NoKey]
        BY <1>1, Defaults DEF Init
    <2> QED BY <2>2, <2>3 DEF Ledger!Init
<1>2. TypeOK /\ DispatchInv /\ [Next]_vars => [Ledger!Next]_(Ledger!vars)
    BY NextLedgerStep DEF LedgerStep
<1> QED BY <1>1, <1>2, InvCorrect, PTL DEF Spec, ImplementsLedger, Ledger!Spec
=============================================================================
