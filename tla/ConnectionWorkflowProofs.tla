---------------------- MODULE ConnectionWorkflowProofs ----------------------
(* What the connection workflow guarantees for every set of units, every    *)
(* capacity, every retry and history bound, and every number of requests    *)
(* and mishaps.                                                             *)
EXTENDS ConnectionWorkflow, FiniteSetTheorems, WellFoundedInduction, TLAPS

(* A non-empty set of unit ids has a first one.                             *)
LEMMA Least ==
    ASSUME NEW T \in SUBSET Nat, T # {}
    PROVE  \E x \in T : \A y \in T : x <= y
<1>1. PICK x \in T : \A y \in T : ~ (<<y, x>> \in OpToRel(<, Nat))
  BY WFMin, NatLessThanWellFounded, Zenon
<1>2. \A y \in T : ~ (y < x)
  BY <1>1, Zenon DEF OpToRel
<1> QED
  BY <1>2

(* LIMIT n returns at most n ids, and none for a negative n.                *)
LEMMA FirstBounded ==
    ASSUME NEW S \in SUBSET Units, NEW n \in Int
    PROVE  /\ First(n, S) \subseteq S
           /\ IsFiniteSet(First(n, S))
           /\ Cardinality(First(n, S)) \in Nat
           /\ Cardinality(First(n, S)) <= (IF n > 0 THEN n ELSE 0)
<1> DEFINE Below(u) == {v \in S : v < u}
           f == [u \in First(n, S) |-> Cardinality(Below(u))]
<1>1. IsFiniteSet(S)
  BY UnitsAssumption, FS_Subset, Zenon
<1>2. \A u \in S : IsFiniteSet(Below(u)) /\ Cardinality(Below(u)) \in Nat
  BY <1>1, FS_Subset, FS_CardinalityType
<1>3. \A u, w \in S : u < w => Cardinality(Below(u)) # Cardinality(Below(w))
  <2> SUFFICES ASSUME NEW u \in S, NEW w \in S, u < w
               PROVE  Cardinality(Below(u)) # Cardinality(Below(w))
    OBVIOUS
  <2>1. S \subseteq Nat
    BY UnitsAssumption
  <2>2. Below(u) \subseteq Below(w) /\ u \in Below(w) /\ u \notin Below(u)
    <3>1. u \in Nat /\ w \in Nat /\ \A v \in S : v \in Nat
      BY <2>1
    <3>2. \A v \in S : v < u => v < w
      BY <3>1
    <3>3. ~ (u < u)
      BY <3>1
    <3> QED
      BY <3>2, <3>3
  <2>3. IsFiniteSet(Below(w))
    BY <1>2
  <2> HIDE DEF Below
  <2> QED
    BY <2>2, <2>3, FS_Subset
<1>4. First(n, S) \subseteq S
  BY DEF First
<1>5. f \in Injection(First(n, S), 0..(n - 1))
  <2>1. \A u \in First(n, S) : Cardinality(Below(u)) \in 0..(n - 1)
    <3>1. \A u \in First(n, S) : u \in S /\ Cardinality(Below(u)) < n
      BY DEF First
    <3> HIDE DEF Below
    <3> QED
      BY <1>2, <3>1
  <2>2. \A u, w \in First(n, S) : u # w => Cardinality(Below(u)) # Cardinality(Below(w))
    <3>1. \A u, w \in First(n, S) : u # w => u < w \/ w < u
      <4>1. \A u \in First(n, S) : u \in Nat
        BY <1>4, UnitsAssumption, Zenon
      <4> QED
        BY <4>1
    <3> HIDE DEF Below
    <3> QED
      BY <1>3, <1>4, <3>1
  <2> HIDE DEF Below
  <2> QED
    BY <2>1, <2>2 DEF Injection, IsInjective
<1>6. IsFiniteSet(0..(n - 1)) /\ Cardinality(0..(n - 1)) = IF n > 0 THEN n ELSE 0
  BY FS_Interval
<1> HIDE DEF f
<1>7. IsFiniteSet(First(n, S)) /\ Cardinality(First(n, S)) <= Cardinality(0..(n - 1))
  BY <1>5, <1>6, FS_Injection
<1>8. Cardinality(First(n, S)) \in Nat
  BY <1>7, FS_CardinalityType
<1> QED
  BY <1>4, <1>6, <1>7, <1>8

(* LIMIT n drops an id only when it returns n others.                       *)
LEMMA FirstFull ==
    ASSUME NEW S \in SUBSET Units, NEW n \in Nat, First(n, S) # S
    PROVE  Cardinality(First(n, S)) >= n
<1>1. S \ First(n, S) # {} /\ S \ First(n, S) \in SUBSET Nat /\ S \subseteq Nat
  BY UnitsAssumption, Zenon DEF First
<1>2. PICK u \in S \ First(n, S) : \A w \in S \ First(n, S) : u <= w
  BY <1>1, Least, Zenon
<1> DEFINE B == {v \in S : v < u}
<1>3. B \subseteq First(n, S)
  <2> SUFFICES ASSUME NEW v \in B PROVE v \in First(n, S)
    OBVIOUS
  <2>1. v \in S /\ v < u
    OBVIOUS
  <2> QED
    BY <2>1, <1>1, <1>2
<1>4. IsFiniteSet(First(n, S)) /\ Cardinality(First(n, S)) \in Nat
  BY FirstBounded
<1>5. IsFiniteSet(B) /\ Cardinality(B) <= Cardinality(First(n, S)) /\ Cardinality(B) \in Nat
  BY <1>3, <1>4, FS_Subset, FS_CardinalityType
<1>6. ~ (Cardinality(B) < n)
  BY <1>2 DEF First
<1> QED
  BY <1>4, <1>5, <1>6
-----------------------------------------------------------------------------
(* Types.                                                                   *)

(* The rollup of the unit counts is a status.                               *)
LEMMA SettleStatusType ==
    ASSUME NEW total, NEW errored, NEW uncommitted
    PROVE  settleStatus(total, errored, uncommitted) \in ConnStatuses
BY DEF settleStatus, ConnStatuses

(* Fresh locals and an empty signal queue have their types.                 *)
LEMMA FreshTypes ==
    ASSUME NEW midRun \in BOOLEAN
    PROVE  /\ FreshLocals(midRun) \in Locals
           /\ NoSignals \in [SignalNames -> Nat]
BY BoundsAssumption DEF FreshLocals, NoSignals, Locals, ConnStatuses

(* The RPCs and the signals they send keep the types.                       *)
LEMMA UserType ==
    ASSUME TypeOK, User \/ (\E s \in SignalNames : SendSignal(s) \/ SignalFails(s))
    PROVE  TypeOK'
<1> USE DEF rows, execution, activities, budgets
<1>1. \A s \in SignalNames : Deliver(s) =>
        /\ pc' \in Places
        /\ local' \in Locals
        /\ inFlight' \in SUBSET Units
        /\ signals' \in [SignalNames -> Nat]
  <2> SUFFICES ASSUME NEW s \in SignalNames, Deliver(s)
               PROVE  /\ pc' \in Places /\ local' \in Locals
                      /\ inFlight' \in SUBSET Units /\ signals' \in [SignalNames -> Nat]
    OBVIOUS
  <2>1. CASE pc # "none"
    <3>1. UNCHANGED <<pc, local, inFlight>> /\ signals' = [signals EXCEPT ![s] = @ + 1]
      BY <2>1, Zenon DEF Deliver
    <3> QED
      BY <3>1 DEF TypeOK
  <2>2. CASE pc = "none" /\ s \in Restarting
    <3>1. /\ pc' = "schedule" /\ local' = FreshLocals(FALSE)
          /\ signals' = [NoSignals EXCEPT ![s] = 1] /\ UNCHANGED inFlight
      BY <2>2, Zenon DEF Deliver
    <3> QED
      BY <3>1, FreshTypes, Zenon DEF TypeOK, Places
  <2>3. CASE pc = "none" /\ s \notin Restarting
    BY <2>3, Zenon DEF Deliver, TypeOK
  <2> QED
    BY <2>1, <2>2, <2>3
<1>2. CASE TriggerSync
  BY <1>1, <1>2, BoundsAssumption DEF TypeOK, TriggerSync, Request, SignalNames
<1>3. CASE StopSync
  BY <1>1, <1>3, BoundsAssumption DEF TypeOK, StopSync, Request, SignalNames
<1>4. CASE ListProjects
  BY <1>1, <1>4, BoundsAssumption DEF TypeOK, ListProjects, Request, SignalNames
<1>5. CASE Disconnect
  <2>1. conn' \in ConnRow
    BY <1>5, Zenon DEF TypeOK, ConnRow, Disconnect, ConnStatuses
  <2> QED
    BY <1>5, <2>1, BoundsAssumption DEF TypeOK, Disconnect, Request, SignalNames
<1>6. CASE CompleteConnection
  <2>1. conn' \in ConnRow /\ hist' \in History
    BY <1>6, Zenon DEF TypeOK, ConnRow, History, CompleteConnection, ConnStatuses
  <2> QED
    BY <1>6, <2>1, BoundsAssumption DEF TypeOK, CompleteConnection, Request, SignalNames
<1>7. CASE \E chosen \in SUBSET Units : SetProjectSelection(chosen)
  <2>1. PICK chosen \in SUBSET Units : SetProjectSelection(chosen)
    BY <1>7
  <2>2. unit' \in [Units -> UnitRow]
    <3>1. \A u \in Units, b \in BOOLEAN : [unit[u] EXCEPT !.selected = b] \in UnitRow
      BY DEF TypeOK, UnitRow
    <3>2. \A u \in Units : unit[u].selected \in BOOLEAN /\ (u \in chosen) \in BOOLEAN
      BY DEF TypeOK, UnitRow
    <3> QED
      BY <2>1, <3>1, <3>2, Zenon DEF SetProjectSelection
  <2> QED
    BY <2>1, <2>2, BoundsAssumption DEF TypeOK, SetProjectSelection, Request, SignalNames
<1>8. CASE \E enabled \in BOOLEAN : UpdateSyncSchedule(enabled)
  BY <1>8, BoundsAssumption DEF TypeOK, ConnRow, UpdateSyncSchedule, Request, SignalNames
<1>9. CASE \E s \in SignalNames : SendSignal(s)
  BY <1>1, <1>9 DEF TypeOK, SendSignal
<1>10. CASE \E s \in SignalNames : SignalFails(s)
  BY <1>10, BoundsAssumption DEF TypeOK, SignalFails, Mishap
<1> QED
  BY <1>2, <1>3, <1>4, <1>5, <1>6, <1>7, <1>8, <1>9, <1>10, SMTT(30) DEF User

(* Closing an execution, or continuing it as new, keeps the types.          *)
LEMMA CloseType ==
    ASSUME TypeOK, Close
    PROVE  /\ pc' \in Places /\ local' \in Locals /\ inFlight' \in SUBSET Units
           /\ signals' \in [SignalNames -> Nat] /\ act' \in [Units -> Activity]
           /\ orphan' \in SUBSET Units /\ hist' \in History
<1>1. NoActivity \in Activity
  BY BoundsAssumption DEF NoActivity, Activity
<1>2. hist' \in History
  BY Zenon DEF TypeOK, Close, History
<1> QED
  BY <1>1, <1>2, FreshTypes, Zenon DEF TypeOK, Close, Places

(* A continue-as-new leaves a well-typed execution.                         *)
LEMMA ContinueAsNewType ==
    ASSUME NEW midRun \in BOOLEAN, ContinueAsNew(midRun)
    PROVE  pc' \in Places /\ local' \in Locals /\ signals' \in [SignalNames -> Nat]
BY FreshTypes DEF ContinueAsNew, Places

(* The idle loop keeps the types.                                           *)
LEMMA IdleType ==
    ASSUME TypeOK, ReadSchedule \/ TimerFires \/ \E s \in SignalNames : ReceiveIdle(s)
    PROVE  TypeOK'
<1> USE DEF rows, activities, budgets
<1>1. CASE ReadSchedule
  <2>1. local' \in Locals
    BY <1>1, Zenon DEF TypeOK, ReadSchedule, Locals, ConnRow
  <2>2. mishaps' \in 0..MaxMishaps
    BY <1>1, BoundsAssumption DEF TypeOK, ReadSchedule, Mishap
  <2> QED
    BY <1>1, <2>1, <2>2 DEF TypeOK, ReadSchedule, Places
<1>2. CASE TimerFires
  BY <1>2 DEF TypeOK, TimerFires, Places
<1>3. ASSUME NEW s \in SignalNames, ReceiveIdle(s)
      PROVE  TypeOK'
  <2>1. CASE s = "disconnect"
    BY <1>3, <2>1, CloseType DEF TypeOK, ReceiveIdle
  <2>2. CASE s # "disconnect"
    <3>1. pc' \in {"startRun", "refresh", "schedule"}
      BY <1>3, <2>2 DEF ReceiveIdle
    <3>2. signals' \in [SignalNames -> Nat]
      BY <1>3, <2>2 DEF ReceiveIdle, TypeOK
    <3> QED
      BY <1>3, <2>2, <3>1, <3>2 DEF TypeOK, ReceiveIdle, Places
  <2> QED
    BY <2>1, <2>2
<1> QED
  BY <1>1, <1>2, <1>3

(* StartRun and DiscoverUnits keep the types.                               *)
LEMMA HeadType ==
    ASSUME TypeOK,
           \/ StartRun \/ DiscoverLoad \/ DiscoverAuth
           \/ \E observed \in Observations : DiscoverUnits(observed)
    PROVE  TypeOK'
<1> USE DEF rows, activities, budgets
<1>1. \A u \in Units, s \in UnitStatuses : [unit[u] EXCEPT !.status = s] \in UnitRow
  BY DEF TypeOK, UnitRow
<1>2. \A s \in ConnStatuses : [conn EXCEPT !.status = s] \in ConnRow
  BY DEF TypeOK, ConnRow
<1>3. conn.status \in ConnStatuses /\ local.seen \in ConnStatuses /\ local.midRun \in BOOLEAN
  BY DEF TypeOK, ConnRow, Locals
<1>4. DiscoveryFails => /\ pc' \in Places /\ local' \in Locals /\ inFlight' \in SUBSET Units
                        /\ signals' \in [SignalNames -> Nat] /\ act' \in [Units -> Activity]
                        /\ orphan' \in SUBSET Units /\ hist' \in History
  BY CloseType DEF TypeOK, DiscoveryFails, Places
<1>5. CASE StartRun
  <2>1. unit' \in [Units -> UnitRow]
    BY <1>1, <1>5, Zenon DEF TypeOK, StartRun, Rearmed, UnitStatuses
  <2>2. CASE conn.deleted
    BY <1>5, <2>1, <2>2, CloseType DEF TypeOK, StartRun
  <2>3. CASE ~conn.deleted
    <3>1. conn' \in ConnRow
      BY <1>2, <1>3, <1>5, <2>3 DEF StartRun, ConnStatuses
    <3>2. hist' \in History
      BY <1>5, <2>3 DEF StartRun, TypeOK, History
    <3> QED
      BY <1>3, <1>5, <2>1, <2>3, <3>1, <3>2, FreshTypes DEF TypeOK, StartRun, Places
  <2> QED
    BY <2>2, <2>3
<1>6. CASE DiscoverLoad
  <2>1. CASE conn.deleted
    BY <1>4, <1>6, <2>1 DEF TypeOK, DiscoverLoad
  <2>2. CASE ~conn.deleted
    <3>1. local' \in Locals
      BY <1>3, <1>6, <2>2 DEF TypeOK, DiscoverLoad, Locals
    <3> QED
      BY <1>6, <2>2, <3>1 DEF TypeOK, DiscoverLoad, Places
  <2> QED
    BY <2>1, <2>2
<1>7. CASE DiscoverAuth
  <2>1. conn' \in ConnRow
    BY <1>2, <1>7 DEF DiscoverAuth, ConnStatuses
  <2> QED
    BY <1>4, <1>7, <2>1, BoundsAssumption DEF TypeOK, DiscoverAuth, Mishap
<1>8. ASSUME NEW observed \in Observations, DiscoverUnits(observed)
      PROVE  TypeOK'
  <2>1. \A u \in Units : Marked(u, observed) \in UnitRow
    BY Zenon DEF TypeOK, Marked, UnitRow, UnitStatuses
  <2>2. \A u \in Units : Swept(u, observed) \in UnitRow
    BY <1>1, <2>1, Zenon DEF Swept, UnitStatuses
  <2>3. unit' \in [Units -> UnitRow] /\ conn' \in ConnRow
    BY <1>2, <1>3, <1>8, <2>1, <2>2 DEF TypeOK, DiscoverUnits
  <2> QED
    BY <1>8, <2>3 DEF TypeOK, DiscoverUnits, Places
<1> QED
  BY <1>5, <1>6, <1>7, <1>8
(* The drain keeps the types.                                               *)
LEMMA DrainType ==
    ASSUME TypeOK, Refill \/ NextUnitBatch \/ \E u \in Units : Complete(u)
    PROVE  TypeOK'
<1> USE DEF rows, activities, budgets
<1>1. \A pool : AfterRefill(pool) \in Places
  BY DEF AfterRefill, Places
<1>2. CASE Refill
  <2>1. local' \in Locals /\ pc' \in Places
    BY <1>1, <1>2 DEF TypeOK, Refill, Locals, Places
  <2> QED
    BY <1>2, <2>1 DEF TypeOK, Refill
<1>3. CASE NextUnitBatch
  <2>1. ToLaunch \subseteq Units
    BY DEF ToLaunch, First, Pending
  <2>2. act' \in [Units -> Activity]
    <3>1. [at |-> "queued", attempt |-> 1] \in Activity
      BY BoundsAssumption DEF Activity
    <3> QED
      BY <1>3, <3>1 DEF TypeOK, NextUnitBatch
  <2>3. pc' \in Places
    BY <1>1, <1>3 DEF NextUnitBatch, Places
  <2> QED
    BY <1>3, <2>1, <2>2, <2>3 DEF TypeOK, NextUnitBatch
<1>4. ASSUME NEW u \in Units, Complete(u)
      PROVE  TypeOK'
  <2>1. act' \in [Units -> Activity]
    <3>1. NoActivity \in Activity
      BY BoundsAssumption DEF NoActivity, Activity
    <3> QED
      BY <1>4, <3>1, Zenon DEF TypeOK, Complete
  <2>2. hist' \in History
    BY <1>4, Zenon DEF TypeOK, Complete, History
  <2>3. pc' \in Places /\ local' \in Locals /\ signals' \in [SignalNames -> Nat]
    <3> DEFINE n == IF local.processed < ContinueAsNewUnits
                    THEN local.processed + 1 ELSE local.processed
    <3>1. n \in 0..ContinueAsNewUnits
      BY BoundsAssumption DEF TypeOK, Locals
    <3>2. Drained \in Locals
      BY Zenon DEF TypeOK, Locals, Drained
    <3>3. \A c \in BOOLEAN : [Drained EXCEPT !.processed = n, !.canStop = c] \in Locals
      <4> HIDE DEF n
      <4> QED
        BY <3>1, <3>2, Zenon DEF Locals
    <3>4. \A slow \in BOOLEAN : (local.canStop \/ HistoryBound(n, slow)) \in BOOLEAN
      BY DEF HistoryBound
    <3>5. \/ ContinueAsNew(TRUE)
          \/ /\ \E c \in BOOLEAN : local' = [Drained EXCEPT !.processed = n, !.canStop = c]
             /\ pc' = "refill"
             /\ signals' = NoSignals
      <4> HIDE DEF n
      <4>1. PICK slow \in (IF RuntimeBound THEN BOOLEAN ELSE {FALSE}) :
              \/ ContinueAsNew(TRUE)
              \/ /\ local' = [Drained EXCEPT !.processed = n,
                                !.canStop = local.canStop \/ HistoryBound(n, slow)]
                 /\ pc' = "refill"
                 /\ signals' = NoSignals
        BY <1>4, Zenon DEF Complete, n
      <4> QED
        BY <3>4, <4>1, Zenon
    <3> QED
      BY <3>3, <3>5, ContinueAsNewType, FreshTypes, Zenon DEF Places
  <2> QED
    BY <1>4, <2>1, <2>2, <2>3, Zenon DEF TypeOK, Complete
<1> QED
  BY <1>2, <1>3, <1>4

(* Settling a run, or failing to, keeps the types.                          *)
LEMMA SettleType ==
    ASSUME TypeOK, SettleLoad \/ SettleWrite \/ ControlFails
    PROVE  TypeOK'
<1> USE DEF rows, activities, budgets
<1>1. conn.status \in ConnStatuses /\ local.verdict \in ConnStatuses
  BY DEF TypeOK, ConnRow, Locals
<1>2. CASE SettleLoad
  <2>1. CASE conn.deleted
    BY <1>2, <2>1, CloseType DEF TypeOK, SettleLoad
  <2>2. CASE ~conn.deleted
    <3>1. local' \in Locals
      <4>1. \A a, b \in ConnStatuses : [local EXCEPT !.seen = a, !.verdict = b] \in Locals
        BY Zenon DEF TypeOK, Locals
      <4>2. PICK v \in ConnStatuses :
              local' = [local EXCEPT !.seen = conn.status, !.verdict = v]
        BY <1>2, <2>2, SettleStatusType, Zenon DEF SettleLoad
      <4> QED
        BY <1>1, <4>1, <4>2, Zenon
    <3> QED
      BY <1>2, <2>2, <3>1 DEF TypeOK, SettleLoad, Places
  <2> QED
    BY <2>1, <2>2
<1>3. CASE SettleWrite
  <2>1. conn' \in ConnRow
    BY <1>1, <1>3 DEF TypeOK, SettleWrite, SettledStatus, ConnRow
  <2>2. CASE Close
    BY <1>3, <2>1, <2>2, CloseType DEF TypeOK, SettleWrite
  <2>3. CASE ~Close
    <3>1. hist' \in History
      BY <1>3, <2>3, Zenon DEF TypeOK, SettleWrite, History
    <3>2. /\ pc' \in Places /\ local' \in Locals /\ signals' \in [SignalNames -> Nat]
          /\ UNCHANGED <<inFlight, act, orphan, unit, sending, requests, mishaps>>
      BY <1>3, <2>3, ContinueAsNewType, FreshTypes, Zenon DEF TypeOK, SettleWrite, Places
    <3> QED
      BY <2>1, <3>1, <3>2 DEF TypeOK
  <2> QED
    BY <2>2, <2>3
<1>4. CASE ControlFails
  <2>1. mishaps' \in 0..MaxMishaps
    BY <1>4, BoundsAssumption DEF TypeOK, ControlFails, Mishap
  <2>2. Close \/ (DiscoveryFails /\ pc \in {"refresh", "refreshing"})
    BY <1>4 DEF ControlFails
  <2>3. CASE Close
    BY <1>4, <2>1, <2>3, CloseType DEF TypeOK, ControlFails
  <2>4. CASE DiscoveryFails /\ pc \in {"refresh", "refreshing"}
    BY <1>4, <2>1, <2>4 DEF TypeOK, ControlFails, DiscoveryFails, Places
  <2> QED
    BY <2>2, <2>3, <2>4
<1> QED
  BY <1>2, <1>3, <1>4

AttemptStep(u) ==
    \/ Attempt(u) \/ OrphanEnds(u) \/ BackoffElapses(u)
    \/ SyncChunk(u) \/ SyncAuth(u) \/ SyncThrottled(u)
    \/ SyncFails(u) \/ WorkerDies(u) \/ MissedHeartbeat(u)

(* Every way an attempt begins and ends keeps the types.                    *)
LEMMA AttemptType ==
    ASSUME TypeOK, NEW u \in Units, AttemptStep(u)
    PROVE  TypeOK'
<1> USE DEF rows, execution, activities, budgets, unitOnly
<1>1. \A s \in UnitStatuses : [unit EXCEPT ![u].status = s] \in [Units -> UnitRow]
  BY DEF TypeOK, UnitRow
<1>2. Finished(u) => act' \in [Units -> Activity]
  BY DEF Finished, TypeOK, Activity
<1>3. RetryOrFinish(u) => act' \in [Units -> Activity]
  <2>1. act[u].attempt < MaxAttempts =>
          [act EXCEPT ![u] = [at |-> "queued", attempt |-> @.attempt + 1]]
             \in [Units -> Activity]
    BY BoundsAssumption DEF TypeOK, Activity
  <2> QED
    BY <1>2, <2>1 DEF RetryOrFinish
<1>4. \A k : Mishap(k) => mishaps' \in 0..MaxMishaps
  BY BoundsAssumption DEF Mishap, TypeOK
<1>5. CaughtUp(u) \/ Poisoned(u) \/ Rejected(u) =>
        conn' \in ConnRow /\ unit' \in [Units -> UnitRow] /\ hist' \in History
  <2>1. CASE CaughtUp(u)
    BY <2>1, ZenonT(60) DEF CaughtUp, TypeOK, UnitRow, UnitStatuses
  <2>2. CASE Poisoned(u)
    BY <2>2, ZenonT(60) DEF Poisoned, TypeOK, UnitRow, UnitStatuses
  <2>3. CASE Rejected(u)
    <3>1. conn' \in ConnRow
      BY <2>3 DEF Rejected, TypeOK, ConnRow, ConnStatuses
    <3>2. hist' \in History
      BY <2>3 DEF Rejected, TypeOK, History
    <3> QED
      BY <2>3, <3>1, <3>2 DEF Rejected, TypeOK
  <2> QED
    BY <2>1, <2>2, <2>3
<1>6. CASE BeginSync(u)
  <2>1. [act EXCEPT ![u].at = "running"] \in [Units -> Activity]
    BY DEF TypeOK, Activity
  <2> QED
    BY <1>1, <1>3, <1>6, <2>1 DEF BeginSync, TypeOK, UnitStatuses
<1>7. CASE SyncDone(u)
  BY <1>2, <1>5, <1>7 DEF SyncDone, TypeOK
<1>8. CASE SyncCancelled(u)
  BY <1>2, <1>8 DEF SyncCancelled, TypeOK
<1>9. CASE OrphanEnds(u)
  BY <1>4, <1>5, <1>9 DEF OrphanEnds, TypeOK
<1>10. CASE BackoffElapses(u)
  <2>1. unit' \in [Units -> UnitRow]
    BY <1>10, Zenon DEF BackoffElapses, TypeOK, UnitRow
  <2> QED
    BY <1>10, <2>1 DEF BackoffElapses, TypeOK
<1>11. CASE SyncChunk(u)
  BY <1>2, <1>4, <1>11 DEF SyncChunk, TypeOK
<1>12. CASE SyncAuth(u)
  BY <1>2, <1>4, <1>5, <1>12 DEF SyncAuth, TypeOK
<1>13. CASE SyncThrottled(u)
  BY <1>3, <1>4, <1>13 DEF SyncThrottled, TypeOK
<1>14. CASE SyncFails(u)
  BY <1>3, <1>4, <1>5, <1>14, SMTT(30) DEF SyncFails, TypeOK
<1>15. CASE WorkerDies(u)
  BY <1>3, <1>4, <1>15 DEF WorkerDies, TypeOK
<1>16. CASE MissedHeartbeat(u)
  BY <1>3, <1>4, <1>16 DEF MissedHeartbeat, TypeOK
<1> QED
  BY <1>6, <1>7, <1>8, <1>9, <1>10, <1>11, <1>12, <1>13, <1>14, <1>15, <1>16, SMTT(30)
     DEF AttemptStep, Attempt
-----------------------------------------------------------------------------
(* The pool.                                                                *)

(* A step that leaves the pool and its activities alone keeps PoolExact if  *)
(* it does not leave the drain with units in flight.                        *)
LEMMA PoolUntouched ==
    ASSUME PoolExact, UNCHANGED <<inFlight, act>>,
           pc' \in {"refill", "batch", "await"} \/ inFlight = {}
              \/ pc \notin {"refill", "batch", "await"}
    PROVE  PoolExact'
BY DEF PoolExact

(* Closing an execution empties the pool.                                   *)
LEMMA PoolClosed ==
    ASSUME Close
    PROVE  PoolExact'
<1>1. inFlight' = {} /\ pc' = "none" /\ \A u \in Units : act'[u].at = "none"
  BY DEF Close, NoActivity
<1>2. Cardinality({}) = 0
  BY FS_EmptySet
<1> QED
  BY <1>1, <1>2, BoundsAssumption DEF PoolExact

(* An attempt that moves on keeps its unit in flight.                       *)
LEMMA PoolAdvanced ==
    ASSUME TypeOK, PoolExact, NEW u \in Units, act[u].at # "none",
           NEW a \in Activity, a.at # "none", act' = [act EXCEPT ![u] = a],
           UNCHANGED <<inFlight, pc>>
    PROVE  PoolExact'
<1>1. \A w \in Units : act'[w].at # "none" <=> act[w].at # "none"
  BY DEF TypeOK
<1> QED
  BY <1>1 DEF PoolExact

(* Ids not in flight, as many as there are free slots: what a batch         *)
(* launches is new and fits.                                                *)
LEMMA LaunchFits ==
    ASSUME TypeOK, Cardinality(inFlight) <= MaxP
    PROVE  /\ ToLaunch \subseteq Units
           /\ ToLaunch \cap inFlight = {}
           /\ Cardinality(inFlight \cup ToLaunch) <= MaxP
<1> DEFINE S == First(local.p, Pending) \ inFlight
           n == local.p - Cardinality(inFlight)
<1>1. Pending \in SUBSET Units
  BY DEF Pending
<1>2. local.p \in 1..MaxP
  BY DEF TypeOK, Locals
<1>3. S \in SUBSET Units
  BY <1>1 DEF First
<1>4. IsFiniteSet(inFlight) /\ Cardinality(inFlight) \in Nat
  BY UnitsAssumption, FS_Subset, FS_CardinalityType, Zenon DEF TypeOK
<1>5. n \in Int
  BY <1>2, <1>4
<1>6. ToLaunch = First(n, S)
  BY DEF ToLaunch
<1> HIDE DEF n, S
<1>7. /\ ToLaunch \subseteq S /\ IsFiniteSet(ToLaunch) /\ Cardinality(ToLaunch) \in Nat
      /\ Cardinality(ToLaunch) <= (IF n > 0 THEN n ELSE 0)
  BY <1>3, <1>5, <1>6, FirstBounded
<1>8. ToLaunch \cap inFlight = {}
  BY <1>7 DEF S
<1>9. Cardinality(inFlight \cup ToLaunch) = Cardinality(inFlight) + Cardinality(ToLaunch)
  <2>1. Cardinality(inFlight \cap ToLaunch) = 0
    <3>1. inFlight \cap ToLaunch = {}
      BY <1>8
    <3> QED
      BY <3>1, FS_EmptySet
  <2>2. Cardinality(inFlight \cup ToLaunch) =
          Cardinality(inFlight) + Cardinality(ToLaunch) - Cardinality(inFlight \cap ToLaunch)
    BY <1>4, <1>7, FS_Union
  <2> QED
    BY <1>4, <1>7, <2>1, <2>2
<1>10. Cardinality(inFlight \cup ToLaunch) <= MaxP
  BY <1>2, <1>4, <1>7, <1>9, BoundsAssumption DEF n
<1> QED
  BY <1>3, <1>7, <1>8, <1>10

(* One batch of launches keeps PoolExact.                                   *)
LEMMA LaunchPool ==
    ASSUME TypeOK, PoolExact, NextUnitBatch
    PROVE  PoolExact'
<1>1. Cardinality(inFlight) <= MaxP
  BY DEF PoolExact
<1>2. ToLaunch \subseteq Units /\ Cardinality(inFlight') <= MaxP
  BY <1>1, LaunchFits DEF NextUnitBatch
<1>3. \A u \in Units : act'[u].at # "none" <=> u \in ToLaunch \/ act[u].at # "none"
  BY DEF NextUnitBatch
<1>4. inFlight' = {u \in Units : act'[u].at # "none"}
  BY <1>2, <1>3 DEF NextUnitBatch, PoolExact
<1>5. pc' \notin {"refill", "batch", "await"} => inFlight' = {}
  BY DEF NextUnitBatch, AfterRefill
<1> QED
  BY <1>2, <1>4, <1>5 DEF PoolExact

(* A completion frees exactly its own slot.                                 *)
LEMMA CompletePool ==
    ASSUME TypeOK, PoolExact, NEW u \in Units, Complete(u)
    PROVE  PoolExact'
<1>1. inFlight' = inFlight \ {u} /\ act' = [act EXCEPT ![u] = NoActivity] /\ pc' = "refill"
  BY Zenon DEF Complete, ContinueAsNew
<1>2. IsFiniteSet(inFlight) /\ Cardinality(inFlight) \in Nat
  BY UnitsAssumption, FS_Subset, FS_CardinalityType, Zenon DEF TypeOK
<1>3. Cardinality(inFlight') <= Cardinality(inFlight)
  BY <1>1, <1>2, FS_RemoveElement
<1>4. Cardinality(inFlight') \in Nat
  BY <1>1, <1>2, FS_RemoveElement, FS_CardinalityType
<1>5. \A w \in Units : act'[w].at # "none" <=> w # u /\ act[w].at # "none"
  BY <1>1 DEF TypeOK, NoActivity
<1>6. inFlight' = {w \in Units : act'[w].at # "none"}
  BY <1>1, <1>5 DEF PoolExact
<1> QED
  BY <1>1, <1>2, <1>3, <1>4, <1>6, BoundsAssumption DEF PoolExact
(* Every attempt step keeps PoolExact.                                      *)
LEMMA AttemptPool ==
    ASSUME TypeOK, PoolExact, NEW u \in Units, AttemptStep(u)
    PROVE  PoolExact'
<1> USE DEF execution, activities, unitOnly
<1>1. UNCHANGED <<inFlight, pc>>
  BY DEF AttemptStep, Attempt, BeginSync, SyncDone, SyncCancelled, OrphanEnds,
         BackoffElapses, SyncChunk, SyncAuth, SyncThrottled, SyncFails, WorkerDies,
         MissedHeartbeat
<1>2. \/ UNCHANGED act
      \/ /\ At(u, "queued") \/ At(u, "running")
         /\ \/ act' = [act EXCEPT ![u].at = "running"]
            \/ Finished(u)
            \/ RetryOrFinish(u)
  BY DEF AttemptStep, Attempt, BeginSync, SyncDone, SyncCancelled, OrphanEnds,
         BackoffElapses, SyncChunk, SyncAuth, SyncThrottled, SyncFails, WorkerDies,
         MissedHeartbeat
<1>3. CASE UNCHANGED act
  BY <1>1, <1>3, PoolUntouched
<1>4. CASE ~ UNCHANGED act
  <2>1. act[u].at # "none" /\ act[u] \in Activity
    BY <1>2, <1>4 DEF At, TypeOK
  <2>2. \/ act' = [act EXCEPT ![u].at = "running"]
        \/ act' = [act EXCEPT ![u].at = "finished"]
        \/ /\ act[u].attempt < MaxAttempts
           /\ act' = [act EXCEPT ![u] = [at |-> "queued", attempt |-> @.attempt + 1]]
    BY <1>2, <1>4 DEF Finished, RetryOrFinish
  <2>3. \E a \in Activity : a.at # "none" /\ act' = [act EXCEPT ![u] = a]
    <3>1. CASE act' = [act EXCEPT ![u].at = "running"]
      <4>1. [act[u] EXCEPT !.at = "running"] \in Activity
        BY <2>1 DEF Activity
      <4> QED
        BY <2>1, <3>1, <4>1, Zenon DEF Activity
    <3>2. CASE act' = [act EXCEPT ![u].at = "finished"]
      <4>1. [act[u] EXCEPT !.at = "finished"] \in Activity
        BY <2>1 DEF Activity
      <4> QED
        BY <2>1, <3>2, <4>1, Zenon DEF Activity
    <3>3. CASE /\ act[u].attempt < MaxAttempts
               /\ act' = [act EXCEPT ![u] = [at |-> "queued", attempt |-> @.attempt + 1]]
      <4>1. [at |-> "queued", attempt |-> act[u].attempt + 1] \in Activity
        BY <2>1, <3>3, BoundsAssumption DEF Activity
      <4> QED
        BY <3>3, <4>1, Zenon
    <3> QED
      BY <2>2, <3>1, <3>2, <3>3
  <2> QED
    BY <1>1, <2>1, <2>3, PoolAdvanced, Zenon
<1> QED
  BY <1>3, <1>4

(* Every other step either closes the execution, or leaves the pool alone   *)
(* and leaves the drain only with the pool empty.                           *)
OtherStep ==
    \/ User \/ TimerFires \/ ReadSchedule \/ StartRun \/ DiscoverLoad \/ DiscoverAuth
    \/ Refill \/ SettleLoad \/ SettleWrite \/ ControlFails
    \/ \E s \in SignalNames : ReceiveIdle(s) \/ SendSignal(s) \/ SignalFails(s)
    \/ \E observed \in Observations : DiscoverUnits(observed)

(* No step outside the drain's own disturbs the pool.                       *)
LEMMA OtherPool ==
    ASSUME TypeOK, PoolExact, OtherStep
    PROVE  PoolExact'
<1> USE DEF rows, execution, activities, budgets
<1>1. CASE Close
  BY <1>1, PoolClosed
<1>2. CASE ~Close
  <2>1. \A s : Deliver(s) => UNCHANGED inFlight /\ (pc' = pc \/ pc = "none")
    BY Zenon DEF Deliver
  <2>2. User => UNCHANGED <<inFlight, act>> /\ (pc' = pc \/ pc = "none")
    BY <2>1 DEF User, TriggerSync, StopSync, ListProjects, Disconnect, CompleteConnection,
                SetProjectSelection, UpdateSyncSchedule
  <2>3. \A s : SendSignal(s) \/ SignalFails(s) =>
          UNCHANGED <<inFlight, act>> /\ (pc' = pc \/ pc = "none")
    BY <2>1 DEF SendSignal, SignalFails
  <2>4. DiscoveryFails => UNCHANGED <<inFlight, act>>
    BY <1>2 DEF DiscoveryFails
  <2>5. \/ TimerFires \/ ReadSchedule \/ StartRun \/ DiscoverLoad \/ DiscoverAuth
        \/ \E s \in SignalNames : ReceiveIdle(s)
        => UNCHANGED <<inFlight, act>> /\ pc \notin {"refill", "batch", "await"}
    BY <1>2, <2>4 DEF TimerFires, ReadSchedule, StartRun, DiscoverLoad, DiscoverAuth,
                      ReceiveIdle
  <2>6. \/ SettleLoad \/ SettleWrite \/ ControlFails
        \/ \E observed \in Observations : DiscoverUnits(observed)
        => UNCHANGED <<inFlight, act>> /\ pc \notin {"refill", "batch", "await"}
    BY <1>2, <2>4, Zenon DEF SettleLoad, SettleWrite, ControlFails, DiscoverUnits
  <2>7. Refill => /\ UNCHANGED <<inFlight, act>>
                  /\ pc' \in {"refill", "batch", "await"} \/ inFlight = {}
    BY DEF Refill, AfterRefill
  <2>8. pc = "none" => inFlight = {}
    BY DEF PoolExact
  <2>9. /\ UNCHANGED <<inFlight, act>>
        /\ \/ pc' \in {"refill", "batch", "await"} \/ inFlight = {}
           \/ pc \notin {"refill", "batch", "await"}
    BY <2>2, <2>3, <2>5, <2>6, <2>7, <2>8, SMTT(30) DEF OtherStep
  <2> QED
    BY <2>9, PoolUntouched
<1> QED
  BY <1>1, <1>2

-----------------------------------------------------------------------------
(* The inductive invariant: types, and the pool matching the activities.    *)
IInv == TypeOK /\ PoolExact

(* Every step of Next is one of the steps the lemmas above are about.       *)
LEMMA NextSteps ==
    ASSUME Next
    PROVE  \/ OtherStep \/ NextUnitBatch
           \/ \E u \in Units : Complete(u) \/ AttemptStep(u)
BY DEF Next, Workflow, Trouble, OtherStep, AttemptStep

(* The initial rows and execution satisfy the inductive invariant.          *)
LEMMA InitIInv == Init => IInv
<1> SUFFICES ASSUME Init PROVE IInv
  OBVIOUS
<1>1. conn \in ConnRow /\ hist \in History
  BY ChoicesAssumption DEF Init, ConnRow, ConnStatuses, History
<1>2. unit \in [Units -> UnitRow]
  <2>1. PICK known \in SUBSET Units, chosen \in SUBSET Units :
          unit = [u \in Units |->
                    [status |-> IF u \in known THEN "idle" ELSE "absent",
                     selected |-> u \in chosen, committed |-> FALSE, backoff |-> FALSE]]
    BY Zenon DEF Init
  <2>2. \A b \in BOOLEAN, s \in UnitStatuses :
          [status |-> s, selected |-> b, committed |-> FALSE, backoff |-> FALSE] \in UnitRow
    BY DEF UnitRow
  <2>3. \A u \in Units : (u \in chosen) \in BOOLEAN
                         /\ (IF u \in known THEN "idle" ELSE "absent") \in UnitStatuses
    BY DEF UnitStatuses
  <2> QED
    BY <2>1, <2>2, <2>3, Zenon
<1>3. NoActivity \in Activity
  BY BoundsAssumption DEF NoActivity, Activity
<1>4. TypeOK
  <2>1. /\ pc = "schedule" /\ local = FreshLocals(FALSE) /\ inFlight = {} /\ signals = NoSignals
        /\ act = [u \in Units |-> NoActivity] /\ orphan = {} /\ sending = {}
        /\ requests = 0 /\ mishaps = 0
    BY DEF Init
  <2> QED
    <3>1. FreshLocals(FALSE) \in Locals /\ NoSignals \in [SignalNames -> Nat]
      BY FreshTypes, Zenon
    <3>2. requests \in 0..MaxRequests /\ mishaps \in 0..MaxMishaps
      BY <2>1, BoundsAssumption
    <3>3. act \in [Units -> Activity]
      BY <1>3, <2>1, SMTT(30)
    <3> QED
      BY <1>1, <1>2, <2>1, <3>1, <3>2, <3>3, Zenon DEF TypeOK, Places
<1>5. Cardinality({}) = 0
  BY FS_EmptySet
<1>6. inFlight = {} /\ {u \in Units : act[u].at # "none"} = {}
  BY DEF Init, NoActivity
<1>7. PoolExact
  BY <1>5, <1>6, BoundsAssumption DEF PoolExact
<1> QED
  BY <1>4, <1>7 DEF IInv

(* Every step keeps the invariant, whatever the source, the worker, the     *)
(* user or Temporal does.                                                   *)
LEMMA NextIInv == IInv /\ [Next]_vars => IInv'
<1> SUFFICES ASSUME TypeOK, PoolExact, [Next]_vars
             PROVE  TypeOK' /\ PoolExact'
  BY DEF IInv
<1>1. CASE UNCHANGED vars
  BY <1>1 DEF vars, TypeOK, PoolExact
<1>2. CASE OtherStep
  <2>1. TypeOK'
    BY <1>2, UserType, IdleType, HeadType, DrainType, SettleType DEF OtherStep
  <2> QED
    BY <1>2, <2>1, OtherPool
<1>3. CASE NextUnitBatch
  BY <1>3, DrainType, LaunchPool
<1>4. CASE \E u \in Units : Complete(u)
  BY <1>4, DrainType, CompletePool
<1>5. CASE \E u \in Units : AttemptStep(u)
  BY <1>5, AttemptType, AttemptPool
<1> QED
  BY <1>1, <1>2, <1>3, <1>4, <1>5, NextSteps

(* The invariant holds throughout every behaviour.                          *)
THEOREM Invariance == Spec => []IInv
<1> QED
  BY InitIInv, NextIInv, PTL DEF Spec

(* Every row, local and counter of the workflow keeps its type, and no      *)
(* activity exceeds its attempts (syncCtx's MaximumAttempts).               *)
THEOREM TypeCorrect == Spec => []TypeOK
<1>1. IInv => TypeOK
  BY DEF IInv
<1> QED
  BY <1>1, Invariance, PTL

(* runConnection's in-flight set is exactly what Temporal runs for it,      *)
(* within P, and empty whenever a run settles or the workflow waits.        *)
THEOREM PoolIsExact == Spec => []PoolExact
<1>1. IInv => PoolExact
  BY DEF IInv
<1> QED
  BY <1>1, Invariance, PTL
-----------------------------------------------------------------------------
(* Action properties.                                                       *)

(* A unit in flight is never launched again.                                *)
THEOREM NeverDoubleLaunched == Spec => SingleFlight
<1> DEFINE Moves == \A u \in inFlight \cap inFlight' : act'[u] # act[u] =>
                      \/ /\ act'[u].attempt = act[u].attempt
                         /\ act[u].at # "finished" /\ act'[u].at # "queued"
                      \/ act'[u].attempt = act[u].attempt + 1
<1>1. ASSUME TypeOK, PoolExact, [Next]_vars
      PROVE  Moves
  <2> USE DEF rows, execution, activities, budgets, unitOnly
  <2>1. CASE UNCHANGED act
    BY <2>1
  <2>2. CASE OtherStep /\ ~ UNCHANGED act
    <3>1. Close
      <4>1. \A s : Deliver(s) => UNCHANGED inFlight
        BY Zenon DEF Deliver
      <4>2. DiscoveryFails => Close \/ UNCHANGED act
        BY DEF DiscoveryFails
      <4> QED
        BY <2>2, <4>1, <4>2, Zenon
           DEF OtherStep, User, TriggerSync, StopSync, ListProjects, Disconnect,
               CompleteConnection, SetProjectSelection, UpdateSyncSchedule, SendSignal,
               SignalFails, TimerFires, ReadSchedule, StartRun, DiscoverLoad, DiscoverAuth,
               ReceiveIdle, SettleLoad, SettleWrite, ControlFails, DiscoverUnits, Refill
    <3> QED
      BY <3>1 DEF Close
  <2>3. CASE NextUnitBatch
    <3>1. ToLaunch \cap inFlight = {}
      BY <1>1, LaunchFits DEF PoolExact
    <3>2. \A u \in inFlight : act'[u] = act[u]
      BY <1>1, <2>3, <3>1 DEF NextUnitBatch, TypeOK
    <3> QED
      BY <3>2
  <2>4. ASSUME NEW u \in Units, Complete(u)
        PROVE  Moves
    BY <1>1, <2>4, SMTT(30) DEF Complete, TypeOK
  <2>5. ASSUME NEW u \in Units, AttemptStep(u), ~ UNCHANGED act
        PROVE  Moves
    <3>1. /\ At(u, "queued") \/ At(u, "running")
          /\ \/ act' = [act EXCEPT ![u].at = "running"]
             \/ act' = [act EXCEPT ![u].at = "finished"]
             \/ act' = [act EXCEPT ![u] = [at |-> "queued", attempt |-> @.attempt + 1]]
      BY <2>5 DEF AttemptStep, Attempt, BeginSync, SyncDone, SyncCancelled, OrphanEnds,
             BackoffElapses, SyncChunk, SyncAuth, SyncThrottled, SyncFails, WorkerDies,
             MissedHeartbeat, Finished, RetryOrFinish
    <3>2. \A w \in Units \ {u} : act'[w] = act[w]
      BY <1>1, <3>1 DEF TypeOK
    <3>3. \/ /\ act'[u].attempt = act[u].attempt
             /\ act[u].at # "finished" /\ act'[u].at # "queued"
          \/ act'[u].attempt = act[u].attempt + 1
      BY <1>1, <3>1 DEF TypeOK, Activity, At
    <3>4. inFlight \subseteq Units
      BY <1>1 DEF TypeOK
    <3> QED
      BY <3>2, <3>3, <3>4, SMTT(30)
  <2>6. UNCHANGED vars => UNCHANGED act
    BY DEF vars
  <2> QED
    BY <1>1, <2>1, <2>2, <2>3, <2>4, <2>5, <2>6, NextSteps, SMTT(30)
<1>2. IInv /\ [Next]_vars => [Moves]_vars
  BY <1>1 DEF IInv
<1> QED
  BY <1>2, Invariance, PTL DEF Spec, SingleFlight

(* A refill leaves no slot free while a pending unit is left out, so an     *)
(* unstopped run settles only when no unit needs work.                      *)
THEOREM RefillWorkConserving == Spec => WorkConserving
<1> DEFINE Full == pc = "batch" /\ pc' \in {"await", "settle"} =>
                     Cardinality(inFlight') >= local.p \/ Pending \subseteq inFlight'
<1>1. ASSUME TypeOK, [Next]_vars
      PROVE  Full
  <2> SUFFICES ASSUME pc = "batch", pc' \in {"await", "settle"}
               PROVE  Cardinality(inFlight') >= local.p \/ Pending \subseteq inFlight'
    OBVIOUS
  <2>1. NextUnitBatch
    <3>1. Next
      BY <1>1 DEF vars
    <3>2. ~ (\E u \in Units : Complete(u))
      BY DEF Complete
    <3>3. ~ (\E u \in Units : AttemptStep(u))
      BY DEF AttemptStep, Attempt, BeginSync, SyncDone, SyncCancelled, OrphanEnds,
             BackoffElapses, SyncChunk, SyncAuth, SyncThrottled, SyncFails, WorkerDies,
             MissedHeartbeat, execution, unitOnly
    <3>4. \A s : Deliver(s) => pc' = pc
      BY DEF Deliver, execution
    <3>5. ~ OtherStep
      BY <3>4, Zenon DEF OtherStep, User, TriggerSync, StopSync, ListProjects, Disconnect,
               CompleteConnection, SetProjectSelection, UpdateSyncSchedule, SendSignal,
               SignalFails, TimerFires, ReadSchedule, StartRun, DiscoverLoad, DiscoverAuth,
               ReceiveIdle, SettleLoad, SettleWrite, ControlFails, DiscoverUnits, Refill,
               Close, DiscoveryFails, execution
    <3> QED
      BY <3>1, <3>2, <3>3, <3>5, NextSteps
  <2>2. SUFFICES ASSUME ToLaunch = {}, ~ (Cardinality(inFlight) >= local.p)
                 PROVE  Pending \subseteq inFlight
    BY <2>1 DEF NextUnitBatch
  <2> DEFINE F == First(local.p, Pending)
             n == local.p - Cardinality(inFlight)
  <2>3. Pending \in SUBSET Units /\ local.p \in Nat /\ inFlight \in SUBSET Units
    BY <1>1 DEF Pending, TypeOK, Locals
  <2>4. IsFiniteSet(inFlight) /\ Cardinality(inFlight) \in Nat
    BY <2>3, UnitsAssumption, FS_Subset, FS_CardinalityType, Zenon
  <2>5. n \in Nat \ {0}
    BY <2>2, <2>3, <2>4
  <2>6. F \subseteq Pending
    BY <2>3, FirstBounded
  <2>7. First(n, F \ inFlight) = {}
    BY <2>2 DEF ToLaunch
  <2> HIDE DEF F, n
  <2>8. F \subseteq inFlight
    <3> SUFFICES ASSUME F \ inFlight # {} PROVE FALSE
      OBVIOUS
    <3>1. Cardinality(First(n, F \ inFlight)) >= n
      <4>1. F \ inFlight \in SUBSET Units
        BY <2>3, <2>6
      <4> QED
        BY <2>5, <2>7, <4>1, FirstFull
    <3> QED
      BY <2>5, <2>7, <3>1, FS_EmptySet
  <2>9. Cardinality(F) <= Cardinality(inFlight) /\ Cardinality(F) \in Nat
    BY <2>4, <2>8, FS_Subset, FS_CardinalityType
  <2>10. F = Pending
    <3> SUFFICES ASSUME F # Pending PROVE FALSE
      OBVIOUS
    <3>1. Cardinality(F) >= local.p
      BY <2>3, FirstFull DEF F
    <3> QED
      BY <2>2, <2>3, <2>4, <2>9, <3>1
  <2> QED
    BY <2>8, <2>10
<1>2. IInv /\ [Next]_vars => [Full]_vars
  BY <1>1 DEF IInv
<1> QED
  BY <1>2, Invariance, PTL DEF Spec, WorkConserving
-----------------------------------------------------------------------------
(* Refinement.                                                              *)

(* Outside the drain a step that leaves the pool empty and changes whether  *)
(* a run is under way is a Begin or an End of SyncRun.                      *)
LEMMA EmptyPoolStep ==
    ASSUME inFlight = {}, inFlight' = {}
    PROVE  [Abstract!Next]_(Abstract!svars)
<1>1. CASE ~Running /\ Running'
  BY <1>1 DEF Abstract!Next, Abstract!Begin
<1>2. CASE Running /\ ~Running'
  BY <1>2 DEF Abstract!Next, Abstract!End
<1>3. CASE Running <=> Running'
  BY <1>3 DEF Abstract!svars
<1> QED
  BY <1>1, <1>2, <1>3

(* The workflow implements SyncRun, the promise of runConnection: one run   *)
(* at a time, at most MaxP units in flight and each once, none left in      *)
(* flight when a run comes to rest.                                         *)
THEOREM WorkflowImplementsSyncRun == Spec => ImplementsSyncRun
<1>1. Init => Abstract!Init
  BY DEF Init, Abstract!Init, Running
<1>2. ASSUME TypeOK, PoolExact, PoolExact', [Next]_vars
      PROVE  [Abstract!Next]_(Abstract!svars)
  <2> DEFINE Draining == pc \in {"refill", "batch", "await"}
  <2>1. Draining => Running
    BY DEF Running
  <2>2. ~Draining => inFlight = {}
    BY <1>2 DEF PoolExact
  <2>3. ~Draining' => inFlight' = {}
    BY <1>2 DEF PoolExact
  <2>4. CASE UNCHANGED inFlight
    <3>1. CASE Draining /\ Draining'
      BY <2>1, <2>4, <3>1 DEF Abstract!svars, Running
    <3>2. CASE ~Draining \/ ~Draining'
      <4>1. inFlight = {} /\ inFlight' = {}
        BY <2>2, <2>3, <2>4, <3>2
      <4> QED
        BY <4>1, EmptyPoolStep
    <3> QED
      BY <3>1, <3>2
  <2>5. CASE NextUnitBatch /\ ~ UNCHANGED inFlight
    <3>1. /\ ToLaunch \subseteq Units /\ ToLaunch \cap inFlight = {}
          /\ Cardinality(inFlight \cup ToLaunch) <= MaxP
      BY <1>2, LaunchFits DEF PoolExact
    <3>2. inFlight' = inFlight \cup ToLaunch /\ Running
      BY <2>5 DEF NextUnitBatch, Running
    <3>3. Running'
      BY <2>5 DEF NextUnitBatch, AfterRefill, Running
    <3>4. inFlight \cup ToLaunch \in {S \in SUBSET Units : Cardinality(S) <= MaxP}
      BY <1>2, <3>1 DEF TypeOK
    <3>5. Abstract!Launch(ToLaunch)
      BY <3>1, <3>2, <3>3, <3>4 DEF Abstract!Launch
    <3> QED
      BY <3>1, <3>5 DEF Abstract!Next
  <2>6. ASSUME NEW u \in Units, Complete(u)
        PROVE  Abstract!Next
    <3>1. u \in inFlight /\ inFlight' = inFlight \ {u} /\ Running /\ Running'
      BY <2>6, Zenon DEF Complete, ContinueAsNew, Running
    <3>2. Abstract!Finish(u)
      BY <3>1 DEF Abstract!Finish
    <3> QED
      BY <3>2 DEF Abstract!Next
  <2>7. ASSUME NEW u \in Units, AttemptStep(u)
        PROVE  UNCHANGED inFlight
    BY <2>7 DEF AttemptStep, Attempt, BeginSync, SyncDone, SyncCancelled, OrphanEnds,
           BackoffElapses, SyncChunk, SyncAuth, SyncThrottled, SyncFails, WorkerDies,
           MissedHeartbeat, execution, unitOnly
  <2>8. CASE OtherStep /\ ~ UNCHANGED inFlight
    <3>1. Close
      <4>1. \A s : Deliver(s) => UNCHANGED inFlight
        BY Zenon DEF Deliver, execution
      <4>2. DiscoveryFails => Close \/ UNCHANGED inFlight
        BY DEF DiscoveryFails
      <4> QED
        BY <2>8, <4>1, <4>2, Zenon
           DEF OtherStep, User, TriggerSync, StopSync, ListProjects, Disconnect,
               CompleteConnection, SetProjectSelection, UpdateSyncSchedule, SendSignal,
               SignalFails, TimerFires, ReadSchedule, StartRun, DiscoverLoad, DiscoverAuth,
               ReceiveIdle, SettleLoad, SettleWrite, ControlFails, DiscoverUnits, Refill,
               execution
    <3>2. Running /\ ~Running' /\ inFlight' = {}
      BY <2>1, <2>2, <2>8, <3>1 DEF Close, Running
    <3> QED
      BY <3>2 DEF Abstract!Next, Abstract!Abort
  <2>9. UNCHANGED vars => UNCHANGED inFlight
    BY DEF vars
  <2> QED
    BY <1>2, <2>4, <2>5, <2>6, <2>7, <2>8, <2>9, NextSteps, SMTT(30)
<1>3. IInv /\ IInv' /\ [Next]_vars => [Abstract!Next]_(Abstract!svars)
  BY <1>2 DEF IInv
<1> QED
  BY <1>1, <1>3, Invariance, PTL DEF Spec, ImplementsSyncRun, Abstract!Spec
-----------------------------------------------------------------------------
(* The connection's row and the run.  Each of the four results names what   *)
(* has to be ruled out for it; TLC shows each of those breaking it.         *)

(* Delivering a signal only starts an execution where none runs.            *)
LEMMA Delivered ==
    ASSUME NEW s, Deliver(s)
    PROVE  \/ UNCHANGED <<pc, local, inFlight>> /\ (pc = "none" => s \notin Restarting)
           \/ pc = "none" /\ pc' = "schedule" /\ local' = FreshLocals(FALSE) /\ UNCHANGED inFlight
BY Zenon DEF Deliver, execution

(* What the RPCs and their signals do to the row and the execution.         *)
LEMMA UserEffect ==
    ASSUME TypeOK, User \/ (\E s \in SignalNames : SendSignal(s) \/ SignalFails(s))
    PROVE  /\ UNCHANGED <<hist, act, orphan>>
           /\ \/ UNCHANGED <<pc, local, inFlight>>
              \/ pc = "none" /\ pc' = "schedule" /\ local' = FreshLocals(FALSE) /\ UNCHANGED inFlight
           /\ \/ conn'.status = conn.status /\ conn'.deleted = conn.deleted
              \/ conn'.status = "connected" /\ CompleteConnection
              \/ conn'.status = "disabled" /\ conn'.deleted /\ Disconnect
<1> USE DEF rows, execution, activities, budgets
<1>0. conn \in ConnRow
  BY DEF TypeOK
<1>1. CASE TriggerSync \/ StopSync \/ ListProjects
  BY <1>1, Delivered, Zenon DEF TriggerSync, StopSync, ListProjects
<1>2. CASE Disconnect
  BY <1>0, <1>2, Zenon DEF Disconnect, ConnRow
<1>3. CASE CompleteConnection
  BY <1>0, <1>3, Zenon DEF CompleteConnection, ConnRow
<1>4. CASE \E chosen \in SUBSET Units : SetProjectSelection(chosen)
  BY <1>4 DEF SetProjectSelection
<1>5. CASE \E enabled \in BOOLEAN : UpdateSyncSchedule(enabled)
  BY <1>0, <1>5 DEF UpdateSyncSchedule, ConnRow
<1>6. CASE \E s \in SignalNames : SendSignal(s) \/ SignalFails(s)
  BY <1>6, Delivered, Zenon DEF SendSignal, SignalFails
<1> QED
  BY <1>1, <1>2, <1>3, <1>4, <1>5, <1>6, Zenon DEF User

(* An attempt leaves the execution alone, and can only mark needs_reauth.   *)
LEMMA AttemptEffect ==
    ASSUME TypeOK, NEW u \in Units, AttemptStep(u)
    PROVE  /\ UNCHANGED <<pc, local, inFlight, signals, sending, hist>>
           /\ conn'.deleted = conn.deleted
           /\ conn'.status = conn.status \/ conn'.status = "needs_reauth"
           /\ conn' # conn => act[u].at # "none" \/ u \in orphan
<1> USE DEF rows, execution, activities, budgets, unitOnly
<1>0. conn \in ConnRow
  BY DEF TypeOK
<1>1. conn' = conn \/ (conn' = [conn EXCEPT !.status = "needs_reauth"] /\ (act[u].at # "none" \/ u \in orphan))
  BY SMTT(30) DEF AttemptStep, Attempt, BeginSync, SyncDone, SyncCancelled, OrphanEnds, BackoffElapses, SyncChunk,
         SyncAuth, SyncThrottled, SyncFails, WorkerDies, MissedHeartbeat, CaughtUp, Poisoned, Rejected, At
<1>2. UNCHANGED <<pc, local, inFlight, signals, sending, hist>>
  BY DEF AttemptStep, Attempt, BeginSync, SyncDone, SyncCancelled, OrphanEnds, BackoffElapses, SyncChunk,
         SyncAuth, SyncThrottled, SyncFails, WorkerDies, MissedHeartbeat, CaughtUp, Poisoned, Rejected
<1> QED
  BY <1>0, <1>1, <1>2 DEF ConnRow

(* The steps of the execution itself.                                       *)
FlowStep ==
    \/ TimerFires \/ ReadSchedule \/ StartRun \/ DiscoverLoad \/ DiscoverAuth
    \/ Refill \/ NextUnitBatch \/ SettleLoad \/ SettleWrite \/ ControlFails
    \/ \E s \in SignalNames : ReceiveIdle(s)
    \/ \E observed \in Observations : DiscoverUnits(observed)
    \/ \E u \in Units : Complete(u)

(* Every step is one of these three kinds.                                  *)
LEMMA ThreeKinds ==
    ASSUME Next
    PROVE  \/ User \/ (\E s \in SignalNames : SendSignal(s) \/ SignalFails(s))
           \/ \E u \in Units : AttemptStep(u)
           \/ FlowStep
BY DEF Next, Workflow, Trouble, FlowStep, AttemptStep

(* Closing forgets the stop and the locals.                                 *)
LEMMA Closed ==
    ASSUME TypeOK, Close
    PROVE  /\ pc' = "none" /\ ~hist'.stopped /\ local' = FreshLocals(FALSE) /\ inFlight' = {}
           /\ signals' = NoSignals
BY DEF Close, TypeOK, History

(* A stop that was seen is remembered until the run has settled, unless the *)
(* run was resumed by a new execution.                                      *)
Stopped ==
    hist.stopped => /\ pc \in {"refill", "batch", "await", "settle", "settling"}
                    /\ local.midRun \/ (local.stop /\ pc # "batch")

(* Every step remembers a stop.                                             *)
LEMMA StoppedKept == TypeOK /\ Stopped /\ [Next]_vars => Stopped'
<1> SUFFICES ASSUME TypeOK, Stopped, [Next]_vars PROVE Stopped'
  OBVIOUS
<1> USE DEF rows, execution, activities, budgets
<1>0. local \in Locals /\ hist \in History
  BY DEF TypeOK
<1>1. CASE UNCHANGED vars
  BY <1>1 DEF vars, Stopped
<1>2. CASE User \/ (\E s \in SignalNames : SendSignal(s) \/ SignalFails(s))
  BY <1>2, UserEffect, Zenon DEF Stopped
<1>3. CASE \E u \in Units : AttemptStep(u)
  BY <1>3, AttemptEffect DEF Stopped
<1>4. CASE FlowStep
  <2>1. CASE Close
    BY <2>1, Closed DEF Stopped
  <2>2. CASE ~Close
    <3>1. CASE ReadSchedule \/ TimerFires \/ \E s \in SignalNames : ReceiveIdle(s)
      BY <2>2, <3>1 DEF Stopped, ReadSchedule, TimerFires, ReceiveIdle
    <3>2. CASE StartRun \/ DiscoverLoad \/ DiscoverAuth \/ ControlFails
      BY <2>2, <3>2 DEF Stopped, StartRun, DiscoverLoad, DiscoverAuth, ControlFails, DiscoveryFails
    <3>3. CASE \E observed \in Observations : DiscoverUnits(observed)
      BY <3>3 DEF Stopped, DiscoverUnits
    <3>4. CASE Refill
      <4>1. CASE local.stop \/ local.canStop
        BY <3>4, <4>1 DEF Stopped, Refill, AfterRefill
      <4>2. CASE ~local.stop /\ ~local.canStop
        <5>1. PICK p \in 1..MaxP : local' = [local EXCEPT !.p = p]
          BY <3>4, <4>2 DEF Refill
        <5>2. local'.midRun = local.midRun
          BY <5>1, <1>0 DEF Locals
        <5>3. UNCHANGED hist /\ pc = "refill" /\ pc' \in {"batch", "settle", "await"}
          BY <3>4, <4>2, SMTT(30) DEF Refill, AfterRefill
        <5> QED BY <4>2, <5>2, <5>3 DEF Stopped
      <4> QED BY <4>1, <4>2
    <3>5. CASE NextUnitBatch
      BY <3>5 DEF Stopped, NextUnitBatch, AfterRefill
    <3>6. CASE SettleLoad
      BY <2>2, <3>6, <1>0, Zenon DEF Stopped, SettleLoad, Locals
    <3>7. CASE SettleWrite
      BY <2>2, <3>7, <1>0, Zenon DEF Stopped, SettleWrite, History
    <3>8. ASSUME NEW u \in Units, Complete(u) PROVE Stopped'
      <4>1. pc = "await" /\ pc' = "refill"
        BY <3>8, Zenon DEF Complete, ContinueAsNew
      <4>2. hist'.stopped <=> hist.stopped \/ signals["stop"] > 0 \/ signals["disconnect"] > 0
        BY <3>8, <1>0, Zenon DEF Complete, History
      <4>3. FreshLocals(TRUE).midRun
        BY DEF FreshLocals
      <4>4. \/ local'.midRun
            \/ /\ local'.midRun = local.midRun
               /\ local'.stop <=> local.stop \/ signals["stop"] > 0 \/ signals["disconnect"] > 0
        BY <3>8, <1>0, <4>3, ZenonT(60) DEF Complete, ContinueAsNew, Drained, Locals
      <4> QED BY <4>1, <4>2, <4>4 DEF Stopped
    <3> QED BY <1>4, <3>1, <3>2, <3>3, <3>4, <3>5, <3>6, <3>7, <3>8, SMTT(30) DEF FlowStep
  <2> QED BY <2>1, <2>2
<1> QED BY <1>1, <1>2, <1>3, <1>4, ThreeKinds

(* Once the drain has seen a stop or a disconnect, the run launches nothing *)
(* more (drainSignals, refill), as long as no execution resumes a run: the  *)
(* flag is a local that continue-as-new does not carry over.                *)
THEOREM StopLaunchesNothing == Spec /\ []~local.midRun => StopIsAStop
<1> DEFINE Shrinks == hist.stopped => inFlight' \subseteq inFlight
<1>1. Init => Stopped
  BY DEF Init, Stopped
<1>2. TypeOK /\ Stopped /\ [Next]_vars => Stopped'
  BY StoppedKept
<1>3. ASSUME TypeOK, Stopped, ~local.midRun, [Next]_vars PROVE Shrinks
  <2> SUFFICES ASSUME hist.stopped PROVE inFlight' \subseteq inFlight
    OBVIOUS
  <2> USE DEF rows, execution, activities, budgets
  <2>1. pc # "batch"
    BY <1>3 DEF Stopped
  <2>2. UNCHANGED vars => inFlight' = inFlight
    BY DEF vars
  <2>3. User \/ (\E s \in SignalNames : SendSignal(s) \/ SignalFails(s)) => inFlight' = inFlight
    BY <1>3, UserEffect, Zenon
  <2>4. (\E u \in Units : AttemptStep(u)) => inFlight' = inFlight
    BY <1>3, AttemptEffect
  <2>5. CASE FlowStep
    <3>1. DiscoveryFails \/ Close => inFlight' \subseteq inFlight
      BY Zenon DEF DiscoveryFails, Close
    <3> QED
      BY <2>1, <2>5, <3>1, Zenon DEF FlowStep, TimerFires, ReadSchedule, StartRun, DiscoverLoad, DiscoverAuth, Refill,
         NextUnitBatch, SettleLoad, SettleWrite, ControlFails, ReceiveIdle, DiscoverUnits, Complete
  <2> QED BY <1>3, <2>2, <2>3, <2>4, <2>5, ThreeKinds
<1>4. TypeOK /\ Stopped /\ ~local.midRun /\ [Next]_vars => [Shrinks]_vars
  BY <1>3
<1> QED
  BY <1>1, <1>2, <1>4, TypeCorrect, PTL DEF Spec, StopIsAStop

(* A settle or a discovery under way has seen a rejection that the row      *)
(* records.                                                                 *)
SeenRejected ==
    pc \in {"settling", "discovering", "refreshing"} /\ conn.status = "needs_reauth"
       => local.seen = "needs_reauth"

(* While no attempt outlives the run that gave it up, a rejection is seen   *)
(* by the settle that follows it: nothing is in flight between its read and *)
(* its write.                                                               *)
LEMMA SeenRejectedKept == IInv /\ orphan = {} /\ SeenRejected /\ [Next]_vars => SeenRejected'
<1> SUFFICES ASSUME TypeOK, PoolExact, orphan = {}, SeenRejected, [Next]_vars PROVE SeenRejected'
  BY DEF IInv
<1> USE DEF rows, execution, activities, budgets
<1>0. local \in Locals /\ conn \in ConnRow
  BY DEF TypeOK
<1>1. CASE UNCHANGED vars
  BY <1>1 DEF vars, SeenRejected
<1>2. CASE User \/ (\E s \in SignalNames : SendSignal(s) \/ SignalFails(s))
  BY <1>2, UserEffect, Zenon DEF SeenRejected
<1>3. ASSUME NEW u \in Units, AttemptStep(u) PROVE SeenRejected'
  <2>1. pc \in {"settling", "discovering", "refreshing"} => act[u].at = "none"
    BY DEF PoolExact
  <2>2. pc \in {"settling", "discovering", "refreshing"} => conn' = conn
    BY <1>3, <2>1, AttemptEffect, SMTT(30)
  <2>3. pc' = pc /\ local' = local
    BY <1>3, AttemptEffect
  <2> QED BY <2>2, <2>3 DEF SeenRejected
<1>4. CASE FlowStep
  <2>1. CASE Close
    BY <2>1, Closed DEF SeenRejected
  <2>2. CASE ~Close
    <3>1. CASE \/ ReadSchedule \/ TimerFires \/ Refill \/ NextUnitBatch \/ StartRun
               \/ (\E s \in SignalNames : ReceiveIdle(s)) \/ (\E u \in Units : Complete(u))
      BY <2>2, <3>1, Zenon DEF SeenRejected, ReadSchedule, TimerFires, Refill, NextUnitBatch, StartRun,
                        ReceiveIdle, Complete, ContinueAsNew, AfterRefill
    <3>2. CASE DiscoverLoad
      BY <2>2, <3>2, <1>0 DEF SeenRejected, DiscoverLoad, DiscoveryFails, Locals
    <3>3. CASE DiscoverAuth \/ ControlFails
      BY <2>2, <3>3 DEF SeenRejected, DiscoverAuth, ControlFails, DiscoveryFails
    <3>4. CASE \E observed \in Observations : DiscoverUnits(observed)
      BY <3>4 DEF SeenRejected, DiscoverUnits
    <3>5. CASE SettleLoad
      BY <2>2, <3>5, <1>0, Zenon DEF SeenRejected, SettleLoad, Locals
    <3>6. CASE SettleWrite
      BY <2>2, <3>6, Zenon DEF SeenRejected, SettleWrite, ContinueAsNew
    <3> QED BY <1>4, <3>1, <3>2, <3>3, <3>4, <3>5, <3>6, SMTT(30) DEF FlowStep
  <2> QED BY <2>1, <2>2
<1> QED BY <1>1, <1>2, <1>3, <1>4, ThreeKinds

(* needs_reauth is left only by a reconnect or a disconnect, as long as no  *)
(* attempt outlives the run that gave it up: the degraded discovery and the *)
(* settle write back what they read (DiscoverUnits, setConnectionSettled),  *)
(* and only such an attempt can reject the credentials in between.          *)
THEOREM RejectionSticks == Spec /\ [](orphan = {}) => NeedsReauthSticky
<1> DEFINE Sticks == conn.status = "needs_reauth" /\ conn'.status # "needs_reauth"
                       => CompleteConnection \/ Disconnect
<1>1. Init => SeenRejected
  BY DEF Init, SeenRejected
<1>2. ASSUME TypeOK, SeenRejected, [Next]_vars PROVE Sticks
  <2> SUFFICES ASSUME conn.status = "needs_reauth"
               PROVE  conn'.status = "needs_reauth" \/ CompleteConnection \/ Disconnect
    OBVIOUS
  <2> USE DEF rows, execution, activities, budgets
  <2>0. conn \in ConnRow
    BY <1>2 DEF TypeOK
  <2>1. UNCHANGED vars => conn' = conn
    BY DEF vars
  <2>2. User \/ (\E s \in SignalNames : SendSignal(s) \/ SignalFails(s))
          => conn'.status = conn.status \/ CompleteConnection \/ Disconnect
    BY <1>2, UserEffect, Zenon
  <2>3. (\E u \in Units : AttemptStep(u)) => conn'.status = "needs_reauth"
    BY <1>2, AttemptEffect
  <2>4. CASE FlowStep
    <3>1. CASE StartRun \/ DiscoverAuth \/ SettleWrite \/ \E observed \in Observations : DiscoverUnits(observed)
      BY <1>2, <2>0, <3>1, Zenon DEF SeenRejected, StartRun, DiscoverAuth, SettleWrite, SettledStatus,
                              DiscoverUnits, ConnRow
    <3>2. CASE ~(StartRun \/ DiscoverAuth \/ SettleWrite \/ \E observed \in Observations : DiscoverUnits(observed))
      BY <2>4, <3>2, Zenon DEF FlowStep, TimerFires, ReadSchedule, DiscoverLoad, Refill, NextUnitBatch, SettleLoad,
                        ControlFails, ReceiveIdle, Complete
    <3> QED BY <3>1, <3>2
  <2> QED BY <1>2, <2>1, <2>2, <2>3, <2>4, ThreeKinds
<1>3. IInv /\ SeenRejected /\ [Next]_vars => [Sticks]_vars
  BY <1>2 DEF IInv
<1> QED
  BY <1>1, <1>3, SeenRejectedKept, Invariance, PTL DEF Spec, NeedsReauthSticky

(* 'syncing' is the row of a run, and neither a refresh nor a settle under  *)
(* way can write it back.                                                   *)
Unstranded ==
    /\ NoStrandedSyncing
    /\ pc = "refreshing" => local.seen # "syncing"
    /\ pc = "settling" => /\ local.verdict # "syncing"
                          /\ local.seen = "needs_reauth" => conn.status # "syncing"

(* A verdict is never 'syncing'.                                            *)
LEMMA VerdictSettles ==
    ASSUME NEW total, NEW errored, NEW uncommitted
    PROVE  settleStatus(total, errored, uncommitted) # "syncing"
BY DEF settleStatus

(* While no control activity is given up, every way out of a run rewrites   *)
(* the row or finds it deleted.                                             *)
LEMMA UnstrandedKept ==
    ASSUME "outage" \notin MishapKinds, TypeOK, Unstranded, [Next]_vars
    PROVE  Unstranded'
<1> USE DEF rows, execution, activities, budgets
<1>0. local \in Locals /\ conn \in ConnRow
  BY DEF TypeOK
<1>1. CASE UNCHANGED vars
  BY <1>1 DEF vars, Unstranded, NoStrandedSyncing, Running
<1>2. CASE User \/ (\E s \in SignalNames : SendSignal(s) \/ SignalFails(s))
  BY <1>2, UserEffect, Zenon DEF Unstranded, NoStrandedSyncing, Running
<1>3. CASE \E u \in Units : AttemptStep(u)
  BY <1>3, AttemptEffect DEF Unstranded, NoStrandedSyncing, Running
<1>4. CASE FlowStep
  <2>0. ~ControlFails
    BY DEF ControlFails, Mishap
  <2>1. CASE Refill \/ NextUnitBatch \/ \E u \in Units : Complete(u)
    BY <2>1, Zenon DEF Unstranded, NoStrandedSyncing, Running, Refill, NextUnitBatch, Complete, ContinueAsNew, AfterRefill
  <2>2. CASE ReadSchedule \/ TimerFires \/ \E s \in SignalNames : ReceiveIdle(s)
    BY <2>2, Zenon DEF Unstranded, NoStrandedSyncing, Running, ReadSchedule, TimerFires, ReceiveIdle, Close
  <2>3. CASE StartRun
    BY <2>3, Zenon DEF Unstranded, NoStrandedSyncing, Running, StartRun, Close
  <2>4. CASE DiscoverLoad
    BY <1>0, <2>4, Zenon DEF Unstranded, NoStrandedSyncing, Running, DiscoverLoad, DiscoveryFails, Close, Locals
  <2>5. CASE DiscoverAuth
    BY <1>0, <2>5, Zenon DEF Unstranded, NoStrandedSyncing, Running, DiscoverAuth, DiscoveryFails, Close, ConnRow
  <2>6. CASE \E observed \in Observations : DiscoverUnits(observed)
    BY <1>0, <2>6 DEF Unstranded, NoStrandedSyncing, Running, DiscoverUnits, ConnRow
  <2>7. CASE SettleLoad
    <3>1. CASE conn.deleted
      BY <2>7, <3>1 DEF Unstranded, NoStrandedSyncing, SettleLoad, Close
    <3>2. CASE ~conn.deleted
      <4> DEFINE v == settleStatus(Cardinality(Selected), Cardinality(Errored), Cardinality(Uncommitted))
      <4>1. v # "syncing"
        BY VerdictSettles
      <4>2. pc' = "settling" /\ conn' = conn /\ local' = [local EXCEPT !.seen = conn.status, !.verdict = v]
        BY <2>7, <3>2 DEF SettleLoad
      <4> HIDE DEF v
      <4>3. local'.verdict = v /\ local'.seen = conn.status
        BY <1>0, <4>2 DEF Locals
      <4> QED BY <4>1, <4>2, <4>3 DEF Unstranded, NoStrandedSyncing, Running
    <3> QED BY <3>1, <3>2
  <2>8. CASE SettleWrite
    <3>1. conn'.status # "syncing"
      BY <1>0, <2>8 DEF Unstranded, SettleWrite, SettledStatus, ConnRow
    <3>2. pc' \in {"none", "schedule"}
      BY <2>8, Zenon DEF SettleWrite, Close, ContinueAsNew
    <3> QED BY <3>1, <3>2 DEF Unstranded, NoStrandedSyncing, Running
  <2> QED BY <1>4, <2>0, <2>1, <2>2, <2>3, <2>4, <2>5, <2>6, <2>7, <2>8, SMTT(30) DEF FlowStep
<1> QED BY <1>1, <1>2, <1>3, <1>4, ThreeKinds

(* The row of a live connection says 'syncing' only while a run is under    *)
(* way, whatever is stopped, disconnected, reconnected, rejected, resumed   *)
(* or lost, unless a control activity is given up after its five attempts,  *)
(* which ends the workflow before it can settle.                            *)
THEOREM SyncingIsARun == "outage" \notin MishapKinds /\ Spec => []NoStrandedSyncing
<1>1. Init => Unstranded
  BY DEF Init, Unstranded, NoStrandedSyncing
<1>2. "outage" \notin MishapKinds /\ TypeOK /\ Unstranded /\ [Next]_vars => Unstranded'
  BY UnstrandedKept
<1>3. Unstranded => NoStrandedSyncing
  BY DEF Unstranded
<1>4. CASE "outage" \notin MishapKinds
  BY <1>1, <1>2, <1>3, <1>4, TypeCorrect, PTL DEF Spec
<1> QED
  BY <1>4, SMTT(30)

(* A connection that is not disconnected has a workflow, or its credentials *)
(* were rejected, or a reconnect is about to start one.                     *)
Woken ==
    /\ ~conn.deleted /\ ~local.disconnect
    /\ signals["disconnect"] = 0 /\ "disconnect" \notin sending
    /\ pc = "none" => conn.status = "needs_reauth" \/ "refresh" \in sending

(* Only a rejected discovery ends the workflow of such a connection, and    *)
(* the refresh signal of a reconnect starts it again.                       *)
LEMMA WokenKept ==
    ASSUME "outage" \notin MishapKinds, "blip" \notin MishapKinds, "disconnect" \notin RequestKinds,
           TypeOK, ~local.midRun, Woken, [Next]_vars
    PROVE  Woken'
<1> USE DEF rows, execution, activities, budgets
<1>0. /\ local \in Locals /\ conn \in ConnRow /\ signals \in [SignalNames -> Nat]
      /\ \A b \in BOOLEAN : ~FreshLocals(b).disconnect
  BY DEF TypeOK, FreshLocals
<1>1. CASE UNCHANGED vars
  BY <1>1 DEF vars, Woken
<1>2. ASSUME NEW s \in SignalNames, s # "disconnect", Deliver(s)
      PROVE  /\ signals'["disconnect"] = 0 /\ ~local'.disconnect
             /\ pc' = "none" => pc = "none" /\ s \notin Restarting
  <2>1. CASE pc # "none"
    BY <1>0, <1>2, <2>1, Zenon DEF Deliver, Woken, SignalNames
  <2>2. CASE pc = "none" /\ s \in Restarting
    BY <1>0, <1>2, <2>2, Zenon DEF Deliver, NoSignals, SignalNames
  <2>3. CASE pc = "none" /\ s \notin Restarting
    BY <1>2, <2>3, Zenon DEF Deliver, Woken
  <2> QED BY <2>1, <2>2, <2>3
<1>3. CASE User
  <2>1. CASE TriggerSync \/ StopSync \/ ListProjects
    BY <1>2, <2>1 DEF Woken, TriggerSync, StopSync, ListProjects, SignalNames
  <2>2. CASE Disconnect
    BY <2>2 DEF Disconnect, Request
  <2>3. CASE CompleteConnection
    BY <1>0, <2>3 DEF Woken, CompleteConnection, ConnRow
  <2>4. CASE \E chosen \in SUBSET Units : SetProjectSelection(chosen)
    BY <2>4 DEF Woken, SetProjectSelection
  <2>5. CASE \E enabled \in BOOLEAN : UpdateSyncSchedule(enabled)
    BY <1>0, <2>5, SMTT(30) DEF Woken, UpdateSyncSchedule, ConnRow
  <2> QED BY <1>3, <2>1, <2>2, <2>3, <2>4, <2>5, SMTT(30) DEF User
<1>4. ASSUME NEW s \in SignalNames, SendSignal(s) PROVE Woken'
  <2>1. s # "disconnect" /\ Deliver(s) /\ sending' = sending \ {s} /\ conn' = conn
    BY <1>4 DEF Woken, SendSignal
  <2> QED BY <1>2, <2>1 DEF Woken, Restarting
<1>5. \A s \in SignalNames : ~SignalFails(s)
  BY DEF SignalFails, Mishap
<1>6. CASE \E u \in Units : AttemptStep(u)
  BY <1>6, AttemptEffect DEF Woken
<1>7. CASE FlowStep
  <2>0. ~ControlFails
    BY DEF ControlFails, Mishap
  <2>1. CASE ReadSchedule \/ TimerFires
    BY <1>0, <2>1 DEF Woken, ReadSchedule, TimerFires, Locals
  <2>2. ASSUME NEW s \in SignalNames, ReceiveIdle(s) PROVE Woken'
    <3>1. s # "disconnect"
      BY <1>0, <2>2 DEF Woken, ReceiveIdle
    <3>2. signals'["disconnect"] = signals["disconnect"] /\ pc' # "none" /\ UNCHANGED <<conn, local, sending>>
      BY <1>0, <2>2, <3>1 DEF ReceiveIdle, SignalNames
    <3> QED BY <3>2 DEF Woken
  <2>3. CASE StartRun
    BY <1>0, <2>3 DEF Woken, StartRun, ConnRow, Locals
  <2>4. CASE DiscoverLoad
    BY <1>0, <2>4 DEF Woken, DiscoverLoad, Locals
  <2>5. CASE DiscoverAuth
    <3>1. conn'.status = "needs_reauth" /\ ~conn'.deleted /\ sending' = sending
      BY <1>0, <2>5 DEF Woken, DiscoverAuth, ConnRow
    <3>2. signals'["disconnect"] = 0 /\ ~local'.disconnect
      BY <1>0, <2>5, Zenon DEF Woken, DiscoverAuth, DiscoveryFails, Close, NoSignals, SignalNames
    <3> QED BY <3>1, <3>2 DEF Woken
  <2>6. CASE \E observed \in Observations : DiscoverUnits(observed)
    BY <1>0, <2>6 DEF Woken, DiscoverUnits, ConnRow
  <2>7. CASE Refill \/ NextUnitBatch
    BY <1>0, <2>7 DEF Woken, Refill, NextUnitBatch, AfterRefill, Locals
  <2>8. ASSUME NEW u \in Units, Complete(u) PROVE Woken'
    <3>1. pc' = "refill" /\ signals' = NoSignals /\ UNCHANGED <<conn, sending>>
      BY <2>8, Zenon DEF Complete, ContinueAsNew
    <3>2. \E x, y : Drained = [local EXCEPT !.stop = x, !.disconnect = FALSE, !.rerun = y]
      <4>1. (local.disconnect \/ signals["disconnect"] > 0) = FALSE
        BY <1>0 DEF Woken, Locals
      <4> QED BY <4>1, Zenon DEF Drained
    <3>3. local' = FreshLocals(TRUE) \/ \E n, b : local' = [Drained EXCEPT !.processed = n, !.canStop = b]
      BY <2>8, Zenon DEF Complete, ContinueAsNew
    <3>4. ~local'.disconnect
      BY <1>0, <3>2, <3>3, Zenon DEF Locals
    <3> QED BY <3>1, <3>4 DEF Woken, NoSignals, SignalNames
  <2>9. CASE SettleLoad
    BY <1>0, <2>9, Zenon DEF Woken, SettleLoad, Locals
  <2>10. CASE SettleWrite
    <3>1. pc' = "schedule" /\ local' = FreshLocals(FALSE) /\ (signals' = NoSignals \/ signals' = signals)
      BY <2>10, Zenon DEF SettleWrite, ContinueAsNew, Woken
    <3>2. ~conn'.deleted /\ sending' = sending
      BY <1>0, <2>10 DEF SettleWrite, Woken, ConnRow
    <3> QED BY <1>0, <3>1, <3>2, Zenon DEF Woken, NoSignals, SignalNames
  <2> QED BY <1>7, <2>0, <2>1, <2>2, <2>3, <2>4, <2>5, <2>6, <2>7, <2>8, <2>9, <2>10, SMTT(30) DEF FlowStep
<1> QED BY <1>1, <1>3, <1>4, <1>5, <1>6, <1>7, ThreeKinds, SMTT(30)

(* A live connection with working credentials always has a workflow to      *)
(* wake, or a signal under way that starts one: with no disconnect, no      *)
(* control activity given up (each ends the workflow), no lost refresh      *)
(* signal (the only thing that starts it again) and no resumed execution,   *)
(* which ends with its run (SettleWrite).                                   *)
THEOREM LiveConnectionIsDriven ==
    /\ "outage" \notin MishapKinds /\ "blip" \notin MishapKinds /\ "disconnect" \notin RequestKinds
    /\ Spec /\ []~local.midRun
    => []LiveConnectionHasWorkflow
<1> DEFINE Quiet == "outage" \notin MishapKinds /\ "blip" \notin MishapKinds /\ "disconnect" \notin RequestKinds
<1>1. Init => Woken
  BY DEF Init, Woken, FreshLocals, NoSignals, SignalNames
<1>2. Quiet /\ TypeOK /\ ~local.midRun /\ Woken /\ [Next]_vars => Woken'
  BY WokenKept
<1>3. Woken => LiveConnectionHasWorkflow
  BY DEF Woken, LiveConnectionHasWorkflow
<1>4. CASE Quiet
  BY <1>1, <1>2, <1>3, <1>4, TypeCorrect, PTL DEF Spec
<1> QED
  BY <1>4, SMTT(30)
=============================================================================
