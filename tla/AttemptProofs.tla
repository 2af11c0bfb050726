--------------------------- MODULE AttemptProofs ---------------------------
(* What an attempt of SyncUnit needs before it reads its source: a slot of  *)
(* the limiter (Admission), for every seed, every cap, every finite number  *)
(* of claimants and of lost releases; and a token (Credentials), for every  *)
(* set of attempts, workers and placements and any number of tokens and     *)
(* faults.                                                                  *)
EXTENDS Admission, Credentials, FiniteSetTheorems, TLAPS

-----------------------------------------------------------------------------
(* The slot.                                                                *)

(* The inductive invariant.  SlotAccounting needs the type of every column; *)
(* NeverOverCap needs the acquire's guard, which compares in_flight with    *)
(* the limit of that moment, and the limit's own bound by Cap.              *)
SlotInv ==
    /\ AdmissionTypeOK
    /\ SlotAccounting
    /\ inFlight <= Cap
    /\ inFlight <= peak
    /\ LimitTracksLoad

(* Cap, the highest limit the row can learn, is a positive number above the *)
(* seed and above the connector's cap.                                      *)
LEMMA CapFacts ==
    /\ Cap \in Nat \ {0}
    /\ StartConcurrency <= Cap
    /\ MaxConcurrency <= Cap
BY ConcurrencyAssumption DEF Cap, Larger

(* Lazily seeding the row (SeedAdmissionBucket) leaves L positive, within   *)
(* Cap and within two of the load seen.                                     *)
LEMMA SeededFacts ==
    ASSUME AdmissionTypeOK, LimitTracksLoad
    PROVE  /\ Seeded \in 1..Cap
           /\ Seeded <= Larger(StartConcurrency, peak + 2)
BY CapFacts, ConcurrencyAssumption DEF Seeded, AdmissionTypeOK, LimitTracksLoad, Larger

(* The attempts holding a slot are finitely many, so they can be counted.   *)
LEMMA HoldersFinite == IsFiniteSet(Holders)
BY ClaimantsAssumption, FS_Subset DEF Holders

(* Moving one idle attempt to a busy place adds one holder.                 *)
LEMMA OneMoreHolder ==
    ASSUME AdmissionTypeOK, NEW a \in Claimants, attempt[a] = "idle",
           NEW s \in {"holding", "recorded"},
           attempt' = [attempt EXCEPT ![a] = s]
    PROVE  Cardinality(Holders') = Cardinality(Holders) + 1
<1>1. Holders' = Holders \cup {a}
  BY DEF Holders, AdmissionTypeOK
<1>2. a \notin Holders
  BY DEF Holders
<1> QED
  BY <1>1, <1>2, HoldersFinite, FS_AddElement

(* Moving one busy attempt back to idle removes one holder.                 *)
LEMMA OneHolderLess ==
    ASSUME AdmissionTypeOK, NEW a \in Claimants, attempt[a] # "idle",
           attempt' = [attempt EXCEPT ![a] = "idle"]
    PROVE  /\ Cardinality(Holders) \in Nat \ {0}
           /\ Cardinality(Holders') = Cardinality(Holders) - 1
<1>1. Holders' = Holders \ {a}
  BY DEF Holders, AdmissionTypeOK
<1>2. a \in Holders
  BY DEF Holders
<1>3. Cardinality(Holders) \in Nat
  BY HoldersFinite, FS_CardinalityType
<1>4. Cardinality(Holders') = Cardinality(Holders) - 1
  BY <1>1, <1>2, HoldersFinite, FS_RemoveElement, Zenon
<1>5. Cardinality(Holders) # 0
  BY <1>2, HoldersFinite, FS_EmptySet
<1> QED
  BY <1>3, <1>4, <1>5

(* Recording an outcome keeps the slot.                                     *)
LEMMA SameHolders ==
    ASSUME AdmissionTypeOK, NEW a \in Claimants, Record(a)
    PROVE  Holders' = Holders
BY DEF Holders, Record, AdmissionTypeOK

(* The slots held are counted by a natural number.                          *)
LEMMA CountIsNat == Cardinality(Holders) \in Nat
BY HoldersFinite, FS_CardinalityType

(* The empty table satisfies the invariant.                                 *)
LEMMA InitSlotInv == AdmissionInit => SlotInv
<1> SUFFICES ASSUME AdmissionInit PROVE SlotInv
  OBVIOUS
<1>1. AdmissionTypeOK
  BY CapFacts, ClaimantsAssumption DEF AdmissionInit, AdmissionTypeOK
<1>2. Holders = {}
  BY DEF AdmissionInit, Holders
<1>3. SlotAccounting
  BY <1>2, FS_EmptySet DEF AdmissionInit, SlotAccounting
<1>4. inFlight <= Cap /\ inFlight <= peak
  BY CapFacts DEF AdmissionInit
<1>5. LimitTracksLoad
  BY ConcurrencyAssumption DEF AdmissionInit, LimitTracksLoad, Larger
<1> QED
  BY <1>1, <1>3, <1>4, <1>5 DEF SlotInv

(* Taking a slot, or being refused one, keeps the invariant: the guard      *)
(* compares in_flight with the limit of that very statement.                *)
LEMMA AcquireSlotInv ==
    ASSUME SlotInv, NEW a \in Claimants, Acquire(a)
    PROVE  SlotInv'
<1> USE DEF SlotInv
<1>0. Seeded \in 1..Cap /\ Seeded <= Larger(StartConcurrency, peak + 2)
  BY SeededFacts
<1>1. CASE SlotFree /\ inFlight' = inFlight + 1
           /\ attempt' = [attempt EXCEPT ![a] = "holding"]
           /\ peak' = Larger(peak, inFlight')
  <2>1. AdmissionTypeOK'
    BY <1>0, <1>1, CapFacts DEF AdmissionTypeOK, Acquire, Larger
  <2>2. SlotAccounting'
    <3>1. Cardinality(Holders') = Cardinality(Holders) + 1
      BY <1>1, OneMoreHolder, Zenon DEF Acquire
    <3> QED
      BY <1>1, <3>1, CountIsNat DEF SlotAccounting, Acquire, AdmissionTypeOK
  <2>3. inFlight' <= Cap /\ inFlight' <= peak'
    BY <1>0, <1>1, CapFacts DEF SlotFree, AdmissionTypeOK, Larger
  <2>4. LimitTracksLoad'
    BY <1>0, <1>1, ConcurrencyAssumption, CapFacts DEF Acquire, LimitTracksLoad, AdmissionTypeOK, Larger
  <2> QED
    BY <2>1, <2>2, <2>3, <2>4
<1>2. CASE UNCHANGED <<inFlight, attempt, peak>>
  <2>1. AdmissionTypeOK'
    BY <1>0, <1>2, CapFacts DEF AdmissionTypeOK, Acquire
  <2>2. SlotAccounting'
    BY <1>2 DEF SlotAccounting, Acquire, Holders
  <2>3. inFlight' <= Cap /\ inFlight' <= peak'
    BY <1>2
  <2>4. LimitTracksLoad'
    BY <1>0, <1>2 DEF Acquire, LimitTracksLoad
  <2> QED
    BY <2>1, <2>2, <2>3, <2>4
<1> QED
  BY <1>1, <1>2 DEF Acquire

(* Recording an outcome keeps the slot and moves L within its bounds.       *)
LEMMA FinishSlotInv ==
    ASSUME SlotInv, NEW a \in Claimants, Finish(a)
    PROVE  SlotInv'
<1> USE DEF SlotInv
<1>1. Record(a)
  BY DEF Finish, RecordSuccess, RecordThrottle, FailWithoutFeedback
<1>2. SlotAccounting'
  BY <1>1, SameHolders, Zenon DEF SlotAccounting, Record
<1>3. inFlight' <= Cap /\ inFlight' <= peak'
  BY <1>1 DEF Record
<1>4. /\ attempt' \in [Claimants -> {"idle", "holding", "recorded"}]
      /\ inFlight' = inFlight /\ lost' = lost /\ peak' = peak
  BY <1>1 DEF Record, AdmissionTypeOK
<1>5. CASE RecordSuccess(a)
  <2>1. /\ AdditiveIncrease \in 0..Cap
        /\ AdditiveIncrease <= Larger(StartConcurrency, peak + 2)
    BY CapFacts, ConcurrencyAssumption
       DEF AdditiveIncrease, AdmissionTypeOK, LimitTracksLoad, Larger, Smaller
  <2> QED
    BY <1>2, <1>3, <1>4, <1>5, <2>1 DEF RecordSuccess, AdmissionTypeOK, LimitTracksLoad
<1>6. CASE \E r \in RetryAfters : RecordThrottle(a, r)
  <2>1. PICK r \in RetryAfters : RecordThrottle(a, r)
    BY <1>6
  <2>2. /\ MultiplicativeDecrease \in 0..Cap
        /\ MultiplicativeDecrease <= Larger(StartConcurrency, peak + 2)
    BY CapFacts, ConcurrencyAssumption
       DEF MultiplicativeDecrease, AdmissionTypeOK, LimitTracksLoad, Larger
  <2>3. cooldown' \in Nat
    BY <2>1, RetryAssumption DEF RecordThrottle, AdmissionTypeOK, Larger
  <2> QED
    BY <1>2, <1>3, <1>4, <2>1, <2>2, <2>3 DEF RecordThrottle, AdmissionTypeOK, LimitTracksLoad
<1>7. CASE FailWithoutFeedback(a)
  BY <1>2, <1>3, <1>4, <1>7 DEF FailWithoutFeedback, AdmissionTypeOK, LimitTracksLoad
<1> QED
  BY <1>5, <1>6, <1>7 DEF Finish

(* Giving a slot back: the clamp at zero is never what decides, because the *)
(* releasing attempt is itself counted in in_flight.                        *)
LEMMA ReleaseSlotInv ==
    ASSUME SlotInv, NEW a \in Claimants, Release(a)
    PROVE  SlotInv'
<1> USE DEF SlotInv
<1>1. /\ Cardinality(Holders) \in Nat \ {0}
      /\ Cardinality(Holders') = Cardinality(Holders) - 1
  BY OneHolderLess, Zenon DEF Release
<1>2. inFlight' = inFlight - 1 /\ inFlight' \in Nat
  BY <1>1 DEF Release, SlotAccounting, AdmissionTypeOK, Larger
<1>3. AdmissionTypeOK'
  BY <1>2 DEF Release, AdmissionTypeOK
<1>4. SlotAccounting'
  BY <1>1, <1>2 DEF Release, SlotAccounting, AdmissionTypeOK
<1>5. inFlight' <= Cap /\ inFlight' <= peak'
  BY <1>2, CapFacts DEF Release, AdmissionTypeOK
<1>6. LimitTracksLoad'
  BY DEF Release, LimitTracksLoad
<1> QED
  BY <1>3, <1>4, <1>5, <1>6

(* A holder that vanishes moves its slot from the held ones to the lost.    *)
LEMMA LoseReleaseSlotInv ==
    ASSUME SlotInv, NEW a \in Claimants, LoseRelease(a)
    PROVE  SlotInv'
<1> USE DEF SlotInv
<1>1. /\ Cardinality(Holders) \in Nat \ {0}
      /\ Cardinality(Holders') = Cardinality(Holders) - 1
  BY OneHolderLess, Zenon DEF LoseRelease
<1>2. AdmissionTypeOK'
  BY ClaimantsAssumption DEF LoseRelease, AdmissionTypeOK
<1>3. SlotAccounting'
  BY <1>1 DEF LoseRelease, SlotAccounting, AdmissionTypeOK
<1>4. inFlight' <= Cap /\ inFlight' <= peak' /\ LimitTracksLoad'
  BY DEF LoseRelease, LimitTracksLoad
<1> QED
  BY <1>2, <1>3, <1>4

(* Time only moves the clocks.                                              *)
LEMMA TickSlotInv ==
    ASSUME SlotInv, Tick
    PROVE  SlotInv'
<1> USE DEF SlotInv
<1>1. AdmissionTypeOK'
  BY DEF Tick, AdmissionTypeOK, Larger
<1>2. SlotAccounting' /\ LimitTracksLoad'
  BY DEF Tick, SlotAccounting, LimitTracksLoad, Holders
<1> QED
  BY <1>1, <1>2 DEF Tick

(* Every step of the limiter keeps the invariant.                           *)
LEMMA NextSlotInv == SlotInv /\ [AdmissionNext]_avars => SlotInv'
<1> SUFFICES ASSUME SlotInv, [AdmissionNext]_avars PROVE SlotInv'
  OBVIOUS
<1>1. ASSUME NEW a \in Claimants, Acquire(a) \/ Finish(a) \/ Release(a) \/ LoseRelease(a)
      PROVE  SlotInv'
  BY <1>1, AcquireSlotInv, FinishSlotInv, ReleaseSlotInv, LoseReleaseSlotInv
<1>2. CASE Tick
  BY <1>2, TickSlotInv
<1>3. CASE UNCHANGED avars
  BY <1>3 DEF SlotInv, avars, AdmissionTypeOK, SlotAccounting, LimitTracksLoad, Holders
<1> QED
  BY <1>1, <1>2, <1>3 DEF AdmissionNext

(* The inductive invariant: the types, the accounting, the cap and the      *)
(* limit's bound hold together in every state.                              *)
THEOREM SlotInvariance == AdmissionSpec => []SlotInv
<1>1. AdmissionInit => SlotInv
  BY InitSlotInv
<1>2. SlotInv /\ [AdmissionNext]_avars => SlotInv'
  BY NextSlotInv
<1> QED
  BY <1>1, <1>2, PTL DEF AdmissionSpec

(* Type correctness: the row's columns stay in range, in particular the     *)
(* learned limit never passes the larger of the seed and the cap.           *)
THEOREM AdmissionTypeCorrect == AdmissionSpec => []AdmissionTypeOK
<1>1. SlotInv => AdmissionTypeOK
  BY DEF SlotInv
<1> QED
  BY <1>1, SlotInvariance, PTL

(* in_flight always equals the slots held plus the slots lost: no           *)
(* interleaving of acquires, throttles and clamped releases miscounts.      *)
THEOREM SlotsAccountedFor == AdmissionSpec => []SlotAccounting
<1>1. SlotInv => SlotAccounting
  BY DEF SlotInv
<1> QED
  BY <1>1, SlotInvariance, PTL

(* The compare-and-swap of AcquireAdmission never lets more attempts reach  *)
(* the source at once than the highest limit the row may learn.             *)
THEOREM ConcurrencyCapped == AdmissionSpec => []NeverOverCap
<1>1. SlotInv => NeverOverCap
  BY CapFacts, CountIsNat DEF SlotInv, NeverOverCap, SlotAccounting, AdmissionTypeOK
<1> QED
  BY <1>1, SlotInvariance, PTL

(* The additive increase only follows load: L is never more than two above  *)
(* the most slots ever taken, or it is still at or below its seed.          *)
THEOREM LimitFollowsLoad == AdmissionSpec => []LimitTracksLoad
<1>1. SlotInv => LimitTracksLoad
  BY DEF SlotInv
<1> QED
  BY <1>1, SlotInvariance, PTL

(* No statement takes a seeded row back to the limit zero, at which every   *)
(* later Acquire would be refused.                                          *)
THEOREM SeededForGood == AdmissionSpec => LimitNeverZeroAgain
<1>1. ASSUME SlotInv, [AdmissionNext]_avars, limit > 0
      PROVE  limit' > 0
  <2> USE <1>1 DEF SlotInv
  <2>1. CASE \E a \in Claimants : Acquire(a)
    BY <2>1, ConcurrencyAssumption DEF Acquire, Seeded, AdmissionTypeOK
  <2>2. CASE \E a \in Claimants : RecordSuccess(a)
    BY <2>2, ConcurrencyAssumption DEF RecordSuccess, AdditiveIncrease, AdmissionTypeOK, Smaller
  <2>3. CASE \E a \in Claimants, r \in RetryAfters : RecordThrottle(a, r)
    BY <2>3 DEF RecordThrottle, MultiplicativeDecrease, AdmissionTypeOK, Larger
  <2>4. CASE UNCHANGED limit
    BY <2>4
  <2> QED
    BY <2>1, <2>2, <2>3, <2>4
       DEF AdmissionNext, Finish, FailWithoutFeedback, Release, LoseRelease, Tick, avars
<1>2. SlotInv /\ [AdmissionNext]_avars => [limit > 0 => limit' > 0]_avars
  BY <1>1
<1> QED
  BY <1>2, SlotInvariance, PTL DEF AdmissionSpec, LimitNeverZeroAgain

-----------------------------------------------------------------------------
(* The token.                                                               *)

MaybeToken == Nat \cup {None}
RowType == [access : MaybeToken, refresh : MaybeToken, expires : BOOLEAN, installation : BOOLEAN]
TokenType == [access : MaybeToken, refresh : MaybeToken]
AttemptType == [pc : {"idle", "loaded", "waiting", "holding", "asked"}, conn : RowType, tok : TokenType]

Shapes ==
    /\ row \in RowType
    /\ consent \in TokenType
    /\ att \in [Attempts -> AttemptType]
    /\ issued \in Nat

\* While the provider has not rotated, the only refresh token there is is the
\* first: in the row, in every copy of it, and in every token about to be stored
\* that brings one.
Good(x) ==
    /\ x.pc # "idle" => x.conn.refresh = 0
    /\ x.pc = "asked" => x.tok.refresh \in {0, None}

Held ==
    /\ row.refresh = 0 /\ status = "connected"
    /\ consent.refresh = None
    /\ \A a \in Attempts : Good(att[a])

OneGrant == row.expires /\ valid = 0 => Held

IInv == Shapes /\ OneGrant

Stores(r, x, y) == [r EXCEPT !.access = x, !.refresh = y]
Sees(r, y) == [r EXCEPT !.refresh = y]

\* A row and a token keep their shapes when a token in them is replaced.
LEMMA RowShapes ==
    /\ \A r \in RowType, x \in MaybeToken : Sees(r, x) \in RowType
    /\ \A r \in RowType, x, y \in MaybeToken : Stores(r, x, y) \in RowType
    /\ \A r \in RowType : r.refresh \in MaybeToken /\ r.access \in MaybeToken
    /\ \A t \in TokenType : t.refresh \in MaybeToken /\ t.access \in MaybeToken
    /\ \A x, y \in MaybeToken : Token(x, y) \in TokenType
    /\ \A x, y \in MaybeToken, b, c \in BOOLEAN : Row(x, y, b, c) \in RowType
    /\ None \in MaybeToken /\ Nat \subseteq MaybeToken
  BY Zenon DEF RowType, TokenType, MaybeToken, Token, Row, Stores, Sees

\* What replacing tokens in a row leaves in it.
LEMMA RowFields ==
    /\ \A r \in RowType, x \in MaybeToken : Sees(r, x).refresh = x
    /\ \A r \in RowType, x, y \in MaybeToken : Stores(r, x, y).refresh = y /\ (Stores(r, x, y).expires => r.expires)
    /\ \A x, y \in MaybeToken : Token(x, y).refresh = y
    /\ 0 \in MaybeToken /\ 0 # None
  BY NoneAssumption DEF RowType, MaybeToken, Token, Stores, Sees

\* An attempt that changes alone, into a good one, leaves all of them good.
LEMMA OthersStay ==
    ASSUME Shapes, Held, NEW a \in Attempts, NEW x, Good(x), att' = [att EXCEPT ![a] = x]
    PROVE  \A b \in Attempts : Good(att'[b])
  BY DEF Shapes, Held

\* An idle attempt has the shape of one.
LEMMA IdleShape == Idle \in AttemptType /\ Good(Idle)
<1>1. Row(None, None, FALSE, FALSE) \in RowType /\ Token(None, None) \in TokenType
  BY RowShapes, Zenon
<1> QED BY <1>1, Zenon DEF Idle, AttemptType, Good

\* The initial row, with no attempt begun and no consent pending, has one grant.
LEMMA InitHolds == Init => IInv
<1> SUFFICES ASSUME Init PROVE IInv
  OBVIOUS
<1>1. row \in RowType /\ (row.expires => row.refresh = 0)
  <2>1. OAuth \in RowType /\ PersonalToken \in RowType /\ Installation \in RowType
    BY RowShapes, Zenon DEF OAuth, PersonalToken, Installation
  <2>2. OAuth.refresh = 0 /\ ~PersonalToken.expires /\ ~Installation.expires
    BY DEF OAuth, PersonalToken, Installation, Row
  <2> QED BY <2>1, <2>2 DEF Init
<1>2. Shapes
  BY <1>1, RowShapes, IdleShape DEF Init, Shapes
<1>3. OneGrant
  BY <1>1, IdleShape DEF Init, OneGrant, Held, Token
<1> QED BY <1>2, <1>3 DEF IInv

\* The shapes of the records are kept by every step.
LEMMA ShapesKept == Shapes /\ [Next]_vars => Shapes'
<1> SUFFICES ASSUME Shapes, [Next]_vars PROVE Shapes'
  OBVIOUS
<1> USE DEF Shapes
<1>1. ASSUME NEW a \in Attempts, Steps(a) PROVE Shapes'
  <2>0. att[a] \in AttemptType /\ att[a].conn \in RowType /\ att[a].tok \in TokenType
    BY DEF AttemptType
  <2>1. CASE Load(a)
    BY <2>1, <2>0, Zenon DEF Load, AttemptType
  <2>2. CASE clientFor(a)
    BY <2>2, <2>0, IdleShape DEF clientFor, Ends, Goes, AttemptType
  <2>3. CASE Lock(a)
    <3> DEFINE seen == Sees(row, IF row.refresh = None THEN att[a].conn.refresh ELSE row.refresh)
    <3>1. seen \in RowType
      BY <2>0, RowShapes, Zenon
    <3> HIDE DEF seen
    <3>2. att' \in [Attempts -> AttemptType]
      <4>1. att' = [att EXCEPT ![a] = Idle] \/ att' = [att EXCEPT ![a].pc = "holding", ![a].conn = seen]
                \/ att' = [att EXCEPT ![a].pc = "holding"]
        BY <2>3 DEF Lock, Ends, Goes, seen, Sees
      <4> QED BY <4>1, <2>0, <3>1, IdleShape DEF AttemptType
    <3> QED BY <2>3, <3>2 DEF Lock
  <2>4. CASE Reuse(a)
    <3>1. Token(att[a].conn.access, att[a].conn.refresh) \in TokenType
      BY <2>0, RowShapes, Zenon
    <3> QED BY <2>4, <2>0, <3>1, Zenon DEF Reuse, AttemptType
  <2>5. CASE Refresh(a)
    <3>1. issued' \in Nat /\ \A r \in BOOLEAN : Token(issued', IF r THEN issued' ELSE None) \in TokenType
      <4>1. issued' \in Nat
        BY <2>5 DEF Refresh, Issues
      <4>2. issued' \in MaybeToken /\ None \in MaybeToken
        BY <4>1, RowShapes
      <4> QED BY <4>1, <4>2, RowShapes, SMTT(30)
    <3> QED BY <2>5, <2>0, <3>1, IdleShape DEF Refresh, Ends, AttemptType
  <2>6. CASE Unavailable(a)
    BY <2>6, IdleShape DEF Unavailable, Ends
  <2>7. CASE InvalidGrant(a)
    BY <2>7, IdleShape DEF InvalidGrant, Ends
  <2>8. CASE persistRotatedToken(a)
    <3> DEFINE kept == IF att[a].tok.refresh = None THEN row.refresh ELSE att[a].tok.refresh
    <3>1. row' \in RowType
      <4>1. kept \in MaybeToken /\ att[a].tok.access \in MaybeToken /\ row \in RowType
        BY <2>0, RowShapes
      <4>2. row' = row \/ row' = Stores(row, att[a].tok.access, kept)
        BY <2>8 DEF persistRotatedToken, Stores
      <4>3. Stores(row, att[a].tok.access, kept) \in RowType
        <5> HIDE DEF kept
        <5> QED BY <4>1, RowShapes, SMTT(30)
      <4> QED BY <4>1, <4>2, <4>3
    <3> QED BY <2>8, <3>1, IdleShape DEF persistRotatedToken, Ends
  <2> QED BY <1>1, <2>1, <2>2, <2>3, <2>4, <2>5, <2>6, <2>7, <2>8 DEF Steps
<1>2. ASSUME NEW w \in Workers, Crash(w) PROVE Shapes'
  BY <1>2, IdleShape DEF Crash
<1>3. CASE Exchange
  <2>1. issued' \in Nat
    BY <1>3 DEF Exchange, Issues
  <2>2. issued' \in MaybeToken /\ None \in MaybeToken
    BY <2>1, RowShapes
  <2> QED BY <1>3, <2>1, <2>2, RowShapes, SMTT(30) DEF Exchange
<1>4. CASE UpsertConnection
  BY <1>4, RowShapes, Zenon DEF UpsertConnection, Stores
<1>5. ASSUME NEW n \in Tokens, Age(n) PROVE Shapes'
  BY <1>5 DEF Age
<1>6. CASE UNCHANGED vars
  BY <1>6 DEF vars
<1> QED BY <1>1, <1>2, <1>3, <1>4, <1>5, <1>6 DEF Next

\* Every step keeps the one grant, or rotates it away for good.
LEMMA GrantKept == IInv /\ [Next]_vars => OneGrant'
<1> SUFFICES ASSUME IInv, [Next]_vars, row'.expires, valid' = 0
             PROVE  Held'
  BY DEF OneGrant
<1>0. Shapes /\ (row.expires /\ valid = 0 => Held)
  BY DEF IInv, OneGrant
<1>1. ASSUME NEW a \in Attempts, Steps(a) PROVE Held'
  <2>0. /\ att[a] \in AttemptType /\ att[a].conn \in RowType /\ att[a].tok \in TokenType
        /\ row \in RowType /\ issued \in Nat
        /\ Held => row.refresh = 0 /\ Good(att[a])
    BY <1>0 DEF Shapes, AttemptType, Held
  <2>a. ASSUME Held, UNCHANGED <<row, status, consent>>,
               NEW x, Good(x), att' = [att EXCEPT ![a] = x]
        PROVE  Held'
    BY <2>a, <1>0, OthersStay DEF Held
  <2>1. CASE Load(a)
    <3> DEFINE x == [att[a] EXCEPT !.pc = "loaded", !.conn = row]
    <3>1. Held /\ Good(x) /\ att' = [att EXCEPT ![a] = x]
      BY <2>1, <1>0, <2>0, Zenon DEF Load, Good, AttemptType
    <3> QED BY <3>1, <2>1, <2>a, Zenon DEF Load
  <2>2. CASE clientFor(a)
    <3>1. Held /\ att[a].pc = "loaded"
      BY <2>2, <1>0 DEF clientFor, At
    <3>2. Good([att[a] EXCEPT !.pc = "waiting"])
      BY <3>1, <2>0 DEF Good, AttemptType
    <3>3. att' = [att EXCEPT ![a] = Idle] \/ att' = [att EXCEPT ![a] = [att[a] EXCEPT !.pc = "waiting"]]
      BY <2>2 DEF clientFor, Ends, Goes
    <3> QED BY <3>1, <3>2, <3>3, <2>2, <2>a, IdleShape, SMTT(30) DEF clientFor
  <2>3. CASE Lock(a)
    <3> DEFINE seen == Sees(row, IF row.refresh = None THEN att[a].conn.refresh ELSE row.refresh)
    <3>1. Held /\ att[a].pc = "waiting" /\ UNCHANGED <<row, status, consent>>
      BY <2>3, <1>0 DEF Lock, At
    <3>2. seen.refresh = 0
      BY <3>1, <2>0, RowFields
    <3>3. att' = [att EXCEPT ![a] = Idle] \/ att' = [att EXCEPT ![a] = [att[a] EXCEPT !.pc = "holding", !.conn = seen]]
            \/ att' = [att EXCEPT ![a] = [att[a] EXCEPT !.pc = "holding"]]
      BY <2>3 DEF Lock, Ends, Goes, Sees
    <3> HIDE DEF seen
    <3>4. Good([att[a] EXCEPT !.pc = "holding", !.conn = seen]) /\ Good([att[a] EXCEPT !.pc = "holding"])
      BY <3>1, <3>2, <2>0 DEF Good, AttemptType
    <3> QED BY <3>1, <3>3, <3>4, <2>a, IdleShape
  <2>4. CASE Reuse(a)
    <3> DEFINE t == Token(att[a].conn.access, att[a].conn.refresh)
    <3>1. Held /\ att[a].pc = "holding" /\ UNCHANGED <<row, status, consent>>
      BY <2>4, <1>0 DEF Reuse, At
    <3>2. t.refresh = 0
      BY <3>1, <2>0, RowShapes, RowFields, ZenonT(60) DEF Good
    <3>3. att' = [att EXCEPT ![a] = [att[a] EXCEPT !.pc = "asked", !.tok = t]]
      BY <2>4, Zenon DEF Reuse
    <3> HIDE DEF t
    <3>4. Good([att[a] EXCEPT !.pc = "asked", !.tok = t])
      BY <3>1, <3>2, <2>0 DEF Good, AttemptType
    <3> QED BY <3>1, <3>3, <3>4, <2>a, Zenon
  <2>5. CASE Refresh(a)
    \* A rotation ends the premise; without one the token brings no refresh token.
    <3> DEFINE t == Token(issued', None)
    <3>1. PICK rotates \in BOOLEAN :
            /\ Issues(rotates)
            /\ \/ att' = [att EXCEPT ![a] = [att[a] EXCEPT !.pc = "asked",
                                                        !.tok = Token(issued', IF rotates THEN issued' ELSE None)]]
               \/ att' = [att EXCEPT ![a] = Idle]
      BY <2>5, Zenon DEF Refresh, Ends
    <3>2. issued' \in Nat /\ issued' # 0 /\ ~rotates /\ valid = 0
      BY <3>1, <2>0 DEF Issues
    <3>3. Held /\ att[a].pc = "holding" /\ UNCHANGED <<row, status, consent>>
      BY <2>5, <3>2, <1>0 DEF Refresh, Asks, At
    <3>4. t.refresh = None
      BY <3>2, RowShapes, RowFields, Zenon
    <3>5. att' = [att EXCEPT ![a] = [att[a] EXCEPT !.pc = "asked", !.tok = t]] \/ att' = [att EXCEPT ![a] = Idle]
      BY <3>1, <3>2
    <3> HIDE DEF t
    <3>6. Good([att[a] EXCEPT !.pc = "asked", !.tok = t])
      BY <3>3, <3>4, <2>0 DEF Good, AttemptType
    <3> QED BY <3>3, <3>5, <3>6, <2>a, IdleShape
  <2>6. CASE Unavailable(a)
    BY <2>6, <1>0, <2>a, IdleShape, Zenon DEF Unavailable, Ends
  <2>7. CASE InvalidGrant(a)
    \* An attempt that asks has the only grant, so it cannot be refused.
    BY <2>7, <1>0, <2>0 DEF InvalidGrant, Asks, At, Good
  <2>8. CASE persistRotatedToken(a)
    <3> DEFINE kept == IF att[a].tok.refresh = None THEN row.refresh ELSE att[a].tok.refresh
    <3>1. kept \in MaybeToken /\ att[a].tok.access \in MaybeToken
      BY <2>0, RowShapes
    <3>2. row' = row \/ row' = Stores(row, att[a].tok.access, kept)
      BY <2>8 DEF persistRotatedToken, Stores
    <3>3. row.expires /\ (row' = row \/ row'.refresh = kept)
      <4> HIDE DEF kept
      <4> QED BY <3>1, <3>2, <2>0, RowFields
    <3>4. Held /\ row'.refresh = 0
      BY <2>8, <3>3, <1>0, <2>0 DEF persistRotatedToken, At, Good
    <3>5. \A b \in Attempts : Good(att'[b])
      BY <2>8, <3>4, <1>0, IdleShape, OthersStay, SMTT(30) DEF persistRotatedToken, Ends
    <3> QED BY <2>8, <3>4, <3>5 DEF persistRotatedToken, Held
  <2> QED BY <1>1, <2>1, <2>2, <2>3, <2>4, <2>5, <2>6, <2>7, <2>8, SMTT(30) DEF Steps
<1>2. ASSUME NEW w \in Workers, Crash(w) PROVE Held'
  BY <1>2, <1>0, IdleShape DEF Crash, Held
<1>3. CASE Exchange
  <2>1. PICK rotates \in BOOLEAN : Issues(rotates) /\ consent' = Token(issued', IF rotates THEN issued' ELSE None)
    BY <1>3 DEF Exchange
  <2>2. issued' \in Nat /\ issued' # 0 /\ ~rotates /\ valid = 0
    BY <2>1, <1>0 DEF Issues, Shapes
  <2>3. consent'.refresh = None
    BY <2>1, <2>2, RowShapes, RowFields, Zenon
  <2> QED BY <1>3, <2>2, <2>3, <1>0 DEF Exchange, Held
<1>4. CASE UpsertConnection
  <2> DEFINE kept == IF consent.refresh = None THEN row.refresh ELSE consent.refresh
  <2>1. kept \in MaybeToken /\ consent.access \in MaybeToken /\ row \in RowType
    BY <1>0, RowShapes DEF Shapes
  <2>2. row' = Stores(row, consent.access, kept)
    BY <1>4 DEF UpsertConnection, Stores
  <2>3. row.expires /\ row'.refresh = kept
    <3> HIDE DEF kept
    <3> QED BY <2>1, <2>2, RowFields
  <2>4. Token(None, None).refresh = None
    BY RowShapes, RowFields
  <2> QED BY <1>4, <2>3, <2>4, <1>0 DEF UpsertConnection, Held
<1>5. ASSUME NEW n \in Tokens, Age(n) PROVE Held'
  BY <1>5, <1>0 DEF Age, Held
<1>6. CASE UNCHANGED vars
  BY <1>6, <1>0 DEF vars, Held
<1> QED BY <1>1, <1>2, <1>3, <1>4, <1>5, <1>6 DEF Next

\* A grant the provider does not rotate survives every interleaving of attempts on
\* any number of workers with crashes, lost answers, failed reads and writes and new
\* consents: the stored refresh token is never blanked nor replaced
\* (persistRotatedToken, UpsertConnection), so nothing is told invalid_grant.
THEOREM ReusedGrantAlwaysSurvives == Spec => []ReusedGrantSurvives
<1>1. Init => IInv
  BY InitHolds
<1>2. IInv /\ [Next]_vars => IInv'
  BY ShapesKept, GrantKept DEF IInv
<1>3. IInv => ReusedGrantSurvives
  BY DEF IInv, OneGrant, Held, ReusedGrantSurvives
<1> QED BY <1>1, <1>2, <1>3, PTL DEF Spec

-----------------------------------------------------------------------------
(* One worker.                                                               *)

InLock(x) == x.pc \in {"holding", "asked"}

\* Whoever is between lock and unlock holds the mutex of its worker.
Mutex ==
    /\ home \in [Attempts -> Workers]
    /\ lock \in [Workers -> Attempts \cup {None}]
    /\ \A a \in Attempts : InLock(att[a]) => lock[home[a]] = a

\* An attempt changes alone, and takes, keeps or frees the mutex of its worker.
LEMMA MutexMoves ==
    ASSUME Shapes, Mutex, NEW a \in Attempts, NEW x, att' = [att EXCEPT ![a] = x], home' = home,
           \/ lock' = lock /\ (InLock(x) => InLock(att[a]))
           \/ lock[home[a]] = None /\ lock' = [lock EXCEPT ![home[a]] = a]
           \/ InLock(att[a]) /\ ~InLock(x) /\ lock' = [lock EXCEPT ![home[a]] = None]
    PROVE  Mutex'
<1>1. /\ home \in [Attempts -> Workers] /\ lock \in [Workers -> Attempts \cup {None}]
      /\ home[a] \in Workers /\ None \notin Attempts
      /\ att'[a] = x /\ \A b \in Attempts : b # a => att'[b] = att[b]
  BY NoneAssumption DEF Mutex, Shapes
<1>2. lock' \in [Workers -> Attempts \cup {None}]
  BY <1>1
<1>3. ASSUME NEW b \in Attempts, InLock(att'[b]) PROVE lock'[home[b]] = b
  <2>1. CASE b = a
    BY <1>1, <1>3, <2>1 DEF Mutex
  <2>2. CASE b # a
    <3>1. lock[home[b]] = b /\ home[b] \in Workers
      BY <1>1, <1>3, <2>2 DEF Mutex
    <3>2. InLock(att[a]) => lock[home[a]] = a
      BY DEF Mutex
    <3> QED BY <1>1, <2>2, <3>1, <3>2, SMTT(30)
  <2> QED BY <2>1, <2>2
<1> QED BY <1>1, <1>2, <1>3 DEF Mutex

\* The mutex is exclusive on every worker.
LEMMA MutexKept == Shapes /\ Mutex /\ [Next]_vars => Mutex'
<1> SUFFICES ASSUME Shapes, Mutex, [Next]_vars PROVE Mutex'
  OBVIOUS
<1>1. ASSUME NEW a \in Attempts, Steps(a) PROVE Mutex'
  <2>0. att[a] \in AttemptType /\ ~InLock(Idle)
    BY DEF Shapes, InLock, Idle
  <2>1. CASE Load(a)
    <3> DEFINE x == [att[a] EXCEPT !.pc = "loaded", !.conn = row]
    <3>1. att' = [att EXCEPT ![a] = x] /\ lock' = lock /\ home' = home
      BY <2>1, Zenon DEF Load
    <3>2. ~InLock(x)
      BY <2>0 DEF InLock, AttemptType
    <3> QED BY <3>1, <3>2, MutexMoves, Zenon
  <2>2. CASE clientFor(a)
    <3>1. ~InLock([att[a] EXCEPT !.pc = "waiting"])
      BY <2>0 DEF InLock, AttemptType
    <3>2. att' = [att EXCEPT ![a] = Idle] \/ att' = [att EXCEPT ![a] = [att[a] EXCEPT !.pc = "waiting"]]
      BY <2>2 DEF clientFor, Ends, Goes
    <3>3. lock' = lock /\ home' = home
      BY <2>2 DEF clientFor
    <3> QED BY <2>0, <3>1, <3>2, <3>3, MutexMoves
  <2>3. CASE Lock(a)
    <3>1. lock[home[a]] = None /\ home' = home
      BY <2>3 DEF Lock
    <3>2. \/ att' = [att EXCEPT ![a] = Idle] /\ lock' = lock
          \/ /\ \E x : att' = [att EXCEPT ![a] = x]
             /\ lock' = [lock EXCEPT ![home[a]] = a]
      BY <2>3 DEF Lock, Ends, Goes
    <3> QED BY <2>0, <3>1, <3>2, MutexMoves
  <2>4. CASE Reuse(a)
    <3>1. (\E x : att' = [att EXCEPT ![a] = x]) /\ lock' = lock /\ home' = home /\ InLock(att[a])
      BY <2>4, Zenon DEF Reuse, At, InLock
    <3> QED BY <3>1, MutexMoves, Zenon
  <2>5. CASE Refresh(a)
    <3>1. InLock(att[a]) /\ home' = home
      BY <2>5 DEF Refresh, Asks, At, InLock
    <3>2. \/ (\E x : att' = [att EXCEPT ![a] = x]) /\ lock' = lock
          \/ att' = [att EXCEPT ![a] = Idle] /\ lock' = [lock EXCEPT ![home[a]] = None]
      BY <2>5 DEF Refresh, Ends, Unlock
    <3> QED BY <2>0, <3>1, <3>2, MutexMoves
  <2>6. CASE Unavailable(a) \/ InvalidGrant(a) \/ persistRotatedToken(a)
    <3>1. InLock(att[a]) /\ home' = home
      BY <2>6 DEF Unavailable, InvalidGrant, persistRotatedToken, Asks, At, InLock
    <3>2. att' = [att EXCEPT ![a] = Idle] /\ lock' = [lock EXCEPT ![home[a]] = None]
      BY <2>6 DEF Unavailable, InvalidGrant, persistRotatedToken, Ends, Unlock
    <3> QED BY <2>0, <3>1, <3>2, MutexMoves, Zenon
  <2> QED BY <1>1, <2>1, <2>2, <2>3, <2>4, <2>5, <2>6, SMTT(30) DEF Steps
<1>2. ASSUME NEW w \in Workers, Crash(w) PROVE Mutex'
  <2>1. /\ att' = [a \in Attempts |-> IF home[a] = w THEN Idle ELSE att[a]]
        /\ lock' = [lock EXCEPT ![w] = None] /\ home' = home
    BY <1>2 DEF Crash
  <2>2. ~InLock(Idle)
    BY DEF InLock, Idle
  <2> QED BY <2>1, <2>2 DEF Mutex
<1>3. CASE UNCHANGED <<att, lock, home>>
  BY <1>3 DEF Mutex
<1>4. Exchange \/ UpsertConnection \/ (\E n \in Tokens : Age(n)) \/ UNCHANGED vars => UNCHANGED <<att, lock, home>>
  BY DEF Exchange, UpsertConnection, Age, vars
<1> QED BY <1>1, <1>2, <1>3, <1>4 DEF Next

\* Where the grant is on one worker: stored, and unchanged while somebody may ask
\* with it, or in the hands of the one attempt that is about to store it.
Keeps(x) ==
    /\ x.pc = "holding" => x.conn.refresh = valid /\ row.refresh = valid
    /\ x.pc = "asked" => x.tok.refresh = valid \/ (x.tok.refresh = None /\ row.refresh = valid)

Kept ==
    /\ status = "connected" /\ consent = Token(None, None)
    /\ (\A a \in Attempts : ~At(a, "asked")) => row.refresh = valid
    /\ \A a \in Attempts : Keeps(att[a])

Undisturbed == row.expires /\ faults = <<>> /\ \A a, b \in Attempts : home[a] = home[b]

FaultKinds == {"read", "answer", "write", "crash", "consent"}

MInv ==
    /\ Shapes /\ Mutex
    /\ faults \in Seq(FaultKinds) /\ valid \in Nat
    /\ Undisturbed => Kept

\* On one worker, at most one attempt is between lock and unlock.
LEMMA Alone ==
    ASSUME Mutex, \A a, b \in Attempts : home[a] = home[b], NEW a \in Attempts, InLock(att[a])
    PROVE  \A b \in Attempts : b # a => ~InLock(att[b])
  BY DEF Mutex

\* An attempt that had not asked changes alone and the rest stays.
LEMMA KeptByOne ==
    ASSUME Shapes, Kept, UNCHANGED <<row, status, consent, valid>>,
           NEW a \in Attempts, NEW x, att' = [att EXCEPT ![a] = x],
           att[a].pc # "asked", Keeps(x)
    PROVE  Kept'
<1>1. att'[a] = x /\ \A b \in Attempts : b # a => att'[b] = att[b]
  BY Zenon DEF Shapes
<1>2. (\A b \in Attempts : Keeps(att[b]))'
  BY <1>1 DEF Kept, Keeps
<1>3. (\A b \in Attempts : ~At(b, "asked"))' => \A b \in Attempts : ~At(b, "asked")
  BY <1>1, Zenon DEF At
<1> QED BY <1>2, <1>3 DEF Kept

\* The one attempt inside the lock changes, with the stored row or the grant.
LEMMA KeptInside ==
    ASSUME Shapes, Mutex, Kept, \A a, b \in Attempts : home[a] = home[b], UNCHANGED <<status, consent>>,
           NEW a \in Attempts, NEW x, att' = [att EXCEPT ![a] = x], InLock(att[a]),
           \/ x.pc = "asked" /\ x.tok.refresh = valid'
           \/ x.pc = "asked" /\ x.tok.refresh = None /\ row'.refresh = valid'
           \/ x.pc = "idle" /\ row'.refresh = valid'
    PROVE  Kept'
<1>1. att'[a] = x /\ \A b \in Attempts : b # a => att'[b] = att[b] /\ ~InLock(att[b])
  BY Alone DEF Shapes
<1>2. ASSUME NEW b \in Attempts PROVE Keeps(att[b])'
  <2>1. CASE b = a
    BY <1>1, <2>1 DEF Keeps
  <2>2. CASE b # a
    BY <1>1, <2>2 DEF Keeps, InLock
  <2> QED BY <2>1, <2>2
<1>3. (\A b \in Attempts : ~At(b, "asked"))' => row'.refresh = valid'
  BY <1>1 DEF At
<1> QED BY <1>2, <1>3, Zenon DEF Kept

\* A step either records what went wrong in it, or leaves the record.
LEMMA FaultsGrow ==
    ASSUME [Next]_vars
    PROVE  faults' = faults \/ \E kind \in FaultKinds : Fault(kind)
<1>1. ASSUME NEW a \in Attempts, Steps(a) PROVE faults' = faults \/ \E kind \in FaultKinds : Fault(kind)
  <2>1. CASE Load(a) \/ clientFor(a) \/ Reuse(a) \/ Unavailable(a) \/ InvalidGrant(a)
    BY <2>1 DEF Load, clientFor, Reuse, Unavailable, InvalidGrant
  <2>2. Lock(a) => faults' = faults \/ Fault("read")
    BY DEF Lock
  <2>3. Refresh(a) => faults' = faults \/ Fault("answer")
    BY DEF Refresh
  <2>4. persistRotatedToken(a) => faults' = faults \/ Fault("write")
    BY DEF persistRotatedToken
  <2> QED BY <1>1, <2>1, <2>2, <2>3, <2>4 DEF Steps, FaultKinds
<1>2. \A w \in Workers : Crash(w) => Fault("crash")
  BY DEF Crash
<1>3. Exchange => Fault("consent")
  BY DEF Exchange
<1>4. UpsertConnection \/ (\E n \in Tokens : Age(n)) \/ UNCHANGED vars => faults' = faults
  BY DEF UpsertConnection, Age, vars
<1> QED BY <1>1, <1>2, <1>3, <1>4 DEF Next, FaultKinds

\* Nothing that has gone wrong is forgotten.
LEMMA FaultStays ==
    ASSUME faults \in Seq(FaultKinds), NEW kind \in FaultKinds, Fault(kind)
    PROVE  faults' \in Seq(FaultKinds) /\ faults' # <<>>
  BY DEF Fault

\* The worker of an attempt and the kind of the credentials stay.
LEMMA StillUndisturbed ==
    ASSUME MInv, [Next]_vars, Undisturbed'
    PROVE  Undisturbed /\ faults' = faults /\ \A kind \in FaultKinds : ~Fault(kind)
<1>1. faults' = faults /\ \A kind \in FaultKinds : ~Fault(kind)
  BY FaultsGrow, FaultStays DEF MInv, Undisturbed
<1>2. home' = home
  BY Zenon DEF Next, vars, Steps, Load, clientFor, Lock, Reuse, Refresh, Unavailable, InvalidGrant,
         persistRotatedToken, Crash, Exchange, UpsertConnection, Age
<1>3. row' = row \/ \E x, y : row' = Stores(row, x, y)
  BY Zenon DEF Next, vars, Steps, Load, clientFor, Lock, Reuse, Refresh, Unavailable, InvalidGrant,
         persistRotatedToken, Crash, Exchange, UpsertConnection, Age, Stores
<1>4. row \in RowType => (\A x, y : Stores(row, x, y).expires = row.expires)
  BY DEF RowType, Stores
<1>5. row.expires
  BY <1>3, <1>4 DEF Undisturbed, MInv, Shapes
<1> QED BY <1>1, <1>2, <1>5 DEF Undisturbed

\* With nothing disturbing it, every step keeps track of the grant.
LEMMA KeptStays == MInv /\ [Next]_vars /\ Undisturbed' => Kept'
<1> SUFFICES ASSUME MInv, [Next]_vars, Undisturbed' PROVE Kept'
  OBVIOUS
<1>0. /\ Shapes /\ Mutex /\ Kept /\ valid \in Nat /\ valid # None
      /\ \A a, b \in Attempts : home[a] = home[b]
      /\ \A kind \in FaultKinds : ~Fault(kind)
  BY StillUndisturbed, NoneAssumption DEF MInv, Undisturbed
<1>1. ASSUME NEW a \in Attempts, Steps(a) PROVE Kept'
  <2>0. /\ att[a] \in AttemptType /\ att[a].conn \in RowType /\ att[a].tok \in TokenType
        /\ row \in RowType /\ issued \in Nat /\ Keeps(att[a])
    BY <1>0, Zenon DEF Shapes, AttemptType, Kept
  <2>i. Idle.pc = "idle" /\ Keeps(Idle)
    BY DEF Idle, Keeps
  <2>1. CASE Load(a)
    <3> DEFINE x == [att[a] EXCEPT !.pc = "loaded", !.conn = row]
    <3>1. att' = [att EXCEPT ![a] = x] /\ att[a].pc # "asked" /\ UNCHANGED <<row, status, consent, valid>>
      BY <2>1, Zenon DEF Load, At
    <3>2. Keeps(x)
      BY <2>0 DEF Keeps, AttemptType
    <3> QED BY <1>0, <3>1, <3>2, KeptByOne, Zenon
  <2>2. CASE clientFor(a)
    <3>1. att[a].pc # "asked" /\ UNCHANGED <<row, status, consent, valid>>
      BY <2>2 DEF clientFor, At
    <3>2. Keeps([att[a] EXCEPT !.pc = "waiting"])
      BY <2>0 DEF Keeps, AttemptType
    <3>3. att' = [att EXCEPT ![a] = Idle] \/ att' = [att EXCEPT ![a] = [att[a] EXCEPT !.pc = "waiting"]]
      BY <2>2 DEF clientFor, Ends, Goes
    <3> QED BY <1>0, <2>i, <3>1, <3>2, <3>3, KeptByOne, ZenonT(60)
  <2>3. CASE Lock(a)
    \* The lock was free, so nobody had asked and the row holds the grant.
    <3> DEFINE seen == Sees(row, IF row.refresh = None THEN att[a].conn.refresh ELSE row.refresh)
    <3>1. /\ att[a].pc # "asked" /\ lock[home[a]] = None
          /\ UNCHANGED <<row, status, consent, valid>>
      BY <2>3, SMTT(30) DEF Lock, At
    <3>2. \A b \in Attempts : ~At(b, "asked")
      BY <1>0, <3>1, NoneAssumption, SMTT(30) DEF Mutex, InLock, At
    <3>3. row.refresh = valid
      BY <1>0, <3>2, SMTT(30) DEF Kept
    <3>4. seen.refresh = valid
      BY <3>3, <1>0, <2>0, RowFields, RowShapes, ZenonT(60)
    <3>5. att' = [att EXCEPT ![a] = Idle] \/ att' = [att EXCEPT ![a] = [att[a] EXCEPT !.pc = "holding", !.conn = seen]]
      BY <2>3, <1>0, Zenon DEF Lock, Ends, Sees, FaultKinds
    <3> HIDE DEF seen
    <3>6. Keeps([att[a] EXCEPT !.pc = "holding", !.conn = seen])
      BY <3>3, <3>4, <2>0 DEF Keeps, AttemptType
    <3> QED BY <1>0, <2>i, <3>1, <3>5, <3>6, KeptByOne, SMTT(30)
  <2>4. CASE Reuse(a)
    <3> DEFINE t == Token(att[a].conn.access, att[a].conn.refresh)
    <3>1. att[a].pc = "holding" /\ UNCHANGED <<row, status, consent, valid>>
      BY <2>4 DEF Reuse, At
    <3>2. t.refresh = valid
      BY <3>1, <2>0, RowShapes, RowFields, Zenon DEF Keeps
    <3>3. att' = [att EXCEPT ![a] = [att[a] EXCEPT !.pc = "asked", !.tok = t]]
      BY <2>4, Zenon DEF Reuse
    <3> HIDE DEF t
    <3>4. Keeps([att[a] EXCEPT !.pc = "asked", !.tok = t])
      BY <3>2, <2>0 DEF Keeps, AttemptType
    <3> QED BY <1>0, <3>1, <3>3, <3>4, KeptByOne, Zenon
  <2>5. CASE Refresh(a)
    \* A rotated grant is in the attempt's hands; one that stays is in the row.
    <3>1. PICK rotates \in BOOLEAN :
            /\ Issues(rotates)
            /\ att' = [att EXCEPT ![a] = [att[a] EXCEPT !.pc = "asked",
                                                     !.tok = Token(issued', IF rotates THEN issued' ELSE None)]]
      BY <2>5, <1>0, ZenonT(60) DEF Refresh, FaultKinds
    <3> DEFINE t == Token(issued', IF rotates THEN issued' ELSE None)
               x == [att[a] EXCEPT !.pc = "asked", !.tok = t]
    <3>2. issued' \in Nat /\ valid' = IF rotates THEN issued' ELSE valid
      BY <3>1, <2>0 DEF Issues
    <3>3. att[a].pc = "holding" /\ UNCHANGED <<row, status, consent>>
      BY <2>5 DEF Refresh, Asks, At
    <3>4. row.refresh = valid
      BY <3>3, <2>0 DEF Keeps
    <3>5. t.refresh = IF rotates THEN issued' ELSE None
      BY <3>2, RowShapes, RowFields, Zenon
    <3>6. att' = [att EXCEPT ![a] = x]
      BY <3>1
    <3> HIDE DEF t
    <3>7. x.pc = "asked" /\ x.tok = t
      BY <2>0 DEF AttemptType
    <3> HIDE DEF x
    <3> QED BY <1>0, <3>2, <3>3, <3>4, <3>5, <3>6, <3>7, KeptInside, Zenon DEF InLock
  <2>6. CASE Unavailable(a)
    BY <2>6, <1>0, <2>i, KeptByOne, Zenon DEF Unavailable, Asks, At, Ends
  <2>7. CASE InvalidGrant(a)
    \* Whoever asks holds the grant, so it cannot be refused.
    BY <2>7, <2>0 DEF InvalidGrant, Asks, At, Keeps
  <2>8. CASE persistRotatedToken(a)
    <3> DEFINE kept == IF att[a].tok.refresh = None THEN row.refresh ELSE att[a].tok.refresh
    <3>1. /\ kept \in MaybeToken /\ att[a].tok.access \in MaybeToken
          /\ att[a].pc = "asked" /\ UNCHANGED <<status, consent, valid>>
      BY <2>0, <2>8, RowShapes, Zenon DEF persistRotatedToken, At
    <3>2. row' = Stores(row, att[a].tok.access, kept)
      BY <2>8, <1>0, SMTT(30) DEF persistRotatedToken, Stores, FaultKinds
    <3>3. kept = valid
      BY <3>1, <1>0, <2>0, SMTT(30) DEF Keeps
    <3>4. row'.refresh = valid
      <4> HIDE DEF kept
      <4> QED BY <3>1, <3>2, <3>3, <2>0, RowFields
    <3>5. att' = [att EXCEPT ![a] = Idle] /\ InLock(att[a])
      BY <2>8, <3>1 DEF persistRotatedToken, Ends, InLock
    <3> QED BY <1>0, <2>i, <3>1, <3>4, <3>5, KeptInside, Zenon
  <2> QED BY <1>1, <2>1, <2>2, <2>3, <2>4, <2>5, <2>6, <2>7, <2>8, SMTT(30) DEF Steps
<1>2. (\A w \in Workers : ~Crash(w)) /\ ~Exchange
  BY <1>0 DEF Crash, Exchange, FaultKinds
<1>3. ~UpsertConnection
  BY <1>0, Zenon DEF Kept, UpsertConnection
<1>4. ASSUME UNCHANGED <<row, status, consent, att, valid>> PROVE Kept'
  BY <1>4, <1>0 DEF Kept, Keeps, At
<1>5. (\E n \in Tokens : Age(n)) \/ UNCHANGED vars => UNCHANGED <<row, status, consent, att, valid>>
  BY DEF Age, vars
<1> QED BY <1>1, <1>2, <1>3, <1>4, <1>5 DEF Next

\* Before any attempt the grant is in the row.
LEMMA MInvInit == Init => MInv
<1> SUFFICES ASSUME Init PROVE MInv
  OBVIOUS
<1>1. Shapes
  BY InitHolds DEF IInv
<1>2. Mutex
  BY PlacementsAssumption DEF Init, Mutex, InLock, Idle
<1>3. faults \in Seq(FaultKinds) /\ valid \in Nat
  BY SMTT(30) DEF Init
<1>4. row.expires => row.refresh = valid
  BY SMTT(30) DEF Init, OAuth, PersonalToken, Installation, Row
<1>5. Undisturbed => Kept
  BY <1>4, SMTT(30) DEF Undisturbed, Kept, Keeps, Init, Idle
<1> QED BY <1>1, <1>2, <1>3, <1>5 DEF MInv

\* The mutex is exclusive, and on one undisturbed worker the grant is never lost:
\* the second look at the row under the lock (refreshedAccessToken) makes every
\* request carry the refresh token the provider accepts, and what a rotation brings
\* is stored before the lock is given back, for any number of attempts and tokens.
THEOREM GrantKeptOnOneWorker == Spec => []OneWorkerKeepsGrant
<1>1. Init => MInv
  BY MInvInit
<1>2. MInv /\ [Next]_vars => MInv'
  <2> SUFFICES ASSUME MInv, [Next]_vars PROVE MInv'
    OBVIOUS
  <2>1. Shapes' /\ Mutex'
    BY ShapesKept, MutexKept DEF MInv
  <2>2. faults' \in Seq(FaultKinds)
    BY FaultsGrow, FaultStays DEF MInv
  <2>3. valid' \in Nat
    <3>1. \A rotates \in BOOLEAN : Issues(rotates) => valid' \in Nat
      BY DEF Issues, MInv, Shapes
    <3>2. UNCHANGED valid \/ \E rotates \in BOOLEAN : Issues(rotates)
      BY Zenon DEF Next, vars, Steps, Load, clientFor, Lock, Reuse, Refresh, Unavailable, InvalidGrant,
             persistRotatedToken, Crash, Exchange, UpsertConnection, Age
    <3> QED BY <3>1, <3>2 DEF MInv
  <2> QED BY <2>1, <2>2, <2>3, KeptStays DEF MInv
<1>3. MInv => OneWorkerKeepsGrant
  BY NoneAssumption DEF MInv, Undisturbed, Kept, Keeps, At, OneWorkerKeepsGrant
<1> QED BY <1>1, <1>2, <1>3, PTL DEF Spec
=============================================================================
