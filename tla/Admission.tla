----------------------------- MODULE Admission -----------------------------
(* The adaptive admission limiter of the integrations worker                *)
(* (integrations/internal/admission/admission.go and                        *)
(* database/queries/admission.sql): one admission_bucket row, shared by     *)
(* every worker process, that bounds how many SyncUnit attempts may touch a *)
(* source with one credential at a time.  The row holds the learned limit L *)
(* (AIMD: additive increase on success, halving on a throttle), the count   *)
(* of slots taken and a Retry-After cooldown.                               *)
(*                                                                          *)
(* Each database statement is one step.  An attempt is one execution of the *)
(* SyncUnit activity from its Acquire to its deferred Release               *)
(* (integrations/internal/activity/activity.go).                            *)
EXTENDS Integers, FiniteSets

CONSTANTS
    Claimants,          \* the activity attempts that compete for a slot
    StartConcurrency,  \* RateBudget().StartConcurrency, floored at 1
    MaxConcurrency,    \* RateBudget().MaxConcurrency, floored at 1
    RetryAfters,       \* the Retry-After values a source sends, in ticks
    MaxLost            \* bound: attempts whose Release never reaches the row

ASSUME ConcurrencyAssumption ==
    /\ StartConcurrency \in Nat \ {0}
    /\ MaxConcurrency \in Nat \ {0}

ASSUME RetryAssumption == RetryAfters \subseteq Nat

ASSUME ClaimantsAssumption == IsFiniteSet(Claimants) /\ MaxLost \in Nat

VARIABLES
    limit,     \* concurrency_limit; 0 while the row does not exist (CurrentLimit)
    inFlight,  \* in_flight
    cooldown,  \* ticks left until cooldown_until; 0 when none is in effect
    attempt,   \* where each attempt is: "idle", "holding" or "recorded"
    lost,      \* history: slots whose holder vanished without a Release
    peak       \* history: the highest in_flight the row has had

avars == <<limit, inFlight, cooldown, attempt, lost, peak>>

Larger(m, n) == IF m >= n THEN m ELSE n

Smaller(m, n) == IF m <= n THEN m ELSE n

(* The highest value L can take: it starts at the seed and grows to the     *)
(* connector's cap.                                                         *)
Cap == Larger(StartConcurrency, MaxConcurrency)

Holders == {a \in Claimants : attempt[a] # "idle"}

AdmissionInit ==
    /\ limit = 0
    /\ inFlight = 0
    /\ cooldown = 0
    /\ attempt = [a \in Claimants |-> "idle"]
    /\ lost = 0
    /\ peak = 0

-----------------------------------------------------------------------------
(* The limiter's statements.                                                *)

(* SeedAdmissionBucket: INSERT ... ON CONFLICT DO NOTHING.                  *)
Seeded == IF limit = 0 THEN StartConcurrency ELSE limit

SlotFreeOffByOne == inFlight <= Seeded /\ cooldown = 0

(* The WHERE of AcquireAdmission: a slot is free and no cooldown is on.     *)
SlotFree == inFlight < Seeded /\ cooldown = 0

(* SeedAdmissionBucket, then the compare-and-swap.  A refusal leaves the    *)
(* attempt idle: SyncUnit returns a retryable error and Temporal schedules  *)
(* the unit again.                                                          *)
Acquire(a) ==
    /\ attempt[a] = "idle"
    /\ limit' = Seeded
    /\ \/ /\ SlotFree
          /\ inFlight' = inFlight + 1
          /\ attempt' = [attempt EXCEPT ![a] = "holding"]
          /\ peak' = Larger(peak, inFlight')
       \/ /\ ~SlotFree
          /\ UNCHANGED <<inFlight, attempt, peak>>
    /\ UNCHANGED <<cooldown, lost>>

IncreaseWithoutLoad ==
    IF limit < MaxConcurrency THEN Smaller(limit + 1, MaxConcurrency) ELSE limit

(* AdmissionAdditiveIncrease: one step towards the cap, under load only.    *)
AdditiveIncrease ==
    IF limit < MaxConcurrency /\ inFlight >= limit - 1
    THEN Smaller(limit + 1, MaxConcurrency)
    ELSE limit

(* AdmissionMultiplicativeDecrease: halve L, floor 1.                       *)
MultiplicativeDecrease == Larger(limit \div 2, 1)

Record(a) ==
    /\ attempt[a] = "holding"
    /\ attempt' = [attempt EXCEPT ![a] = "recorded"]
    /\ UNCHANGED <<inFlight, lost, peak>>

(* A clean drain: SyncUnit calls RecordSuccess while it holds its slot.     *)
RecordSuccess(a) ==
    /\ Record(a)
    /\ limit' = AdditiveIncrease
    /\ UNCHANGED cooldown

ThrottleFreesSlot(a, retryAfter) ==
    /\ attempt[a] = "holding"
    /\ attempt' = [attempt EXCEPT ![a] = "recorded"]
    /\ limit' = MultiplicativeDecrease
    /\ inFlight' = Larger(inFlight - 1, 0)
    /\ cooldown' = retryAfter
    /\ UNCHANGED <<lost, peak>>

(* The source throttled the drain: the cooldown is overwritten by this      *)
(* Retry-After, or cleared when it is not positive.                         *)
RecordThrottle(a, retryAfter) ==
    /\ Record(a)
    /\ limit' = MultiplicativeDecrease
    /\ cooldown' = retryAfter

(* Any other connector error tells the limiter nothing.                     *)
FailWithoutFeedback(a) ==
    /\ Record(a)
    /\ UNCHANGED <<limit, cooldown>>

ReleaseForgotten(a) ==
    /\ attempt[a] = "recorded"
    /\ attempt' = [attempt EXCEPT ![a] = "idle"]
    /\ UNCHANGED <<limit, inFlight, cooldown, lost, peak>>

(* ReleaseAdmission, from SyncUnit's defer: GREATEST(in_flight - 1, 0).     *)
Release(a) ==
    /\ attempt[a] = "recorded"
    /\ attempt' = [attempt EXCEPT ![a] = "idle"]
    /\ inFlight' = Larger(inFlight - 1, 0)
    /\ UNCHANGED <<limit, cooldown, lost, peak>>

(* The slot's holder ends without the row being updated: the worker         *)
(* crashed, or the deferred Release ran on the cancelled context of a       *)
(* stopped activity and its UPDATE was refused (the error is discarded).    *)
LoseRelease(a) ==
    /\ attempt[a] \in {"holding", "recorded"}
    /\ lost < MaxLost
    /\ attempt' = [attempt EXCEPT ![a] = "idle"]
    /\ lost' = lost + 1
    /\ UNCHANGED <<limit, inFlight, cooldown, peak>>

(* The clock: cooldown_until comes one tick closer.                         *)
Tick ==
    /\ cooldown > 0
    /\ cooldown' = cooldown - 1
    /\ UNCHANGED <<limit, inFlight, attempt, lost, peak>>

Finish(a) ==
    \/ RecordSuccess(a)
    \/ \E r \in RetryAfters : RecordThrottle(a, r)
    \/ FailWithoutFeedback(a)

AdmissionNext ==
    \/ \E a \in Claimants : Acquire(a) \/ Finish(a) \/ Release(a) \/ LoseRelease(a)
    \/ Tick

AdmissionSpec == AdmissionInit /\ [][AdmissionNext]_avars

(* A connector call ends (its HTTP client and the activity have timeouts),  *)
(* a deferred Release runs, and time passes.                                *)
AdmissionFairSpec ==
    /\ AdmissionSpec
    /\ WF_avars(Tick)
    /\ \A a \in Claimants : WF_avars(Finish(a)) /\ WF_avars(Release(a))

-----------------------------------------------------------------------------
(* The shape of the state: the row's columns and each attempt's place.      *)
AdmissionTypeOK ==
    /\ limit \in 0..Cap
    /\ inFlight \in Nat
    /\ cooldown \in Nat
    /\ attempt \in [Claimants -> {"idle", "holding", "recorded"}]
    /\ lost \in 0..MaxLost
    /\ peak \in Nat

(* in_flight is exactly the slots somebody took and has not given back:     *)
(* neither the clamp in ReleaseAdmission nor a throttle ever loses count.   *)
SlotAccounting == inFlight = Cardinality(Holders) + lost

(* The compare-and-swap never admits more attempts at once than the highest *)
(* limit the row can learn, whatever order acquires, halvings and releases  *)
(* happen in.                                                               *)
NeverOverCap == Cardinality(Holders) <= Cap /\ inFlight <= Cap

(* RecordSuccess: "an idle bucket must not drift its limit upward without   *)
(* real load behind it".  L stays within two of the load ever seen.         *)
LimitTracksLoad == limit <= Larger(StartConcurrency, peak + 2)

(* MultiplicativeDecrease never takes a seeded row to a limit of zero,      *)
(* where every Acquire would be refused for good.                           *)
LimitNeverZeroAgain == [][limit > 0 => limit' > 0]_avars

(* The same, for the rows where it holds: a bucket refuses for good only    *)
(* when releases that never arrived have used its whole limit up.           *)
RefusesOnlyForLostSlots == []<>(SlotFree \/ lost >= Seeded)
=============================================================================
