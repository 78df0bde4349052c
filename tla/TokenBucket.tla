---------------------------- MODULE TokenBucket -----------------------------
(***************************************************************************)
(* A token bucket under every sequence of its operations: takes, refunds,  *)
(* overage charges and retunes by threads that read the clock before they  *)
(* get the bucket's mutex, so that the times arrive out of order           *)
(* (crates/hypellm-core/src/admission.rs, TokenBucket).                    *)
(***************************************************************************)
EXTENDS BucketOps

CONSTANTS
  Shapes,   \* the shapes a policy may publish
  Amounts,  \* the units an operation may name
  Steps,    \* how many milliseconds may pass at once
  MaxTime,  \* bound: the clock
  MaxOps    \* bound: the operations

ASSUME BucketAssumption ==
  /\ Shapes \subseteq [capacity : 0 .. U64_MAX, refill : Nat]
  /\ Amounts \subseteq Nat /\ Steps \subseteq Nat \ {0}
  /\ MaxTime \in Nat /\ MaxOps \in Nat

VARIABLES
  bucket,  \* the BucketState
  clock,   \* the monotonic clock
  ops,     \* how many operations there were
  earned,  \* the first level, and what refills have brought since
  taken,   \* what takes and charges have drawn
  refunded \* what refunds have named

bucketVars == <<bucket, clock, ops, earned, taken, refunded>>

BucketInit ==
  /\ \E shape \in Shapes : bucket = full(shape, 0)
  /\ clock = 0 /\ ops = 0
  /\ earned = bucket.capacity /\ taken = 0 /\ refunded = 0

TimePasses(ms) ==
  /\ clock + ms <= MaxTime
  /\ clock' = clock + ms
  /\ UNCHANGED <<bucket, ops, earned, taken, refunded>>

\* What a thread may have read off the clock, now or a while ago.
Readings == {t \in {clock} \cup {clock - ms : ms \in Steps} : t >= 0}

Operation ==
  /\ ops < MaxOps
  /\ ops' = ops + 1
  /\ UNCHANGED clock

Refilled(now) == earned' = earned + Earned(bucket, now)

TryTake(amount, now) ==
  LET b == refill_locked(bucket, now) IN
  /\ Operation
  /\ Refilled(now)
  /\ IF Admits(b, amount)
     THEN bucket' = Taken(b, amount) /\ taken' = taken + Milli(amount)
     ELSE bucket' = b /\ UNCHANGED taken
  /\ UNCHANGED refunded

Refund(amount) ==
  /\ Operation
  /\ bucket' = refund(bucket, amount)
  /\ refunded' = refunded + Milli(amount)
  /\ UNCHANGED <<earned, taken>>

Charge(amount, now) ==
  LET b == refill_locked(bucket, now) IN
  /\ Operation
  /\ Refilled(now)
  /\ bucket' = Charged(b, amount)
  /\ taken' = taken + Least(b.level, Milli(amount))
  /\ UNCHANGED refunded

Retune(shape, now) ==
  LET b == refill_locked(bucket, now) IN
  /\ Operation
  /\ Refilled(now)
  /\ bucket' = Retuned(b, shape)
  /\ UNCHANGED <<taken, refunded>>

BucketNext ==
  \/ \E ms \in Steps : TimePasses(ms)
  \/ \E amount \in Amounts, now \in Readings : TryTake(amount, now) \/ Charge(amount, now)
  \/ \E amount \in Amounts : Refund(amount)
  \/ \E shape \in Shapes, now \in Readings : Retune(shape, now)

BucketSpec == BucketInit /\ [][BucketNext]_bucketVars

-----------------------------------------------------------------------------
(* Properties *)

\* The types of the bucket's fields and of the totals.
BucketTypeOK ==
  /\ bucket \in [capacity : Nat, refill : Nat, level : Nat, last : Nat, debt : Nat]
  /\ clock \in Nat /\ ops \in 0 .. MaxOps
  /\ earned \in Nat /\ taken \in Nat /\ refunded \in Nat

(***************************************************************************)
(* The level never exceeds the capacity in force, whatever refunds and     *)
(* retunes came, and a bucket in debt is empty, so that nothing else is    *)
(* admitted until it is paid.                                              *)
(***************************************************************************)
CappedAndPaid ==
  /\ bucket.level <= bucket.capacity
  /\ bucket.debt > 0 => bucket.level = 0

(***************************************************************************)
(* try_take: the rate is honoured over time.  All that was ever drawn came *)
(* from the first fill, the refills and the refunds, but for the debt that *)
(* is still to be paid; what is in the bucket is not spent yet.            *)
(***************************************************************************)
RateHonoured == taken + bucket.level <= earned + refunded + bucket.debt

=============================================================================
