----------------------------- MODULE BucketOps ------------------------------
(***************************************************************************)
(* The arithmetic of TokenBucket (crates/hypellm-core/src/admission.rs):   *)
(* a bucket is a record, an operation maps it to the bucket after it.      *)
(* Amounts are whole units, levels thousandths of one, times milliseconds; *)
(* sums and products saturate at U64_MAX as the code's do.                 *)
(***************************************************************************)
EXTENDS Integers

CONSTANT U64_MAX  \* 2^64 - 1 in the code; smaller where TLC is to reach it

ASSUME WidthAssumption == U64_MAX \in Nat /\ U64_MAX >= 1000

Least(a, b) == IF a < b THEN a ELSE b
Most(a, b) == IF a < b THEN b ELSE a
Saturated(x) == Least(x, U64_MAX)

\* BucketShape: capacity_milli and refill_milli_per_ms.
per_second(rate, burst) ==
  [capacity |-> Saturated(Most(Most(burst, rate), 1) * 1000), refill |-> rate]

per_minute(rate, burst) ==
  [capacity |-> Saturated(Most(Most(burst, (rate + 59) \div 60), 1) * 1000),
   refill   |-> Saturated(rate * 1000) \div 60000]

full(shape, now) ==
  [capacity |-> shape.capacity, refill |-> shape.refill, level |-> shape.capacity,
   last |-> now, debt |-> 0]

\* Debt is paid first, and the level is capped.
credit(b, amount) ==
  LET paid == Least(amount, b.debt) IN
  [b EXCEPT !.debt = @ - paid, !.level = Least(@ + (amount - paid), b.capacity)]

\* What the time since the last refill brings; a time read earlier brings nothing.
Earned(b, now) == IF now <= b.last THEN 0 ELSE Saturated((now - b.last) * b.refill)

refill_locked(b, now) ==
  IF now <= b.last THEN b ELSE [credit(b, Earned(b, now)) EXCEPT !.last = now]

Milli(amount) == Saturated(amount * 1000)

\* On a refilled bucket: may the amount be taken, and what is left.
Admits(b, amount) ==
  /\ b.debt = 0
  /\ IF Milli(amount) > b.capacity THEN b.level >= b.capacity ELSE b.level >= Milli(amount)

\* A mutant: an oversized amount is charged only what the bucket has.
Taken_Clamped(b, amount) ==
  [b EXCEPT !.level = Most(@ - Milli(amount), 0)]

\* An oversized amount is charged in full, the excess as debt.
Taken(b, amount) ==
  IF Milli(amount) > b.capacity
  THEN [b EXCEPT !.debt = Milli(amount) - b.level, !.level = 0]
  ELSE [b EXCEPT !.level = @ - Milli(amount)]

refund(b, amount) == credit(b, Milli(amount))

\* On a refilled bucket: what is short is forgiven.
Charged(b, amount) == [b EXCEPT !.level = Most(@ - Milli(amount), 0)]

\* On a refilled bucket: a new shape, the level clamped and never raised.
Retuned(b, shape) ==
  [b EXCEPT !.capacity = shape.capacity, !.refill = shape.refill,
            !.level = Least(@, shape.capacity)]
=============================================================================
