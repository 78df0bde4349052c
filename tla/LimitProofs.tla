----------------------------- MODULE LimitProofs -----------------------------
(***************************************************************************)
(* Proofs about the limits a key or a tenant is held to.                   *)
(*                                                                         *)
(* A bucket of any shapes, at any integer width, under any sequence of     *)
(* operations: the rate is honoured.  The invariant couples three facts    *)
(* that only hold together: a refund or a refill is split between debt and *)
(* level by their present values, so that what the level holds must be     *)
(* known to be capped (an oversized take charges from a full level) and    *)
(* the sums to be naturals.                                                *)
(*                                                                         *)
(* A spend budget of any number of requests: whoever rolls the period,     *)
(* nobody is charged with the one before.                                  *)
(*                                                                         *)
(* A key's budget, for any attempts, limits, payments and quantities: the  *)
(* ledger on disk covers what is spent and held, no restart forgives a     *)
(* token, no payment counts twice and no conditional edit is lost.         *)
(*                                                                         *)
(* A machine's memory, for any work, sizes and capacities: the ledger adds *)
(* up to what runs, and nobody sleeps on memory it could have.             *)
(***************************************************************************)
EXTENDS TokenBucket, SpendBudget, KeyBudget, MachineLedger, FiniteSetTheorems, TLAPS

-----------------------------------------------------------------------------
(* Rate buckets *)

Buckets == [capacity : Nat, refill : Nat, level : Nat, last : Nat, debt : Nat]

Sound(b) == b \in Buckets /\ b.level <= b.capacity /\ (b.debt > 0 => b.level = 0)

BucketInv == BucketTypeOK /\ CappedAndPaid /\ RateHonoured

-----------------------------------------------------------------------------

\* Saturation keeps a natural a natural.
LEMMA SaturatedNat == ASSUME NEW x \in Nat PROVE Saturated(x) \in Nat
  BY WidthAssumption DEF Saturated, Least

\* The thousandths of an amount.
LEMMA MilliNat == ASSUME NEW amount \in Nat PROVE Milli(amount) \in Nat
  BY SaturatedNat DEF Milli

\* What a refill brings is a natural.
LEMMA EarnedNat ==
  ASSUME NEW b \in Buckets, NEW reading \in Nat PROVE Earned(b, reading) \in Nat
  <1>1. CASE reading <= b.last
    BY <1>1 DEF Earned
  <1>2. CASE ~(reading <= b.last)
    <2>1. reading - b.last \in Nat /\ b.refill \in Nat
      BY <1>2 DEF Buckets
    <2>2. \A m, n \in Nat : m * n \in Nat
      OBVIOUS
    <2>3. (reading - b.last) * b.refill \in Nat
      BY <2>1, <2>2
    <2> QED
      BY <1>2, <2>3, SaturatedNat DEF Earned
  <1> QED
    BY <1>1, <1>2

\* credit: the bucket stays sound, and the level gains no more than the
\* amount less the debt it paid.
LEMMA CreditSound ==
  ASSUME NEW b, Sound(b), NEW amount \in Nat
  PROVE  /\ Sound(credit(b, amount))
         /\ credit(b, amount).level + b.debt <= b.level + amount + credit(b, amount).debt
  <1> DEFINE paid == Least(amount, b.debt)
             debt == b.debt - paid
             level == Least(b.level + (amount - paid), b.capacity)
             c == credit(b, amount)
  <1>1. b \in Buckets /\ b.level <= b.capacity /\ (b.debt > 0 => b.level = 0)
    BY DEF Sound
  <1>2. /\ b.level \in Nat /\ b.debt \in Nat /\ b.capacity \in Nat
        /\ b.refill \in Nat /\ b.last \in Nat
    BY <1>1 DEF Buckets
  <1>3. paid \in Nat /\ debt \in Nat /\ level \in Nat /\ amount - paid \in Nat
    BY <1>2 DEF Least
  <1>4. level <= b.capacity /\ (debt > 0 => level = 0)
    BY <1>1, <1>2 DEF Least
  <1>5. level + b.debt <= b.level + amount + debt
    BY <1>2 DEF Least
  <1>6. c = [b EXCEPT !.debt = debt, !.level = level]
    BY DEF credit
  <1> HIDE DEF paid, debt, level, c
  <1>7. /\ c.level = level /\ c.debt = debt /\ c.capacity = b.capacity
        /\ c \in Buckets
    BY <1>1, <1>2, <1>3, <1>6 DEF Buckets
  <1> QED
    BY <1>4, <1>5, <1>7 DEF Sound, c

\* refill_locked: the same of a refill.
LEMMA RefillSound ==
  ASSUME NEW b, Sound(b), NEW reading \in Nat
  PROVE  /\ Sound(refill_locked(b, reading))
         /\ refill_locked(b, reading).level + b.debt
              <= b.level + Earned(b, reading) + refill_locked(b, reading).debt
  <1>0. b \in Buckets
    BY DEF Sound
  <1>1. CASE reading <= b.last
    BY <1>0, <1>1 DEF refill_locked, Earned, Buckets
  <1>2. CASE ~(reading <= b.last)
    <2> DEFINE c == credit(b, Earned(b, reading))
    <2>1. Earned(b, reading) \in Nat
      BY <1>0, EarnedNat
    <2>2. Sound(c) /\ c.level + b.debt <= b.level + Earned(b, reading) + c.debt
      BY <2>1, CreditSound
    <2>3. refill_locked(b, reading) = [c EXCEPT !.last = reading]
      BY <1>2 DEF refill_locked
    <2> HIDE DEF c
    <2> QED
      BY <2>2, <2>3 DEF Sound, Buckets
  <1> QED
    BY <1>1, <1>2

\* The clock readings a thread may hold are naturals.
LEMMA ReadingsNat == ASSUME BucketInv PROVE Readings \subseteq Nat
  BY BucketAssumption DEF BucketInv, BucketTypeOK, Readings

-----------------------------------------------------------------------------

\* The facts of the invariant that a step may disturb, for a bucket c that
\* follows a sound b and totals e, t, r.
Paid(c, e, t, r) == t + c.level <= e + r + c.debt

\* A refill keeps the account.
LEMMA RefillPaid ==
  ASSUME BucketInv, NEW reading \in Nat
  PROVE  /\ Sound(bucket) /\ Earned(bucket, reading) \in Nat
         /\ Sound(refill_locked(bucket, reading))
         /\ Paid(refill_locked(bucket, reading), earned + Earned(bucket, reading), taken, refunded)
  <1>1. Sound(bucket) /\ bucket \in Buckets
    BY DEF BucketInv, BucketTypeOK, CappedAndPaid, Sound, Buckets
  <1> DEFINE b == refill_locked(bucket, reading)
             e == Earned(bucket, reading)
  <1>2. e \in Nat
    BY <1>1, EarnedNat
  <1>3. Sound(b) /\ b.level + bucket.debt <= bucket.level + e + b.debt
    BY <1>1, RefillSound
  <1>4. b \in Buckets
    BY <1>3 DEF Sound
  <1>5. taken + bucket.level <= earned + refunded + bucket.debt
    BY DEF BucketInv, RateHonoured
  <1>6. taken \in Nat /\ earned \in Nat /\ refunded \in Nat
    BY DEF BucketInv, BucketTypeOK
  <1> HIDE DEF b, e
  <1>7. taken + b.level <= (earned + e) + refunded + b.debt
    BY <1>1, <1>2, <1>3, <1>4, <1>5, <1>6 DEF Buckets
  <1> QED
    BY <1>1, <1>2, <1>3, <1>7 DEF Paid, b, e

\* Initially the bucket is full and owes nothing.
LEMMA BucketInitially == BucketInit => BucketInv
  <1> SUFFICES ASSUME BucketInit PROVE BucketInv
    OBVIOUS
  <1>1. PICK shape \in Shapes : bucket = full(shape, 0)
    BY DEF BucketInit
  <1>2. shape.capacity \in Nat /\ shape.refill \in Nat
    BY BucketAssumption, WidthAssumption
  <1> QED
    BY <1>1, <1>2, BucketAssumption
    DEF BucketInit, full, BucketInv, BucketTypeOK, CappedAndPaid, RateHonoured

\* Every operation preserves the invariant.
LEMMA BucketPreserved == BucketInv /\ [BucketNext]_bucketVars => BucketInv'
  <1> SUFFICES ASSUME BucketInv, [BucketNext]_bucketVars PROVE BucketInv'
    OBVIOUS
  <1> USE DEF Buckets
  <1>0. /\ clock \in Nat /\ ops \in 0 .. MaxOps /\ earned \in Nat /\ taken \in Nat
        /\ refunded \in Nat /\ MaxOps \in Nat
    BY BucketAssumption DEF BucketInv, BucketTypeOK
  <1>1. ASSUME NEW ms \in Steps, TimePasses(ms) PROVE BucketInv'
    BY <1>0, <1>1, BucketAssumption
    DEF BucketInv, BucketTypeOK, CappedAndPaid, RateHonoured, TimePasses
  <1>2. ASSUME NEW amount \in Amounts, NEW reading \in Readings, TryTake(amount, reading)
        PROVE BucketInv'
    <2> DEFINE b == refill_locked(bucket, reading)
               m == Milli(amount)
               e == Earned(bucket, reading)
    <2>1. reading \in Nat /\ amount \in Nat
      BY ReadingsNat, BucketAssumption
    <2>2. Sound(b) /\ e \in Nat /\ Paid(b, earned + e, taken, refunded)
      BY <2>1, RefillPaid
    <2>3. m \in Nat
      BY <2>1, MilliNat
    <2>4. ops' \in 0 .. MaxOps /\ clock' = clock /\ earned' = earned + e /\ refunded' = refunded
      BY <1>0, <1>2 DEF TryTake, Operation, Refilled
    <2>5. \/ Admits(b, amount) /\ bucket' = Taken(b, amount) /\ taken' = taken + m
          \/ bucket' = b /\ taken' = taken
      BY <1>2 DEF TryTake
    <2>6. Admits(b, amount) => /\ b.debt = 0
                               /\ m > b.capacity => b.level >= b.capacity
                               /\ ~(m > b.capacity) => b.level >= m
      BY DEF Admits
    <2>7. Taken(b, amount) = IF m > b.capacity
                             THEN [b EXCEPT !.debt = m - b.level, !.level = 0]
                             ELSE [b EXCEPT !.level = @ - m]
      BY DEF Taken
    <2> HIDE DEF b, m, e
    <2>8. CASE bucket' = b /\ taken' = taken
      BY <1>0, <2>2, <2>4, <2>8 DEF Sound, Paid, BucketInv, BucketTypeOK, CappedAndPaid, RateHonoured
    <2>9. CASE /\ Admits(b, amount) /\ bucket' = Taken(b, amount) /\ taken' = taken + m
               /\ m > b.capacity
      <3>1. b \in Buckets /\ b.debt = 0 /\ b.level = b.capacity /\ m - b.level \in Nat
        BY <2>2, <2>3, <2>6, <2>9 DEF Sound
      <3>2. bucket' = [b EXCEPT !.debt = m - b.level, !.level = 0]
        BY <2>7, <2>9
      <3>3. /\ bucket' \in Buckets /\ bucket'.level = 0 /\ bucket'.debt = m - b.level
            /\ bucket'.capacity = b.capacity
        BY <3>1, <3>2
      <3> QED
        BY <1>0, <2>2, <2>3, <2>4, <2>9, <3>1, <3>3
        DEF Paid, BucketInv, BucketTypeOK, CappedAndPaid, RateHonoured
    <2>10. CASE /\ Admits(b, amount) /\ bucket' = Taken(b, amount) /\ taken' = taken + m
                /\ ~(m > b.capacity)
      BY <1>0, <2>2, <2>3, <2>4, <2>6, <2>7, <2>10
      DEF Sound, Paid, BucketInv, BucketTypeOK, CappedAndPaid, RateHonoured
    <2> QED
      BY <2>5, <2>8, <2>9, <2>10
  <1>3. ASSUME NEW amount \in Amounts, NEW reading \in Readings, Charge(amount, reading)
        PROVE BucketInv'
    <2> DEFINE b == refill_locked(bucket, reading)
               m == Milli(amount)
               e == Earned(bucket, reading)
    <2>1. reading \in Nat /\ amount \in Nat
      BY ReadingsNat, BucketAssumption
    <2>2. Sound(b) /\ e \in Nat /\ Paid(b, earned + e, taken, refunded)
      BY <2>1, RefillPaid
    <2>3. m \in Nat
      BY <2>1, MilliNat
    <2>4. /\ ops' \in 0 .. MaxOps /\ clock' = clock /\ earned' = earned + e
          /\ refunded' = refunded /\ taken' = taken + Least(b.level, m)
          /\ bucket' = [b EXCEPT !.level = Most(@ - m, 0)]
      BY <1>0, <1>3 DEF Charge, Operation, Refilled, Charged
    <2> HIDE DEF b, m, e
    <2> QED
      BY <1>0, <2>2, <2>3, <2>4
      DEF Least, Most, Sound, Paid, BucketInv, BucketTypeOK, CappedAndPaid, RateHonoured
  <1>4. ASSUME NEW amount \in Amounts, Refund(amount) PROVE BucketInv'
    <2> DEFINE m == Milli(amount)
               c == credit(bucket, m)
    <2>1. m \in Nat
      BY MilliNat, BucketAssumption
    <2>2. Sound(bucket)
      BY DEF BucketInv, BucketTypeOK, CappedAndPaid, Sound
    <2>3. Sound(c) /\ c.level + bucket.debt <= bucket.level + m + c.debt
      BY <2>1, <2>2, CreditSound
    <2>4. /\ ops' \in 0 .. MaxOps /\ clock' = clock /\ earned' = earned /\ taken' = taken
          /\ refunded' = refunded + m /\ bucket' = c
      BY <1>0, <1>4 DEF Refund, Operation, refund
    <2> HIDE DEF m, c
    <2> QED
      BY <1>0, <2>1, <2>2, <2>3, <2>4
      DEF Sound, BucketInv, BucketTypeOK, CappedAndPaid, RateHonoured
  <1>5. ASSUME NEW shape \in Shapes, NEW reading \in Readings, Retune(shape, reading)
        PROVE BucketInv'
    <2> DEFINE b == refill_locked(bucket, reading)
               e == Earned(bucket, reading)
    <2>1. reading \in Nat /\ shape.capacity \in Nat /\ shape.refill \in Nat
      BY ReadingsNat, BucketAssumption, WidthAssumption
    <2>2. Sound(b) /\ e \in Nat /\ Paid(b, earned + e, taken, refunded)
      BY <2>1, RefillPaid
    <2>4. /\ ops' \in 0 .. MaxOps /\ clock' = clock /\ earned' = earned + e
          /\ refunded' = refunded /\ taken' = taken
          /\ bucket' = [b EXCEPT !.capacity = shape.capacity, !.refill = shape.refill,
                                 !.level = Least(@, shape.capacity)]
      BY <1>0, <1>5 DEF Retune, Operation, Refilled, Retuned
    <2> DEFINE level == Least(b.level, shape.capacity)
    <2> HIDE DEF b, e
    <2>5. /\ b \in Buckets /\ level \in Nat /\ level <= b.level /\ level <= shape.capacity
      BY <2>1, <2>2 DEF Sound, Least
    <2>6. bucket' = [b EXCEPT !.capacity = shape.capacity, !.refill = shape.refill,
                              !.level = level]
      BY <2>4
    <2> HIDE DEF level
    <2>7. /\ bucket' \in Buckets /\ bucket'.level = level /\ bucket'.debt = b.debt
          /\ bucket'.capacity = shape.capacity
      BY <2>1, <2>5, <2>6
    <2> QED
      BY <1>0, <2>1, <2>2, <2>4, <2>5, <2>7
      DEF Sound, Paid, BucketInv, BucketTypeOK, CappedAndPaid, RateHonoured
  <1>6. CASE UNCHANGED bucketVars
    BY <1>6 DEF bucketVars, BucketInv, BucketTypeOK, CappedAndPaid, RateHonoured
  <1> QED
    BY <1>1, <1>2, <1>3, <1>4, <1>5, <1>6 DEF BucketNext

(***************************************************************************)
(* TokenBucket::try_take, for every shape, amount, width and order of      *)
(* operations: what was drawn is covered by the first fill, the refills,   *)
(* the refunds and the debt still owed.                                    *)
(***************************************************************************)
THEOREM RateKept == BucketSpec => []RateHonoured
  <1>1. BucketInv => RateHonoured
    BY DEF BucketInv
  <1> QED
    BY <1>1, BucketInitially, BucketPreserved, PTL DEF BucketSpec

\* BucketState: the level stays under the capacity in force, and debt and a
\* level above zero exclude each other.
THEOREM LevelCapped == BucketSpec => []CappedAndPaid
  <1>1. BucketInv => CappedAndPaid
    BY DEF BucketInv
  <1> QED
    BY <1>1, BucketInitially, BucketPreserved, PTL DEF BucketSpec

-----------------------------------------------------------------------------
(* The spend budget *)

SpendTypeOK ==
  /\ spent \in Nat /\ due \in Nat
  /\ DOMAIN stage = Payers /\ stage = [r \in Payers |-> stage[r]]

SpendInv == SpendTypeOK /\ NoPhantomSpend

\* A thread's step moves its own stage only.
LEMMA StageMoves ==
  ASSUME SpendTypeOK, NEW r \in Payers, NEW step, Stage(r, step)
  PROVE  /\ stage'[r] = step /\ \A q \in Payers \ {r} : stage'[q] = stage[q]
         /\ DOMAIN stage' = Payers /\ stage' = [q \in Payers |-> stage'[q]]
  BY DEF SpendTypeOK, Stage

LEMMA SpendPreserved == SpendInv /\ [SpendNext]_spendVars => SpendInv'
  <1> SUFFICES ASSUME SpendInv, [SpendNext]_spendVars PROVE SpendInv'
    OBVIOUS
  <1>1. SpendTypeOK /\ (Resetting \/ spent <= due)
    BY DEF SpendInv, NoPhantomSpend
  <1>2. ASSUME NEW r \in Payers, NEW step, Stage(r, step), stage[r] # "reset", UNCHANGED <<spent, due>>
        PROVE  SpendInv'
    <2>1. Resetting => Resetting'
      BY <1>2, <1>1, StageMoves DEF Resetting
    <2> QED BY <1>1, <1>2, <2>1, StageMoves DEF SpendInv, SpendTypeOK, NoPhantomSpend
  <1>3. CASE Ticks \/ UNCHANGED spendVars
    BY <1>1, <1>3 DEF Ticks, spendVars, SpendInv, SpendTypeOK, NoPhantomSpend, Resetting
  <1>4. ASSUME NEW r \in Payers, Arrive(r) \/ LoadStart(r) \/ ReadSpent(r) \/ Judge(r) \/ Commit(r) \/ RecordSpend(r)
        PROVE  SpendInv'
    <2>1. \E step : Stage(r, step)
      BY <1>4 DEF Arrive, LoadStart, ReadSpent, Judge, Commit, RecordSpend
    <2>2. stage[r] # "reset" /\ UNCHANGED <<spent, due>>
      BY <1>4 DEF Arrive, LoadStart, ReadSpent, Judge, Commit, RecordSpend
    <2> QED BY <1>2, <2>1, <2>2
  <1>5. ASSUME NEW r \in Payers, Admit(r) PROVE SpendInv'
    <2>1. \E step : Stage(r, step)
      BY <1>5 DEF Admit
    <2>2. stage[r] # "reset" /\ UNCHANGED <<spent, due>>
      BY <1>5 DEF Admit
    <2> QED BY <1>2, <2>1, <2>2
  <1>6. ASSUME NEW r \in Payers, Roll(r) PROVE SpendInv'
    <2>1. CASE period_start = loaded[r]
      <3>1. Stage(r, "reset") /\ due' = 0 /\ spent' = spent
        BY <1>6, <2>1 DEF Roll
      <3>2. stage'[r] = "reset" /\ DOMAIN stage' = Payers /\ stage' = [q \in Payers |-> stage'[q]]
        BY <1>1, <3>1, StageMoves
      <3> QED BY <1>1, <3>1, <3>2 DEF SpendInv, SpendTypeOK, NoPhantomSpend, Resetting
    <2>2. CASE period_start # loaded[r]
      <3>1. Stage(r, "read") /\ stage[r] # "reset" /\ UNCHANGED <<spent, due>>
        BY <1>6, <2>2 DEF Roll
      <3> QED BY <1>2, <3>1
    <2> QED BY <2>1, <2>2
  <1>7. ASSUME NEW r \in Payers, Reset(r) PROVE SpendInv'
    <2>1. spent' = 0 /\ due' = due /\ \E step : Stage(r, step)
      BY <1>7 DEF Reset
    <2>2. DOMAIN stage' = Payers /\ stage' = [q \in Payers |-> stage'[q]]
      BY <1>1, <2>1, StageMoves
    <2> QED BY <1>1, <2>1, <2>2 DEF SpendInv, SpendTypeOK, NoPhantomSpend
  <1>8. ASSUME NEW r \in Payers, Add(r) PROVE SpendInv'
    <2>1. Stage(r, "done") /\ stage[r] # "reset" /\ due' = due + Cost[r]
      BY <1>8 DEF Add
    <2>2. spent' = IF spent + Cost[r] > SPEND_MAX THEN SPEND_MAX ELSE spent + Cost[r]
      BY <1>8 DEF Add
    <2>3. Cost[r] \in Nat /\ SPEND_MAX \in Nat
      BY SpendAssumption
    <2>4. spent' \in Nat /\ due' \in Nat /\ (spent <= due => spent' <= due')
      BY <1>1, <2>1, <2>2, <2>3 DEF SpendTypeOK
    <2>5. Resetting => Resetting'
      BY <1>1, <2>1, StageMoves DEF Resetting
    <2>6. DOMAIN stage' = Payers /\ stage' = [q \in Payers |-> stage'[q]]
      BY <1>1, <2>1, StageMoves
    <2> QED BY <1>1, <2>4, <2>5, <2>6 DEF SpendInv, SpendTypeOK, NoPhantomSpend
  <1> QED
    BY <1>3, <1>4, <1>5, <1>6, <1>7, <1>8 DEF SpendNext, Thread

(***************************************************************************)
(* spend_in_period and record_spend, for any number of requests, costs and *)
(* clocks: once the thread that rolled the period has stored its zero, the *)
(* spend on record is at most what was recorded since that roll.           *)
(***************************************************************************)
THEOREM PeriodsApart == SpendSpec => []NoPhantomSpend
  <1>1. SpendInit => SpendInv
    BY DEF SpendInit, SpendInv, SpendTypeOK, NoPhantomSpend
  <1>2. SpendInv => NoPhantomSpend
    BY DEF SpendInv
  <1> QED
    BY <1>1, <1>2, SpendPreserved, PTL DEF SpendSpec

-----------------------------------------------------------------------------
(* The budget of a key *)

(***************************************************************************)
(* A call that was sent carries its payment; the revision a handler passes *)
(* on is the one its caller saw, and a tag with the current revision names *)
(* the current limit, because every edit moves the revision on.            *)
(***************************************************************************)
CallsFormed ==
  \A c \in Callers : call[c].at # "idle" =>
    /\ c \in Deliveries => call[c].payment \in Payments /\ call[c].tokens \in CreditTokens
    /\ call[c].seen # None =>
         /\ call[c].seen[1] <= entry.revision
         /\ call[c].seen[1] = entry.revision => call[c].seen = Tag(entry)
    /\ call[c].at = "checked" /\ call[c].expected # None =>
         call[c].seen # None /\ call[c].expected = call[c].seen[1]

\* In memory nothing is ever held above the mark.
MarkCovers == held_tokens(entry) <= entry.drawn

(***************************************************************************)
(* The disk has every edit and every receipt, and the mark too unless the  *)
(* entry is marked; a replayed entry holds nothing.                        *)
(***************************************************************************)
DiskFollows ==
  /\ disk.limit = entry.limit /\ disk.revision = entry.revision
  /\ disk.receipts = entry.receipts
  /\ disk.consumed = disk.drawn /\ disk.reserved = 0 /\ disk.undurable = FALSE
  /\ entry.undurable = FALSE => disk.drawn = entry.drawn

LedgerInv ==
  /\ BudgetTypeOK /\ CallsFormed /\ MarkCovers /\ DiskFollows
  /\ NothingForgiven /\ CreditOnce

-----------------------------------------------------------------------------
(* The arithmetic of the ledger *)

\* Sums are brought back under MAX_TOKENS, and by nothing else.
LEMMA CappedFacts ==
  ASSUME NEW n \in Nat
  PROVE  /\ Capped(n) \in Quantities /\ Capped(n) \in Nat
         /\ Capped(n) <= n
         /\ n <= MAX_TOKENS => Capped(n) = n
         /\ n > MAX_TOKENS => Capped(n) = MAX_TOKENS
BY BudgetAssumption DEF Capped, Quantities

\* What an entry holds is a quantity.
LEMMA HeldFacts ==
  ASSUME NEW e \in Entries
  PROVE  held_tokens(e) \in Quantities /\ held_tokens(e) \in Nat
BY CappedFacts, BudgetAssumption DEF held_tokens, Entries, Quantities

\* A raised mark is a quantity that covers what it was raised for.
LEMMA MarkFacts ==
  ASSUME NEW e \in Entries, NEW needed \in Quantities
  PROVE  Mark(e, needed) \in Quantities /\ Mark(e, needed) >= needed
<1>1. headroom(e, needed) \in Nat
    BY BudgetAssumption DEF headroom, Smaller, Monus, Entries, Quantities
<1>2. needed + headroom(e, needed) \in Nat /\ needed + headroom(e, needed) >= needed
    BY <1>1, BudgetAssumption DEF Quantities
<1>3. /\ Capped(needed + headroom(e, needed)) \in Quantities
      /\ Capped(needed + headroom(e, needed)) >= needed
    BY <1>2, CappedFacts, BudgetAssumption DEF Quantities
<1> QED
    BY <1>3, BudgetAssumption DEF Mark, Larger, Entries, Quantities

\* The entry an edit or a flush commits is one.
LEMMA ExactFacts ==
  ASSUME NEW e \in Entries
  PROVE  /\ Exact(e) \in Entries
         /\ Exact(e).drawn = held_tokens(e) /\ Exact(e).undurable = FALSE
         /\ Exact(e).consumed = e.consumed /\ Exact(e).reserved = e.reserved
         /\ Exact(e).limit = e.limit /\ Exact(e).revision = e.revision
         /\ Exact(e).receipts = e.receipts
         /\ held_tokens(Exact(e)) = held_tokens(e)
BY HeldFacts DEF Exact, Entries, held_tokens

\* A replayed record is an entry that holds nothing and consumed its mark.
LEMMA RestoreFacts ==
  ASSUME NEW e \in Entries
  PROVE  /\ restore(e) \in Entries
         /\ restore(e).limit = e.limit /\ restore(e).revision = e.revision
         /\ restore(e).receipts = e.receipts /\ restore(e).drawn = e.drawn
         /\ restore(e).consumed = e.drawn /\ restore(e).reserved = 0
         /\ restore(e).undurable = FALSE
BY DEF restore, Entries
-----------------------------------------------------------------------------
(* One lemma per operation on the ledger: what it leaves in memory and on  *)
(* disk.                                                                   *)

\* A reservation keeps the mark above what is held, and the disk with it.
LEMMA ReserveStep ==
  ASSUME LedgerInv, NEW r \in Spenders, NEW tokens \in Estimates, Reserve(r, tokens)
  PROVE  /\ entry' \in Entries /\ disk' \in Entries
         /\ MarkCovers' /\ DiskFollows'
         /\ entry'.consumed = entry.consumed /\ entry'.reserved = entry.reserved + tokens
         /\ entry'.receipts = entry.receipts
         /\ entry'.limit = entry.limit /\ entry'.revision = entry.revision
<1> DEFINE needed == held_tokens(entry) + tokens
           raise  == needed > entry.drawn \/ entry.undurable
           raised == [entry EXCEPT !.drawn = Mark(entry, needed), !.undurable = FALSE]
<1>0. entry \in Entries /\ disk \in Entries /\ MarkCovers /\ DiskFollows /\ tokens \in Nat
    BY BudgetAssumption DEF LedgerInv, BudgetTypeOK
<1>1. needed \in Quantities
    BY <1>0, HeldFacts, BudgetAssumption DEF Reserve, Funded, Quantities
<1>2. held_tokens(entry) = Capped(entry.consumed + entry.reserved)
      /\ entry.consumed + entry.reserved \in Nat
    BY <1>0, BudgetAssumption DEF held_tokens, Entries, Quantities
<1>3. Capped(entry.consumed + (entry.reserved + tokens)) <= needed
    BY <1>0, <1>1, <1>2, CappedFacts, BudgetAssumption DEF Entries, Quantities, Capped
<1>4. CASE raise
    <2>1. raised \in Entries /\ raised.drawn = Mark(entry, needed) /\ raised.drawn >= needed
          /\ raised.consumed = entry.consumed /\ raised.reserved = entry.reserved
          /\ raised.limit = entry.limit /\ raised.revision = entry.revision
          /\ raised.receipts = entry.receipts /\ raised.undurable = FALSE
        BY <1>0, <1>1, MarkFacts DEF Entries
    <2>2. entry' = [raised EXCEPT !.reserved = @ + tokens] /\ disk' = restore(raised)
        BY <1>4 DEF Reserve, commit
    <2> HIDE DEF raised
    <2>3. entry' \in Entries /\ entry'.drawn = raised.drawn /\ entry'.undurable = FALSE
          /\ entry'.consumed = entry.consumed /\ entry'.reserved = entry.reserved + tokens
          /\ entry'.limit = entry.limit /\ entry'.revision = entry.revision
          /\ entry'.receipts = entry.receipts
        BY <1>0, <2>1, <2>2 DEF Entries
    <2>4. MarkCovers'
        BY <1>0, <1>1, <1>3, <2>1, <2>3, BudgetAssumption
        DEF MarkCovers, held_tokens, Entries, Quantities, Capped
    <2>5. /\ disk' \in Entries /\ disk'.limit = raised.limit /\ disk'.revision = raised.revision
          /\ disk'.receipts = raised.receipts /\ disk'.drawn = raised.drawn
          /\ disk'.consumed = raised.drawn /\ disk'.reserved = 0 /\ disk'.undurable = FALSE
        BY <2>1, <2>2, RestoreFacts
    <2>6. raised.limit = entry.limit /\ raised.revision = entry.revision
          /\ raised.receipts = entry.receipts
        BY <2>1
    <2>7. DiskFollows'
        BY <2>3, <2>5, <2>6 DEF DiskFollows
    <2> QED
        BY <2>3, <2>4, <2>5, <2>7
<1>5. CASE ~raise
    <2>1. entry' = [entry EXCEPT !.reserved = @ + tokens] /\ disk' = disk
        BY <1>5 DEF Reserve
    <2>2. entry' \in Entries /\ entry'.drawn = entry.drawn /\ entry'.undurable = entry.undurable
          /\ entry'.consumed = entry.consumed /\ entry'.reserved = entry.reserved + tokens
          /\ entry'.limit = entry.limit /\ entry'.revision = entry.revision
          /\ entry'.receipts = entry.receipts
        BY <1>0, <2>1 DEF Entries
    <2>3. MarkCovers'
        BY <1>0, <1>1, <1>3, <1>5, <2>2, BudgetAssumption
        DEF MarkCovers, held_tokens, Entries, Quantities, Capped
    <2> QED
        BY <1>0, <2>1, <2>2, <2>3 DEF DiskFollows
<1> QED
    BY <1>4, <1>5

\* The end of an attempt charges it in full, and keeps the mark above what is
\* held, on disk too unless the entry is marked.
LEMMA FinishStep ==
  ASSUME LedgerInv, NEW r \in Spenders, NEW used \in Usages \cup Estimates \cup {0},
         EndAttempt(r, used)
  PROVE  /\ entry' \in Entries /\ disk' \in Entries
         /\ MarkCovers' /\ DiskFollows'
         /\ entry'.consumed = Capped(entry.consumed + used)
         /\ entry'.reserved = Monus(entry.reserved, holds[r])
         /\ entry'.receipts = entry.receipts
         /\ entry'.limit = entry.limit /\ entry'.revision = entry.revision
<1> DEFINE done == Finished(entry, holds[r], used)
           mark == [done EXCEPT !.drawn = held_tokens(done)]
<1>0. entry \in Entries /\ disk \in Entries /\ MarkCovers /\ DiskFollows
      /\ used \in Nat /\ holds[r] \in Nat
    BY BudgetAssumption DEF LedgerInv, BudgetTypeOK, EndAttempt
<1>1. done \in Entries /\ done.consumed = Capped(entry.consumed + used)
      /\ done.reserved = Monus(entry.reserved, holds[r])
      /\ done.drawn = entry.drawn /\ done.undurable = entry.undurable
      /\ done.limit = entry.limit /\ done.revision = entry.revision
      /\ done.receipts = entry.receipts
    <2>1. Capped(entry.consumed + used) \in Quantities
        BY <1>0, CappedFacts, BudgetAssumption DEF Entries, Quantities
    <2>2. Monus(entry.reserved, holds[r]) \in Nat
        BY <1>0 DEF Monus, Entries
    <2> QED
        BY <1>0, <2>1, <2>2 DEF Finished, Entries
<1>2. \/ held_tokens(done) <= entry.drawn /\ entry' = done /\ disk' = disk
      \/ entry' = [mark EXCEPT !.undurable = FALSE] /\ disk' = restore(mark)
      \/ entry' = [mark EXCEPT !.undurable = TRUE] /\ disk' = disk
    BY DEF EndAttempt, commit
<1> HIDE DEF done
<1>3. mark \in Entries /\ mark.drawn = held_tokens(done) /\ mark.consumed = done.consumed
      /\ mark.reserved = done.reserved /\ mark.limit = entry.limit
      /\ mark.revision = entry.revision /\ mark.receipts = entry.receipts
      /\ held_tokens(done) \in Quantities
    BY <1>1, HeldFacts DEF Entries
<1> HIDE DEF mark
<1>4. CASE held_tokens(done) <= entry.drawn /\ entry' = done /\ disk' = disk
    BY <1>0, <1>1, <1>4 DEF MarkCovers, DiskFollows, held_tokens
<1>5. ASSUME NEW b \in BOOLEAN, entry' = [mark EXCEPT !.undurable = b]
      PROVE  /\ entry' \in Entries /\ entry'.drawn = mark.drawn /\ entry'.undurable = b
             /\ entry'.consumed = mark.consumed /\ entry'.reserved = mark.reserved
             /\ entry'.limit = mark.limit /\ entry'.revision = mark.revision
             /\ entry'.receipts = mark.receipts /\ MarkCovers'
    <2>1. entry' \in Entries /\ entry'.drawn = mark.drawn /\ entry'.undurable = b
          /\ entry'.consumed = mark.consumed /\ entry'.reserved = mark.reserved
          /\ entry'.limit = mark.limit /\ entry'.revision = mark.revision
          /\ entry'.receipts = mark.receipts
        BY <1>3, <1>5 DEF Entries
    <2>2. held_tokens(entry)' = held_tokens(done)
        BY <1>3, <2>1 DEF held_tokens
    <2> QED
        BY <1>3, <2>1, <2>2, BudgetAssumption DEF MarkCovers, Quantities
<1>6. CASE entry' = [mark EXCEPT !.undurable = FALSE] /\ disk' = restore(mark)
    BY <1>1, <1>3, <1>5, <1>6, RestoreFacts DEF DiskFollows
<1>7. CASE entry' = [mark EXCEPT !.undurable = TRUE] /\ disk' = disk
    BY <1>0, <1>1, <1>3, <1>5, <1>7 DEF DiskFollows
<1> QED
    BY <1>2, <1>4, <1>6, <1>7

\* The entry an edit commits: the exact mark, the new limit, the next revision.
LEMMA EditedFacts ==
  ASSUME entry \in Entries, NEW limit \in Quantities \cup {Unlimited}
  PROVE  /\ Edited(limit) \in Entries
         /\ Edited(limit).limit = limit /\ Edited(limit).revision = entry.revision + 1
         /\ Edited(limit).drawn = held_tokens(entry) /\ Edited(limit).undurable = FALSE
         /\ Edited(limit).consumed = entry.consumed /\ Edited(limit).reserved = entry.reserved
         /\ Edited(limit).receipts = entry.receipts
<1>1. PICK e \in Entries :
        /\ e = Exact(entry) /\ e.drawn = held_tokens(entry) /\ e.undurable = FALSE
        /\ e.consumed = entry.consumed /\ e.reserved = entry.reserved
        /\ e.receipts = entry.receipts
    BY ExactFacts
<1>2. entry.revision + 1 \in Nat
    BY DEF Entries
<1> DEFINE edited == [e EXCEPT !.limit = limit, !.revision = entry.revision + 1]
<1>3. Edited(limit) = edited
    BY <1>1 DEF Edited
<1>4. /\ edited \in Entries /\ edited.limit = limit /\ edited.revision = entry.revision + 1
      /\ edited.drawn = e.drawn /\ edited.undurable = e.undurable
      /\ edited.consumed = e.consumed /\ edited.reserved = e.reserved
      /\ edited.receipts = e.receipts
    BY <1>1, <1>2 DEF Entries
<1> HIDE DEF edited
<1> QED
    BY <1>1, <1>3, <1>4

\* An edit and a flush leave the exact mark in memory and on disk.
LEMMA CommitExact ==
  ASSUME entry \in Entries, entry' \in Entries,
         entry'.drawn = held_tokens(entry), entry'.undurable = FALSE,
         entry'.consumed = entry.consumed, entry'.reserved = entry.reserved,
         disk' = restore(entry')
  PROVE  disk' \in Entries /\ MarkCovers' /\ DiskFollows'
<1>1. held_tokens(entry)' = held_tokens(entry)
    BY DEF held_tokens
<1>2. held_tokens(entry) \in Nat
    BY HeldFacts
<1>3. LET e == entry' IN /\ restore(e) \in Entries
         /\ restore(e).limit = e.limit /\ restore(e).revision = e.revision
         /\ restore(e).receipts = e.receipts /\ restore(e).drawn = e.drawn
         /\ restore(e).consumed = e.drawn /\ restore(e).reserved = 0
         /\ restore(e).undurable = FALSE
    BY RestoreFacts
<1> QED
    BY <1>1, <1>2, <1>3 DEF MarkCovers, DiskFollows

\* What is charged stays in the ledger when an attempt ends.
LEMMA ChargeKept ==
  ASSUME NEW c \in Nat, NEW k \in Nat, NEW f \in Nat, NEW u \in Nat,
         Capped(c) <= k + f
  PROVE  Capped(c + u) <= Capped(k + u) + f
BY BudgetAssumption DEF Capped

-----------------------------------------------------------------------------
(* The invariant is inductive *)

LEMMA LedgerStep == LedgerInv /\ [BudgetNext]_budgetVars => LedgerInv'
<1> SUFFICES ASSUME LedgerInv, [BudgetNext]_budgetVars PROVE LedgerInv'
    OBVIOUS
<1>0. /\ BudgetTypeOK /\ CallsFormed /\ MarkCovers /\ DiskFollows /\ NothingForgiven /\ CreditOnce
      /\ entry \in Entries /\ disk \in Entries
    BY DEF LedgerInv, BudgetTypeOK
<1>t. NoCall.at = "idle" /\ NoCall.seen = None /\ NoCall.expected = None
      /\ NoCall.payment = None /\ NoCall.tokens = 0
      /\ NoCall \in Calls
    BY DEF NoCall, Calls
<1>1. ASSUME NEW r \in Spenders, NEW tokens \in Estimates, Reserve(r, tokens) PROVE LedgerInv'
    <2>1. /\ entry' \in Entries /\ disk' \in Entries /\ MarkCovers' /\ DiskFollows'
          /\ entry'.consumed = entry.consumed /\ entry'.receipts = entry.receipts
          /\ entry'.limit = entry.limit /\ entry'.revision = entry.revision
        BY <1>1, ReserveStep
    <2>2. UNCHANGED <<call, charged, overruns, forgotten, applied, restarts>>
        BY <1>1 DEF Reserve
    <2>3. peak' \in Nat /\ reserves' \in Nat /\ holds' \in [Spenders -> Estimates \cup {None}]
        BY <1>0, <1>1, BudgetAssumption DEF Reserve, Larger, BudgetTypeOK, Entries, Quantities
    <2>4. BudgetTypeOK'
        BY <1>0, <2>1, <2>2, <2>3 DEF BudgetTypeOK
    <2>5. CallsFormed'
        BY <1>0, <2>1, <2>2 DEF CallsFormed, Tag
    <2>6. NothingForgiven' /\ CreditOnce'
        BY <1>0, <2>1, <2>2 DEF NothingForgiven, CreditOnce, DiskFollows, Capped
    <2> QED
        BY <2>1, <2>4, <2>5, <2>6 DEF LedgerInv
<1>2. ASSUME NEW r \in Spenders, NEW used \in Usages \cup Estimates \cup {0}, EndAttempt(r, used)
      PROVE LedgerInv'
    <2>1. /\ entry' \in Entries /\ disk' \in Entries /\ MarkCovers' /\ DiskFollows'
          /\ entry'.consumed = Capped(entry.consumed + used)
          /\ entry'.receipts = entry.receipts
          /\ entry'.limit = entry.limit /\ entry'.revision = entry.revision
        BY <1>2, FinishStep
    <2>2. UNCHANGED <<call, forgotten, peak, applied, reserves, restarts>>
        BY <1>2 DEF EndAttempt
    <2>3. used \in Nat /\ holds[r] \in Nat /\ charged' = charged + used
          /\ overruns' \in Nat /\ holds' \in [Spenders -> Estimates \cup {None}]
        BY <1>0, <1>2, BudgetAssumption DEF EndAttempt, Monus, BudgetTypeOK
    <2>4. BudgetTypeOK'
        BY <1>0, <2>1, <2>2, <2>3 DEF BudgetTypeOK
    <2>5. CallsFormed'
        BY <1>0, <2>1, <2>2 DEF CallsFormed, Tag
    <2>6. NothingForgiven'
        <3>1. entry.consumed \in Nat /\ charged \in Nat /\ forgotten \in Nat
            BY <1>0, BudgetAssumption DEF BudgetTypeOK, Entries, Quantities
        <3>2. Capped(charged + used) <= Capped(entry.consumed + used) + forgotten
            BY <1>0, <2>3, <3>1, ChargeKept DEF NothingForgiven
        <3> QED
            BY <2>1, <2>2, <2>3, <3>2 DEF NothingForgiven, Capped
    <2>7. CreditOnce'
        BY <1>0, <2>1, <2>2 DEF CreditOnce, DiskFollows
    <2> QED
        BY <2>1, <2>4, <2>5, <2>6, <2>7 DEF LedgerInv
<1>3. ASSUME NEW c \in Callers, Send(c) PROVE LedgerInv'
    <2>1. UNCHANGED <<entry, disk, holds, history, reserves, restarts>>
        BY <1>3 DEF Send
    <2>2. Tag(entry) \in Nat \X (Quantities \cup {Unlimited}) /\ Tag(entry)[1] = entry.revision
          /\ entry.revision \in Nat
        BY <1>0 DEF Tag, Entries
    <2>3. PICK n \in Calls :
            /\ call' = [call EXCEPT ![c] = n]
            /\ n.at = "sent" /\ n.seen \in {Tag(entry), None} /\ n.expected = None
            /\ c \in Deliveries => n.payment \in Payments /\ n.tokens \in CreditTokens
        <3>1. PICK tag \in {Tag(entry), None} :
                \/ /\ c \in Operators
                   /\ call' = [call EXCEPT ![c] = [NoCall EXCEPT !.at = "sent", !.seen = tag]]
                \/ \E p \in Payments, tokens \in CreditTokens :
                     call' = [call EXCEPT ![c] = [[NoCall EXCEPT !.at = "sent", !.seen = tag]
                                EXCEPT !.payment = p, !.tokens = tokens]]
            BY <1>3 DEF Send
        <3> DEFINE sent == [NoCall EXCEPT !.at = "sent", !.seen = tag]
        <3>2. sent \in Calls /\ sent.at = "sent" /\ sent.seen = tag /\ sent.expected = None
            BY <1>t, <2>2 DEF Calls
        <3>3. CASE c \in Operators /\ call' = [call EXCEPT ![c] = sent]
            BY <3>2, <3>3, BudgetAssumption
        <3>4. ASSUME NEW p \in Payments, NEW tokens \in CreditTokens,
                     call' = [call EXCEPT ![c] = [sent EXCEPT !.payment = p, !.tokens = tokens]]
              PROVE  \E n \in Calls :
                       /\ call' = [call EXCEPT ![c] = n]
                       /\ n.at = "sent" /\ n.seen \in {Tag(entry), None} /\ n.expected = None
                       /\ c \in Deliveries => n.payment \in Payments /\ n.tokens \in CreditTokens
            <4> HIDE DEF sent
            <4> DEFINE n == [sent EXCEPT !.payment = p, !.tokens = tokens]
            <4>1. n \in Calls /\ n.at = "sent" /\ n.seen = tag /\ n.expected = None
                  /\ n.payment = p /\ n.tokens = tokens
                BY <3>2 DEF Calls
            <4>2. call' = [call EXCEPT ![c] = n]
                BY <3>4
            <4> HIDE DEF n
            <4> QED
                BY <4>1, <4>2
        <3> QED
            BY <3>1, <3>3, <3>4
    <2>4. BudgetTypeOK'
        BY <1>0, <2>1, <2>3 DEF BudgetTypeOK, history
    <2>5. CallsFormed'
        BY <1>0, <2>1, <2>2, <2>3 DEF CallsFormed, Tag, BudgetTypeOK
    <2> QED
        BY <1>0, <2>1, <2>4, <2>5 DEF LedgerInv, MarkCovers, DiskFollows, NothingForgiven,
           CreditOnce, history, held_tokens, Capped
<1>4. ASSUME NEW c \in Callers, Precheck(c) PROVE LedgerInv'
    <2>1. UNCHANGED <<entry, disk, holds, history, reserves, restarts>>
        BY <1>4 DEF Precheck
    <2>2. PICK n \in Calls :
            /\ call' = [call EXCEPT ![c] = n]
            /\ \/ n = NoCall
               \/ /\ call[c].at = "sent" /\ n.at = "checked" /\ n.seen = call[c].seen
                  /\ n.payment = call[c].payment /\ n.tokens = call[c].tokens
                  /\ \/ n.expected = None
                     \/ n.expected = entry.revision /\ n.seen # None /\ n.seen = Tag(entry)
        <3>1. CASE call' = [call EXCEPT ![c] = NoCall]
            BY <1>t, <3>1
        <3>2. CASE call' # [call EXCEPT ![c] = NoCall]
            <4> DEFINE n == [call[c] EXCEPT !.at = "checked",
                   !.expected = IF call[c].seen = None THEN None ELSE entry.revision]
            <4>1. call[c] \in Calls /\ entry.revision \in Nat
                BY <1>0 DEF BudgetTypeOK, Entries
            <4>2. n \in Calls /\ n.at = "checked" /\ n.seen = call[c].seen
                  /\ n.payment = call[c].payment /\ n.tokens = call[c].tokens
                  /\ n.expected = IF call[c].seen = None THEN None ELSE entry.revision
                BY <4>1 DEF Calls
            <4>3. /\ call[c].at = "sent" /\ call[c].seen \in {None, Tag(entry)}
                  /\ call' = [call EXCEPT ![c] = n]
                BY <1>0, <1>4, <3>2 DEF Precheck, BudgetTypeOK
            <4> HIDE DEF n
            <4> QED
                BY <4>2, <4>3
        <3> QED
            BY <3>1, <3>2
    <2>3. BudgetTypeOK'
        BY <1>0, <2>1, <2>2 DEF BudgetTypeOK, history
    <2>4. Tag(entry)[1] = entry.revision
        BY DEF Tag
    <2>5. CallsFormed'
        BY <1>0, <1>t, <2>1, <2>2, <2>4 DEF CallsFormed, Tag, BudgetTypeOK
    <2> QED
        BY <1>0, <2>1, <2>3, <2>5 DEF LedgerInv, MarkCovers, DiskFollows, NothingForgiven,
           CreditOnce, history, held_tokens, Capped
<1>5. ASSUME NEW c \in Callers, Refused(c) PROVE LedgerInv'
    <2>1. UNCHANGED <<entry, disk, holds, history, reserves, restarts>>
          /\ call' = [call EXCEPT ![c] = NoCall]
        BY <1>5 DEF Refused
    <2>2. BudgetTypeOK'
        BY <1>0, <1>t, <2>1 DEF BudgetTypeOK, history
    <2>3. CallsFormed'
        BY <1>0, <1>t, <2>1 DEF CallsFormed, Tag, BudgetTypeOK
    <2> QED
        BY <1>0, <2>1, <2>2, <2>3 DEF LedgerInv, MarkCovers, DiskFollows, NothingForgiven,
           CreditOnce, history, held_tokens, Capped
<1>6. ASSUME NEW c \in Callers, call' = [call EXCEPT ![c] = NoCall],
             entry' \in Entries, entry'.revision = entry.revision + 1
      PROVE  CallsFormed'
    <2>1. \A d \in Callers : call[d] \in Calls /\ (call[d].seen # None => call[d].seen[1] \in Nat)
        BY <1>0 DEF BudgetTypeOK, Calls
    <2>2. entry.revision \in Nat
        BY <1>0 DEF Entries
    <2> QED
        BY <1>0, <1>6, <1>t, <2>1, <2>2 DEF CallsFormed, BudgetTypeOK
<1>7. ASSUME NEW c \in Callers, NEW limit \in Allowances, Set(c, limit) PROVE LedgerInv'
    <2>1. entry' = Edited(limit) /\ disk' = restore(entry')
          /\ call' = [call EXCEPT ![c] = NoCall]
          /\ UNCHANGED <<holds, history, reserves, restarts>>
        BY <1>7 DEF Set, commit
    <2>2. /\ entry' \in Entries /\ entry'.limit = limit /\ entry'.revision = entry.revision + 1
          /\ entry'.drawn = held_tokens(entry) /\ entry'.undurable = FALSE
          /\ entry'.consumed = entry.consumed /\ entry'.reserved = entry.reserved
          /\ entry'.receipts = entry.receipts
        BY <1>0, <2>1, EditedFacts, BudgetAssumption
    <2>3. disk' \in Entries /\ MarkCovers' /\ DiskFollows'
        BY <1>0, <2>1, <2>2, CommitExact
    <2>4. BudgetTypeOK'
        BY <1>0, <1>t, <2>1, <2>2, <2>3 DEF BudgetTypeOK, history
    <2>5. CallsFormed'
        BY <1>6, <2>1, <2>2
    <2>6. NothingForgiven' /\ CreditOnce'
        BY <1>0, <2>1, <2>2, <2>3 DEF NothingForgiven, CreditOnce, DiskFollows, history, Capped
    <2> QED
        BY <2>3, <2>4, <2>5, <2>6 DEF LedgerInv
<1>8. ASSUME NEW c \in Callers, Credit(c) PROVE LedgerInv'
    <2> DEFINE p == call[c].payment
               limit == entry.limit + call[c].tokens
    <2>1. c \in Deliveries /\ p \in Payments /\ call[c].tokens \in CreditTokens
          /\ entry.receipts[p] = None /\ entry.limit \in Nat /\ limit \in Quantities
        BY <1>0, <1>8, BudgetAssumption
        DEF Credit, Answered, CallsFormed, BudgetTypeOK, Calls, Entries, Quantities
    <2>2. /\ entry' = [Edited(limit) EXCEPT !.receipts = [@ EXCEPT ![p] = call[c].tokens]]
          /\ disk' = restore(entry') /\ call' = [call EXCEPT ![c] = NoCall]
          /\ applied' = [applied EXCEPT ![p] = @ + 1]
          /\ UNCHANGED <<holds, charged, overruns, forgotten, peak, reserves, restarts>>
        BY <1>8 DEF Credit, commit
    <2>3. PICK e \in Entries :
            /\ e = Edited(limit) /\ e.revision = entry.revision + 1
            /\ e.drawn = held_tokens(entry) /\ e.undurable = FALSE
            /\ e.consumed = entry.consumed /\ e.reserved = entry.reserved
            /\ e.receipts = entry.receipts
        BY <1>0, <2>1, EditedFacts
    <2>4. entry' = [e EXCEPT !.receipts = [e.receipts EXCEPT ![p] = call[c].tokens]]
        BY <2>2, <2>3
    <2> HIDE DEF p, limit
    <2>5. /\ entry' \in Entries /\ entry'.revision = entry.revision + 1
          /\ entry'.drawn = held_tokens(entry) /\ entry'.undurable = FALSE
          /\ entry'.consumed = entry.consumed /\ entry'.reserved = entry.reserved
          /\ entry'.receipts = [entry.receipts EXCEPT ![p] = call[c].tokens]
        BY <2>1, <2>3, <2>4 DEF Entries
    <2>6. disk' \in Entries /\ MarkCovers' /\ DiskFollows'
        BY <1>0, <2>2, <2>5, CommitExact
    <2>7. BudgetTypeOK'
        BY <1>0, <1>t, <2>1, <2>2, <2>5, <2>6 DEF BudgetTypeOK
    <2>8. CallsFormed'
        BY <1>6, <2>2, <2>5
    <2>9. NothingForgiven'
        BY <1>0, <2>2, <2>5 DEF NothingForgiven, Capped
    <2>10. CreditOnce'
        <3>0. entry.receipts \in [Payments -> CreditTokens \cup {None}]
            <4>1. entry \in Entries
                BY <1>0
            <4> QED
                BY <4>1 DEF Entries
        <3>1. disk.receipts = entry.receipts /\ disk'.receipts = entry'.receipts
              /\ applied \in [Payments -> Nat]
            BY <1>0, <2>6 DEF DiskFollows, BudgetTypeOK
        <3>2. call[c].tokens # None
            <4>1. call[c].tokens \in CreditTokens
                BY <2>1
            <4>2. CreditTokens \subseteq Nat /\ None \notin Nat
                BY BudgetAssumption DEF Quantities
            <4> QED
                BY <4>1, <4>2
        <3>3. applied[p] = 0
            BY <1>0, <2>1, <3>1 DEF CreditOnce
        <3> QED
            BY <1>0, <2>1, <2>2, <2>5, <3>0, <3>1, <3>2, <3>3 DEF CreditOnce
    <2> QED
        BY <2>6, <2>7, <2>8, <2>9, <2>10 DEF LedgerInv
<1>9. ASSUME flush PROVE LedgerInv'
    <2>1. entry' = Exact(entry) /\ disk' = restore(entry')
          /\ UNCHANGED <<holds, call, history, reserves, restarts>>
        BY <1>9 DEF flush, commit
    <2>2. /\ entry' \in Entries /\ entry'.limit = entry.limit
          /\ entry'.revision = entry.revision
          /\ entry'.drawn = held_tokens(entry) /\ entry'.undurable = FALSE
          /\ entry'.consumed = entry.consumed /\ entry'.reserved = entry.reserved
          /\ entry'.receipts = entry.receipts
        BY <1>0, <2>1, ExactFacts
    <2>3. disk' \in Entries /\ MarkCovers' /\ DiskFollows'
        BY <1>0, <2>1, <2>2, CommitExact
    <2>4. BudgetTypeOK'
        BY <1>0, <2>1, <2>2, <2>3 DEF BudgetTypeOK, history
    <2>5. CallsFormed'
        BY <1>0, <2>1, <2>2 DEF CallsFormed, Tag
    <2>6. NothingForgiven' /\ CreditOnce'
        BY <1>0, <2>1, <2>2, <2>3 DEF NothingForgiven, CreditOnce, DiskFollows, history, Capped
    <2> QED
        BY <2>3, <2>4, <2>5, <2>6 DEF LedgerInv
<1>10. ASSUME Restart PROVE LedgerInv'
    <2>1. /\ entry' = disk /\ disk' = disk
          /\ holds' = [r \in Spenders |-> None] /\ call' = [c \in Callers |-> NoCall]
          /\ charged' = charged + entry.reserved
          /\ forgotten' = forgotten + Monus(held_tokens(entry), disk.drawn)
          /\ restarts' = restarts + 1
          /\ UNCHANGED <<overruns, peak, applied, reserves>>
        BY <1>10 DEF Restart
    <2>2. /\ held_tokens(entry) \in Nat /\ disk.drawn \in Quantities /\ disk.drawn \in Nat
          /\ entry.reserved \in Nat /\ entry.consumed \in Nat
          /\ charged \in Nat /\ forgotten \in Nat
        BY <1>0, HeldFacts, BudgetAssumption DEF BudgetTypeOK, Entries, Quantities
    <2>3. BudgetTypeOK'
        BY <1>0, <1>t, <2>1, <2>2 DEF BudgetTypeOK, Monus
    <2>4. CallsFormed'
        BY <1>t, <2>1 DEF CallsFormed
    <2>5. MarkCovers' /\ DiskFollows'
        <3>1. held_tokens(disk) = disk.drawn
            BY <1>0, <2>2, BudgetAssumption DEF held_tokens, DiskFollows, Capped, Quantities
        <3> QED
            BY <1>0, <2>1, <2>2, <3>1 DEF MarkCovers, DiskFollows, held_tokens, Capped
    <2>6. NothingForgiven'
        <3>1. Capped(charged + entry.reserved) <= Capped(entry.consumed + entry.reserved) + forgotten
            BY <1>0, <2>2, ChargeKept DEF NothingForgiven
        <3>2. held_tokens(entry) <= disk.drawn + Monus(held_tokens(entry), disk.drawn)
            BY <2>2 DEF Monus
        <3>3. Monus(held_tokens(entry), disk.drawn) \in Nat
            BY <2>2 DEF Monus
        <3>4. Capped(charged + entry.reserved) \in Nat
            BY <2>2, CappedFacts
        <3>5. Capped(charged') <= disk.drawn + (forgotten + Monus(held_tokens(entry), disk.drawn))
            BY <2>1, <2>2, <3>1, <3>2, <3>3, <3>4 DEF held_tokens
        <3>6. entry'.consumed = disk.drawn
            BY <1>0, <2>1 DEF DiskFollows
        <3> QED
            BY <2>1, <3>5, <3>6 DEF NothingForgiven, Capped
    <2>7. CreditOnce'
        BY <1>0, <2>1 DEF CreditOnce
    <2> QED
        BY <2>3, <2>4, <2>5, <2>6, <2>7 DEF LedgerInv
<1>11. CASE UNCHANGED budgetVars
    BY <1>0, <1>11 DEF budgetVars, history, LedgerInv, BudgetTypeOK, CallsFormed, MarkCovers, DiskFollows,
       NothingForgiven, CreditOnce, Tag, held_tokens, Capped
<1> QED
    BY <1>1, <1>2, <1>3, <1>4, <1>5, <1>7, <1>8, <1>9, <1>10, <1>11 DEF BudgetNext

\* The invariant holds at the start.
LEMMA LedgerAtFirst == BudgetInit => LedgerInv
<1> SUFFICES ASSUME BudgetInit PROVE LedgerInv
    OBVIOUS
<1>1. entry = NewEntry /\ disk = NewEntry /\ NewEntry \in Entries
      /\ entry.consumed = 0 /\ entry.reserved = 0 /\ entry.drawn = 0
      /\ entry.undurable = FALSE /\ \A p \in Payments : entry.receipts[p] = None
    BY BudgetAssumption DEF BudgetInit, NewEntry, Entries, Quantities
<1>2. NoCall \in Calls /\ NoCall.at = "idle"
    BY DEF NoCall, Calls
<1>3. BudgetTypeOK
    BY <1>1, <1>2 DEF BudgetInit, BudgetTypeOK
<1>4. CallsFormed
    BY <1>2 DEF BudgetInit, CallsFormed
<1>5. held_tokens(entry) = 0 /\ Capped(0) = 0
    BY <1>1, BudgetAssumption DEF held_tokens, Capped
<1> QED
    BY <1>1, <1>3, <1>4, <1>5 DEF LedgerInv, MarkCovers, DiskFollows, NothingForgiven,
       CreditOnce, BudgetInit

\* The invariant holds in every state of every run.
THEOREM LedgerInvariant == BudgetSpec => []LedgerInv
BY LedgerAtFirst, LedgerStep, PTL DEF BudgetSpec

\* "Restart cannot restore spent credit": for any attempts, amounts, usages,
\* limits, edits, failed commits and restarts, what was charged to a key is in
\* its ledger, except for overruns no journal took before the process ended.
THEOREM NoCreditRestored == BudgetSpec => []NothingForgiven
BY LedgerInvariant, PTL DEF LedgerInv

\* There is never a token consumed or in flight that a restart would not
\* count, unless the entry is marked as not durable.
THEOREM AlwaysCovered == BudgetSpec => []DurablyCovered
<1>1. LedgerInv => DurablyCovered
    BY HeldFacts DEF LedgerInv, BudgetTypeOK, MarkCovers, DiskFollows, DurablyCovered, Entries
<1> QED
    BY <1>1, LedgerInvariant, PTL

\* A payment is counted at most once, over any deliveries and restarts.
THEOREM PaymentCountedOnce == BudgetSpec => []CreditOnce
BY LedgerInvariant, PTL DEF LedgerInv

\* Consumption and marks stay within MAX_TOKENS, and everything else in the
\* sets BudgetTypeOK names.
THEOREM TypeCorrect == BudgetSpec => []BudgetTypeOK
BY LedgerInvariant, PTL DEF LedgerInv

-----------------------------------------------------------------------------
(* Conditional edits *)

\* The revision a handler passes on is current at the edit only if the tag its
\* caller read is.
LEMMA CurrentTag ==
  ASSUME LedgerInv, NEW c \in Callers, call[c].at = "checked", Current(c),
         call[c].expected # None
  PROVE  call[c].seen = Tag(entry)
BY DEF LedgerInv, CallsFormed, Current

LEMMA EditStep == LedgerInv /\ [BudgetNext]_budgetVars => [LimitEdit]_budgetVars
<1> SUFFICES ASSUME LedgerInv, BudgetNext PROVE LimitEdit
    OBVIOUS
<1>0. entry \in Entries /\ DiskFollows /\ BudgetTypeOK
    BY DEF LedgerInv, BudgetTypeOK
<1>1. ASSUME NEW r \in Spenders, NEW tokens \in Estimates, Reserve(r, tokens) PROVE LimitEdit
    BY <1>1, ReserveStep DEF LimitEdit
<1>2. ASSUME NEW r \in Spenders, NEW used \in Usages \cup Estimates \cup {0}, EndAttempt(r, used)
      PROVE LimitEdit
    BY <1>2, FinishStep DEF LimitEdit
<1>3. ASSUME NEW c \in Callers, Send(c) \/ Precheck(c) \/ Refused(c) PROVE LimitEdit
    BY <1>3 DEF Send, Precheck, Refused, LimitEdit
<1>4. ASSUME NEW c \in Callers, call[c].at = "checked", Current(c),
             call' = [call EXCEPT ![c] = NoCall], entry'.revision = entry.revision + 1
      PROVE LimitEdit
    <2>1. call'[c].at = "idle"
        BY <1>0, <1>4 DEF BudgetTypeOK, NoCall
    <2> QED
        BY <1>4, <2>1, CurrentTag DEF LimitEdit
<1>5. ASSUME NEW c \in Callers, NEW limit \in Allowances, Set(c, limit) PROVE LimitEdit
    <2>1. entry'.revision = entry.revision + 1
        BY <1>0, <1>5, EditedFacts, BudgetAssumption DEF Set
    <2> QED
        BY <1>4, <1>5, <2>1 DEF Set
<1>6. ASSUME NEW c \in Callers, Credit(c) PROVE LimitEdit
    <2> DEFINE limit == entry.limit + call[c].tokens
    <2>1. call[c].tokens \in Nat
        <3>1. call[c].tokens \in CreditTokens \cup {0}
            BY <1>0 DEF BudgetTypeOK, Calls
        <3>2. \A t \in CreditTokens \cup {0} : t \in Nat
            BY BudgetAssumption DEF Quantities
        <3> QED
            BY <3>1, <3>2, Zenon
    <2>2. limit \in Quantities
        BY <1>0, <1>6, <2>1, BudgetAssumption DEF Credit, Entries, Quantities
    <2>3. Edited(limit).revision = entry.revision + 1 /\ Edited(limit) \in Entries
        BY <1>0, <2>2, EditedFacts
    <2>4. entry' = [Edited(limit) EXCEPT !.receipts = [@ EXCEPT ![call[c].payment] = call[c].tokens]]
        BY <1>6 DEF Credit
    <2>5. entry'.revision = entry.revision + 1
        BY <2>3, <2>4 DEF Entries
    <2> QED
        BY <1>4, <1>6, <2>5 DEF Credit
<1>7. CASE flush
    BY <1>0, <1>7, ExactFacts DEF flush, LimitEdit
<1>8. CASE Restart
    BY <1>0, <1>8 DEF Restart, DiskFollows, LimitEdit
<1> QED
    BY <1>1, <1>2, <1>3, <1>5, <1>6, <1>7, <1>8 DEF BudgetNext

\* No conditional edit is lost or applied to a limit its caller had not read,
\* for any number of callers and whatever happens between look and edit.
THEOREM EditsHonoured == BudgetSpec => IfMatchHonoured
BY LedgerInvariant, EditStep, PTL DEF BudgetSpec, IfMatchHonoured

-----------------------------------------------------------------------------
(* What a key may spend *)

(***************************************************************************)
(* The tokens in flight, each named by its attempt and a number: the       *)
(* ledger's reserved is how many there are, so that an attempt that ends   *)
(* takes back exactly what it had put in.                                  *)
(***************************************************************************)
Held(h) == {u \in Spenders \X Nat : h[u[1]] # None /\ u[2] \in 1 .. h[u[1]]}

Booked == IsFiniteSet(Held(holds)) /\ entry.reserved = Cardinality(Held(holds))

(***************************************************************************)
(* Consumption stops at MAX_TOKENS; what it then leaves out was used above *)
(* a reservation, because no reservation is granted past MAX_TOKENS.       *)
(***************************************************************************)
AllowanceInv ==
  /\ LedgerInv /\ Booked
  /\ peak <= MAX_TOKENS
  /\ charged <= entry.consumed + forgotten + overruns
  /\ WithinAllowance

\* One attempt's tokens are as many as it reserved.
LEMMA HeldBy ==
  ASSUME NEW r, NEW n \in Nat
  PROVE  IsFiniteSet({r} \X (1 .. n)) /\ Cardinality({r} \X (1 .. n)) = n
<1>1. IsFiniteSet(1 .. n) /\ Cardinality(1 .. n) = n
    BY FS_Interval
<1>2. IsFiniteSet({r}) /\ Cardinality({r}) = 1
    BY FS_Singleton
<1> QED
    BY <1>1, <1>2, FS_Product

\* What a set and a disjoint set of one attempt's tokens count together.
LEMMA HeldWith ==
  ASSUME NEW S, IsFiniteSet(S), NEW r, NEW n \in Nat, S \cap ({r} \X (1 .. n)) = {}
  PROVE  /\ IsFiniteSet(S \cup ({r} \X (1 .. n)))
         /\ Cardinality(S \cup ({r} \X (1 .. n))) = Cardinality(S) + n
<1> DEFINE T == {r} \X (1 .. n)
<1>1. IsFiniteSet(T) /\ Cardinality(T) = n
    BY HeldBy
<1>2. Cardinality(S \cap T) = 0
    BY FS_EmptySet
<1>3. Cardinality(S) \in Nat
    BY FS_CardinalityType
<1> HIDE DEF T
<1>4. IsFiniteSet(S \cup T) /\ Cardinality(S \cup T) = Cardinality(S) + Cardinality(T) - Cardinality(S \cap T)
    BY <1>1, FS_Union
<1> QED
    BY <1>1, <1>2, <1>3, <1>4 DEF T

\* A granted reservation adds its tokens to those in flight.
LEMMA HeldMore ==
  ASSUME NEW h \in [Spenders -> Estimates \cup {None}], NEW r \in Spenders, NEW n \in Estimates,
         h[r] = None, IsFiniteSet(Held(h))
  PROVE  /\ IsFiniteSet(Held([h EXCEPT ![r] = n]))
         /\ Cardinality(Held([h EXCEPT ![r] = n])) = Cardinality(Held(h)) + n
<1>0. n \in Nat /\ n # None
    BY BudgetAssumption
<1>1. Held([h EXCEPT ![r] = n]) = Held(h) \cup ({r} \X (1 .. n))
    BY <1>0 DEF Held
<1>2. Held(h) \cap ({r} \X (1 .. n)) = {}
    BY DEF Held
<1>3. /\ IsFiniteSet(Held(h) \cup ({r} \X (1 .. n)))
      /\ Cardinality(Held(h) \cup ({r} \X (1 .. n))) = Cardinality(Held(h)) + n
    BY <1>0, <1>2, HeldWith
<1> QED
    BY <1>1, <1>3

\* An attempt that ends takes its tokens out, and they were all there.
LEMMA HeldLess ==
  ASSUME NEW h \in [Spenders -> Estimates \cup {None}], NEW r \in Spenders,
         h[r] # None, IsFiniteSet(Held(h))
  PROVE  /\ IsFiniteSet(Held([h EXCEPT ![r] = None]))
         /\ h[r] \in Nat
         /\ Cardinality(Held([h EXCEPT ![r] = None])) \in Nat
         /\ Cardinality(Held(h)) = Cardinality(Held([h EXCEPT ![r] = None])) + h[r]
<1> DEFINE g == [h EXCEPT ![r] = None]
<1>0. h[r] \in Nat
    BY BudgetAssumption
<1>1. Held(h) = Held(g) \cup ({r} \X (1 .. h[r]))
    BY <1>0 DEF Held
<1>2. Held(g) \cap ({r} \X (1 .. h[r])) = {}
    BY DEF Held
<1>3. Held(g) \in SUBSET Held(h)
    BY <1>1
<1> HIDE DEF g
<1>4. IsFiniteSet(Held(g)) /\ Cardinality(Held(g)) \in Nat
    BY <1>3, FS_Subset, FS_CardinalityType
<1>5. Cardinality(Held(g) \cup ({r} \X (1 .. h[r]))) = Cardinality(Held(g)) + h[r]
    BY <1>0, <1>2, <1>4, HeldWith
<1> QED
    BY <1>0, <1>1, <1>4, <1>5 DEF g

\* Nothing is in flight in a new process.
LEMMA HeldNone ==
  IsFiniteSet(Held([r \in Spenders |-> None])) /\ Cardinality(Held([r \in Spenders |-> None])) = 0
<1>1. Held([r \in Spenders |-> None]) = {}
    BY DEF Held
<1> QED
    BY <1>1, FS_EmptySet

\* The invariant is kept by every step.
LEMMA AllowanceStep == AllowanceInv /\ [BudgetNext]_budgetVars => AllowanceInv'
<1> SUFFICES ASSUME AllowanceInv, [BudgetNext]_budgetVars PROVE AllowanceInv'
    OBVIOUS
<1>0. /\ LedgerInv /\ LedgerInv' /\ Booked
      /\ entry \in Entries /\ entry' \in Entries /\ disk \in Entries
      /\ holds \in [Spenders -> Estimates \cup {None}]
    BY LedgerStep DEF AllowanceInv, LedgerInv, BudgetTypeOK
<1>1. /\ charged \in Nat /\ overruns \in Nat /\ forgotten \in Nat /\ peak \in Nat
      /\ entry.consumed \in Nat /\ entry.consumed <= MAX_TOKENS /\ entry.reserved \in Nat
      /\ entry'.consumed \in Nat /\ entry'.reserved \in Nat
      /\ MAX_TOKENS \in Nat
      /\ charged + entry.reserved <= peak + overruns + forgotten
      /\ peak <= MAX_TOKENS /\ charged <= entry.consumed + forgotten + overruns
    BY <1>0, BudgetAssumption DEF AllowanceInv, WithinAllowance, LedgerInv, BudgetTypeOK, Entries, Quantities
<1>2. ASSUME holds' = holds, charged' = charged, overruns' = overruns, forgotten' = forgotten,
             peak' = peak, entry'.consumed = entry.consumed, entry'.reserved = entry.reserved
      PROVE  AllowanceInv'
    BY <1>0, <1>1, <1>2 DEF AllowanceInv, WithinAllowance, Booked
<1>3. ASSUME NEW r \in Spenders, NEW tokens \in Estimates, Reserve(r, tokens) PROVE AllowanceInv'
    <2>1. entry'.consumed = entry.consumed /\ entry'.reserved = entry.reserved + tokens
        BY <1>0, <1>3, ReserveStep
    <2>2. /\ holds[r] = None /\ holds' = [holds EXCEPT ![r] = tokens]
          /\ charged' = charged /\ overruns' = overruns /\ forgotten' = forgotten
          /\ peak' = Larger(peak, IF entry.limit = Unlimited THEN MAX_TOKENS ELSE entry.limit)
          /\ Funded(tokens)
        BY <1>3 DEF Reserve
    <2>3. Booked'
        <3>1. PICK h : h = [holds EXCEPT ![r] = tokens]
            OBVIOUS
        <3>2. IsFiniteSet(Held(h)) /\ Cardinality(Held(h)) = Cardinality(Held(holds)) + tokens
            BY <1>0, <2>2, <3>1, HeldMore DEF Booked
        <3>3. holds' = h
            BY <2>2, <3>1
        <3> QED
            BY <1>0, <2>1, <3>2, <3>3 DEF Booked
    <2>4. tokens \in Nat
        BY BudgetAssumption
    <2> DEFINE limit == IF entry.limit = Unlimited THEN MAX_TOKENS ELSE entry.limit
    <2>5. limit \in Nat /\ limit <= MAX_TOKENS
        BY <1>0, <1>1 DEF Entries, Quantities
    <2>6. held_tokens(entry) + tokens <= limit
        BY <1>0, <1>1, <2>2, <2>4 DEF Funded
    <2>7. /\ held_tokens(entry) = Capped(entry.consumed + entry.reserved)
          /\ peak' = Larger(peak, limit)
        BY <2>2 DEF held_tokens
    <2> HIDE DEF limit
    <2>8. peak' \in Nat /\ peak' >= peak /\ peak' >= limit /\ peak' <= MAX_TOKENS
        BY <1>1, <2>5, <2>7 DEF Larger
    <2>9. CASE entry.consumed + entry.reserved <= MAX_TOKENS
        <3>1. entry.consumed + entry.reserved + tokens <= limit
            BY <1>1, <2>4, <2>5, <2>6, <2>7, <2>9 DEF Capped
        <3>2. WithinAllowance'
            BY <1>1, <2>1, <2>2, <2>4, <2>5, <2>8, <3>1 DEF WithinAllowance
        <3> QED
            BY <1>0, <1>1, <2>1, <2>2, <2>3, <2>8, <3>2 DEF AllowanceInv
    <2>10. CASE entry.consumed + entry.reserved > MAX_TOKENS
        <3>1. tokens = 0
            BY <1>1, <2>4, <2>5, <2>6, <2>7, <2>10 DEF Capped
        <3>2. WithinAllowance'
            BY <1>1, <2>1, <2>2, <2>8, <3>1 DEF WithinAllowance
        <3> QED
            BY <1>0, <1>1, <2>1, <2>2, <2>3, <2>8, <3>2 DEF AllowanceInv
    <2> QED
        BY <1>1, <2>9, <2>10
<1>4. ASSUME NEW r \in Spenders, NEW used \in Usages \cup Estimates \cup {0}, EndAttempt(r, used)
      PROVE  AllowanceInv'
    <2>1. entry'.consumed = Capped(entry.consumed + used)
          /\ entry'.reserved = Monus(entry.reserved, holds[r])
        BY <1>0, <1>4, FinishStep
    <2>2. /\ holds[r] # None /\ holds' = [holds EXCEPT ![r] = None]
          /\ charged' = charged + used /\ overruns' = overruns + Monus(used, holds[r])
          /\ forgotten' = forgotten /\ peak' = peak
        BY <1>4 DEF EndAttempt
    <2>3. used \in Nat
        BY BudgetAssumption
    <2>4. PICK h : h = [holds EXCEPT ![r] = None]
        OBVIOUS
    <2>5. /\ IsFiniteSet(Held(h)) /\ holds[r] \in Nat /\ Cardinality(Held(h)) \in Nat
          /\ Cardinality(Held(holds)) = Cardinality(Held(h)) + holds[r]
        BY <1>0, <2>2, <2>4, HeldLess DEF Booked
    <2>6. entry'.reserved = Cardinality(Held(h)) /\ entry.reserved = entry'.reserved + holds[r]
        BY <1>0, <2>1, <2>5 DEF Booked, Monus
    <2>7. holds' = h
        BY <2>2, <2>4
    <2>8. Booked'
        BY <2>5, <2>6, <2>7 DEF Booked
    <2>9. WithinAllowance'
        BY <1>1, <2>2, <2>3, <2>5, <2>6 DEF WithinAllowance, Monus
    <2>10. charged' <= entry'.consumed + forgotten' + overruns'
        <3>1. CASE entry.consumed + used <= MAX_TOKENS
            BY <1>1, <2>1, <2>2, <2>3, <2>5, <3>1 DEF Capped, Monus
        <3>2. CASE entry.consumed + used > MAX_TOKENS
            BY <1>1, <2>1, <2>2, <2>3, <2>5, <2>6, <3>2 DEF Capped, Monus
        <3> QED
            BY <1>1, <2>3, <3>1, <3>2
    <2> QED
        BY <1>0, <1>1, <2>2, <2>8, <2>9, <2>10 DEF AllowanceInv
<1>5. ASSUME NEW c \in Callers, Send(c) \/ Precheck(c) \/ Refused(c) PROVE AllowanceInv'
    BY <1>2, <1>5 DEF Send, Precheck, Refused, history
<1>6. ASSUME NEW c \in Callers, NEW limit \in Allowances, Set(c, limit) PROVE AllowanceInv'
    <2>1. entry' = Edited(limit) /\ UNCHANGED <<holds, history>>
        BY <1>6 DEF Set
    <2>2. Edited(limit).consumed = entry.consumed /\ Edited(limit).reserved = entry.reserved
        BY <1>0, EditedFacts, BudgetAssumption
    <2> QED
        BY <1>2, <2>1, <2>2 DEF history
<1>7. ASSUME NEW c \in Callers, Credit(c) PROVE AllowanceInv'
    <2> DEFINE limit == entry.limit + call[c].tokens
    <2>1. call[c].tokens \in Nat
        <3>1. call[c].tokens \in CreditTokens \cup {0}
            BY <1>0 DEF LedgerInv, BudgetTypeOK, Calls
        <3>2. \A t \in CreditTokens \cup {0} : t \in Nat
            BY BudgetAssumption DEF Quantities
        <3> QED
            BY <3>1, <3>2, Zenon
    <2>2. limit \in Quantities
        BY <1>0, <1>7, <2>1, BudgetAssumption DEF Credit, Entries, Quantities
    <2>3. /\ Edited(limit).consumed = entry.consumed /\ Edited(limit).reserved = entry.reserved
          /\ Edited(limit) \in Entries
        BY <1>0, <2>2, EditedFacts
    <2>4. /\ entry' = [Edited(limit) EXCEPT !.receipts = [@ EXCEPT ![call[c].payment] = call[c].tokens]]
          /\ UNCHANGED <<holds, charged, overruns, forgotten, peak>>
        BY <1>7 DEF Credit
    <2>5. entry'.consumed = entry.consumed /\ entry'.reserved = entry.reserved
        BY <2>3, <2>4 DEF Entries
    <2> QED
        BY <1>2, <2>4, <2>5
<1>8. CASE flush
    <2>1. entry' = Exact(entry) /\ UNCHANGED <<holds, history>>
        BY <1>8 DEF flush
    <2> QED
        BY <1>0, <1>2, <2>1, ExactFacts DEF history
<1>9. CASE Restart
    <2>1. /\ entry' = disk /\ holds' = [r \in Spenders |-> None]
          /\ charged' = charged + entry.reserved
          /\ forgotten' = forgotten + Monus(held_tokens(entry), disk.drawn)
          /\ overruns' = overruns /\ peak' = peak
        BY <1>9 DEF Restart
    <2>2. /\ disk.consumed = disk.drawn /\ disk.reserved = 0 /\ disk.drawn \in Nat
        BY <1>0, BudgetAssumption DEF LedgerInv, DiskFollows, Entries, Quantities
    <2>3. held_tokens(entry) = Capped(entry.consumed + entry.reserved)
          /\ held_tokens(entry) \in Nat
        BY <1>0, HeldFacts DEF held_tokens
    <2>4. forgotten' \in Nat /\ disk.drawn + forgotten' >= forgotten + held_tokens(entry) /\ forgotten' >= forgotten
        BY <1>1, <2>1, <2>2, <2>3 DEF Monus
    <2>5. PICK h : h = [r \in Spenders |-> None]
        OBVIOUS
    <2>6. IsFiniteSet(Held(h)) /\ Cardinality(Held(h)) = 0 /\ holds' = h
        BY <2>1, <2>5, HeldNone
    <2>7. Booked'
        BY <2>1, <2>2, <2>6 DEF Booked
    <2>8. WithinAllowance'
        BY <1>1, <2>1, <2>2, <2>4 DEF WithinAllowance
    <2>9. charged' <= entry'.consumed + forgotten' + overruns'
        BY <1>1, <2>1, <2>2, <2>3, <2>4 DEF Capped
    <2> QED
        BY <1>0, <1>1, <2>1, <2>7, <2>8, <2>9 DEF AllowanceInv
<1>10. CASE UNCHANGED budgetVars
    BY <1>2, <1>10 DEF budgetVars, history
<1> QED
    BY <1>3, <1>4, <1>5, <1>6, <1>7, <1>8, <1>9, <1>10 DEF BudgetNext

\* For any attempts, estimates, usages, limits, edits, failed commits and
\* restarts, a key spends and holds no more than the highest limit a
\* reservation was granted under, what providers used above their
\* reservations, and the overruns no journal took.
THEOREM AllowanceKept == BudgetSpec => []WithinAllowance
<1>1. BudgetInit => AllowanceInv
    <2> SUFFICES ASSUME BudgetInit PROVE AllowanceInv
        OBVIOUS
    <2>1. LedgerInv
        BY LedgerAtFirst
    <2>2. /\ entry.consumed = 0 /\ entry.reserved = 0 /\ charged = 0 /\ overruns = 0
          /\ forgotten = 0 /\ peak = 0 /\ holds = [r \in Spenders |-> None]
        BY DEF BudgetInit, NewEntry
    <2> QED
        BY <2>1, <2>2, HeldNone, BudgetAssumption DEF AllowanceInv, Booked, WithinAllowance
<1>2. AllowanceInv => WithinAllowance
    BY DEF AllowanceInv
<1> QED
    BY <1>1, <1>2, AllowanceStep, PTL DEF BudgetSpec

-----------------------------------------------------------------------------
(* The memory of a machine *)

Phases == {"idle", "read", "try", "refused", "doze", "asleep", "giveUp", "waiting", "holding"}

\* The types of the ledger's variables.
LedgerTypeOK ==
  /\ capacity_bytes \in Nat /\ held_bytes \in Nat /\ open \in Nat
  /\ holders \in [Targets -> [n : Nat, bytes : Nat]]
  /\ claims \subseteq Work /\ left \in [Work -> Nat] /\ ahead \subseteq Work \X Work
  /\ phase \in [Work -> Phases]
  /\ stale \subseteq Synchronous /\ nap \in [Synchronous -> Int]

\* The work that runs, that of it on target t, and that of it that needs memory.
Running == {w \in Work : phase[w] = "holding"}
On(t, ws) == {w \in ws : TargetOf[w] = t}
Sized(ws) == {w \in ws : bytes[w] > 0}

\* The ledger is what the running work adds up to.
Balanced ==
  /\ IsFiniteSet(Running) /\ IsFiniteSet(Units(Running))
  /\ held_bytes = BytesOf(Running) /\ open = Cardinality(Running)
  /\ \A t \in Targets : /\ holders[t].bytes = BytesOf(On(t, Running))
                        /\ holders[t].n = Cardinality(Sized(On(t, Running)))

(***************************************************************************)
(* From its refusal on a request that no change came by could not be       *)
(* served: sleeping on free memory is ruled out before it goes to sleep.   *)
(***************************************************************************)
Attentive ==
  \A w \in Synchronous :
    phase[w] \in {"refused", "doze", "asleep"} /\ w \notin stale => ~Grantable(w, claims)

MachineInv == LedgerTypeOK /\ Balanced /\ Attentive

\* One more piece of work adds its bytes.
LEMMA BytesMore ==
  ASSUME NEW ws \in SUBSET Work, NEW w \in Work, w \notin ws, IsFiniteSet(Units(ws))
  PROVE  /\ IsFiniteSet(Units(ws \cup {w})) /\ BytesOf(ws) \in Nat
         /\ BytesOf(ws \cup {w}) = BytesOf(ws) + bytes[w]
<1>0. bytes[w] \in Nat
  BY WorkAssumption
<1>1. Units(ws \cup {w}) = Units(ws) \cup ({w} \X (1 .. bytes[w]))
  BY DEF Units
<1>2. Units(ws) \cap ({w} \X (1 .. bytes[w])) = {}
  BY DEF Units
<1>3. /\ IsFiniteSet(Units(ws) \cup ({w} \X (1 .. bytes[w])))
      /\ Cardinality(Units(ws) \cup ({w} \X (1 .. bytes[w]))) = Cardinality(Units(ws)) + bytes[w]
  BY <1>0, <1>2, HeldWith
<1> QED
  BY <1>1, <1>3, FS_CardinalityType DEF BytesOf

\* A part of the work has part of the bytes.
LEMMA PartFinite ==
  ASSUME NEW ws, NEW some \in SUBSET ws, IsFiniteSet(ws), IsFiniteSet(Units(ws))
  PROVE  IsFiniteSet(some) /\ IsFiniteSet(Units(some))
<1>1. Units(some) \in SUBSET Units(ws)
  BY DEF Units
<1> QED
  BY <1>1, FS_Subset

\* With work w besides ws, each figure is the one of ws and w's own.
LEMMA WithOneMore ==
  ASSUME NEW ws \in SUBSET Work, NEW w \in Work, w \notin ws, IsFiniteSet(ws), IsFiniteSet(Units(ws)),
         NEW t
  PROVE  /\ BytesOf(On(t, ws)) \in Nat /\ Cardinality(Sized(On(t, ws))) \in Nat
         /\ BytesOf(On(t, ws \cup {w})) = BytesOf(On(t, ws)) + (IF TargetOf[w] = t THEN bytes[w] ELSE 0)
         /\ Cardinality(Sized(On(t, ws \cup {w})))
              = Cardinality(Sized(On(t, ws))) + (IF TargetOf[w] = t /\ bytes[w] > 0 THEN 1 ELSE 0)
<1>0. On(t, ws) \in SUBSET ws /\ On(t, ws) \in SUBSET Work /\ w \notin On(t, ws) /\ Sized(On(t, ws)) \in SUBSET ws
  BY DEF On, Sized
<1>1. /\ IsFiniteSet(On(t, ws)) /\ IsFiniteSet(Units(On(t, ws))) /\ IsFiniteSet(Sized(On(t, ws)))
      /\ Cardinality(Sized(On(t, ws))) \in Nat
  BY <1>0, PartFinite, FS_Subset, FS_CardinalityType
<1>2. BytesOf(On(t, ws)) \in Nat
  BY <1>1, FS_CardinalityType DEF BytesOf
<1>3. CASE TargetOf[w] = t
  <2>1. On(t, ws \cup {w}) = On(t, ws) \cup {w}
    BY <1>3 DEF On
  <2>2. BytesOf(On(t, ws) \cup {w}) = BytesOf(On(t, ws)) + bytes[w]
    BY <1>0, <1>1, BytesMore
  <2>3. CASE bytes[w] > 0
    <3>1. Sized(On(t, ws) \cup {w}) = Sized(On(t, ws)) \cup {w} /\ w \notin Sized(On(t, ws))
      BY <1>0, <2>3 DEF Sized
    <3>2. Cardinality(Sized(On(t, ws)) \cup {w}) = Cardinality(Sized(On(t, ws))) + 1
      BY <1>1, <3>1, FS_AddElement
    <3> QED
      BY <1>1, <1>2, <1>3, <2>1, <2>2, <2>3, <3>1, <3>2
  <2>4. CASE ~(bytes[w] > 0)
    <3>1. Sized(On(t, ws) \cup {w}) = Sized(On(t, ws))
      BY <2>4 DEF Sized
    <3> QED
      BY <1>1, <1>2, <1>3, <2>1, <2>2, <2>4, <3>1
  <2> QED
    BY <2>3, <2>4
<1>4. CASE TargetOf[w] # t
  <2>1. On(t, ws \cup {w}) = On(t, ws)
    BY <1>4 DEF On
  <2> QED
    BY <1>1, <1>2, <1>4, <2>1
<1> QED
  BY <1>3, <1>4

\* A granted hold is entered in the ledger as it starts to run.
LEMMA BalancedMore ==
  ASSUME LedgerTypeOK, Balanced, NEW w \in Work, w \notin Running, Running' = Running \cup {w},
         held_bytes' = held_bytes + bytes[w], open' = open + 1,
         holders' = IF bytes[w] = 0 THEN holders
                    ELSE [holders EXCEPT ![TargetOf[w]] =
                            [n |-> holders[TargetOf[w]].n + 1, bytes |-> holders[TargetOf[w]].bytes + bytes[w]]]
  PROVE  /\ Balanced' /\ held_bytes' \in Nat /\ open' \in Nat
         /\ holders' \in [Targets -> [n : Nat, bytes : Nat]]
<1>0. bytes[w] \in Nat /\ TargetOf[w] \in Targets /\ Running \in SUBSET Work
  BY WorkAssumption DEF Running
<1>1. /\ IsFiniteSet(Running) /\ IsFiniteSet(Units(Running))
      /\ held_bytes = BytesOf(Running) /\ open = Cardinality(Running)
  BY DEF Balanced
<1>2. IsFiniteSet(Units(Running \cup {w})) /\ BytesOf(Running \cup {w}) = BytesOf(Running) + bytes[w]
  BY <1>0, <1>1, BytesMore
<1>3. IsFiniteSet(Running \cup {w}) /\ Cardinality(Running \cup {w}) = Cardinality(Running) + 1
  BY <1>1, FS_AddElement
<1>4. held_bytes' \in Nat /\ open' \in Nat
  BY <1>0 DEF LedgerTypeOK
<1>5. /\ holders' \in [Targets -> [n : Nat, bytes : Nat]]
      /\ \A t \in Targets :
           /\ holders'[t].n = holders[t].n + (IF TargetOf[w] = t /\ bytes[w] > 0 THEN 1 ELSE 0)
           /\ holders'[t].bytes = holders[t].bytes + (IF TargetOf[w] = t THEN bytes[w] ELSE 0)
  BY <1>0 DEF LedgerTypeOK
<1>6. ASSUME NEW t \in Targets
      PROVE  /\ holders'[t].bytes = BytesOf(On(t, Running \cup {w}))
             /\ holders'[t].n = Cardinality(Sized(On(t, Running \cup {w})))
  <2>1. holders[t].bytes = BytesOf(On(t, Running)) /\ holders[t].n = Cardinality(Sized(On(t, Running)))
    BY DEF Balanced
  <2>2. /\ BytesOf(On(t, Running \cup {w})) = BytesOf(On(t, Running)) + (IF TargetOf[w] = t THEN bytes[w] ELSE 0)
        /\ Cardinality(Sized(On(t, Running \cup {w})))
             = Cardinality(Sized(On(t, Running))) + (IF TargetOf[w] = t /\ bytes[w] > 0 THEN 1 ELSE 0)
    BY <1>0, <1>1, WithOneMore
  <2> QED
    BY <1>5, <2>1, <2>2
<1>7. Balanced'
  BY <1>1, <1>2, <1>3, <1>6 DEF Balanced, BytesOf, Units, On, Sized
<1> QED
  BY <1>4, <1>5, <1>7

\* A hold that ends takes its own out again, and it was all there.
LEMMA BalancedLess ==
  ASSUME LedgerTypeOK, Balanced, NEW w \in Work, w \in Running, Running' = Running \ {w},
         held_bytes' = held_bytes - bytes[w], open' = open - 1,
         holders' = IF bytes[w] = 0 THEN holders
                    ELSE [holders EXCEPT ![TargetOf[w]] =
                            [n |-> holders[TargetOf[w]].n - 1, bytes |-> holders[TargetOf[w]].bytes - bytes[w]]]
  PROVE  /\ Balanced' /\ held_bytes' \in Nat /\ open' \in Nat
         /\ holders' \in [Targets -> [n : Nat, bytes : Nat]]
<1> DEFINE R == Running \ {w}
<1>0. /\ bytes[w] \in Nat /\ TargetOf[w] \in Targets /\ R \in SUBSET Work /\ R \in SUBSET Running
      /\ w \notin R /\ Running = R \cup {w} /\ Running' = R
  BY WorkAssumption DEF Running
<1> HIDE DEF R
<1>1. /\ IsFiniteSet(R) /\ IsFiniteSet(Units(R)) /\ Cardinality(R) \in Nat
      /\ held_bytes = BytesOf(R \cup {w}) /\ open = Cardinality(R \cup {w})
  BY <1>0, PartFinite, FS_CardinalityType DEF Balanced
<1>2. BytesOf(R \cup {w}) = BytesOf(R) + bytes[w] /\ BytesOf(R) \in Nat
  BY <1>0, <1>1, BytesMore
<1>3. Cardinality(R \cup {w}) = Cardinality(R) + 1
  BY <1>0, <1>1, FS_AddElement
<1>4. held_bytes' = BytesOf(R) /\ open' = Cardinality(R)
  BY <1>0, <1>1, <1>2, <1>3
<1>5. ASSUME NEW t \in Targets
      PROVE  /\ holders'[t] \in [n : Nat, bytes : Nat]
             /\ holders'[t].bytes = BytesOf(On(t, R)) /\ holders'[t].n = Cardinality(Sized(On(t, R)))
  <2>1. /\ holders[t].bytes = BytesOf(On(t, R \cup {w})) /\ holders[t].n = Cardinality(Sized(On(t, R \cup {w})))
        /\ holders[t] \in [n : Nat, bytes : Nat]
    BY <1>0 DEF Balanced, LedgerTypeOK
  <2>2. /\ BytesOf(On(t, R)) \in Nat /\ Cardinality(Sized(On(t, R))) \in Nat
        /\ BytesOf(On(t, R \cup {w})) = BytesOf(On(t, R)) + (IF TargetOf[w] = t THEN bytes[w] ELSE 0)
        /\ Cardinality(Sized(On(t, R \cup {w})))
             = Cardinality(Sized(On(t, R))) + (IF TargetOf[w] = t /\ bytes[w] > 0 THEN 1 ELSE 0)
    <3>1. R \in SUBSET Work /\ w \notin R /\ IsFiniteSet(R) /\ IsFiniteSet(Units(R))
      BY <1>0, <1>1
    <3> QED
      BY <3>1, WithOneMore
  <2>3. CASE TargetOf[w] = t /\ bytes[w] > 0
    <3>1. holders'[t] = [n |-> holders[t].n - 1, bytes |-> holders[t].bytes - bytes[w]]
      BY <1>0, <2>3 DEF LedgerTypeOK
    <3>2. /\ holders[t].n = Cardinality(Sized(On(t, R))) + 1 /\ holders[t].bytes = BytesOf(On(t, R)) + bytes[w]
          /\ BytesOf(On(t, R)) \in Nat /\ Cardinality(Sized(On(t, R))) \in Nat /\ bytes[w] \in Nat
      BY <1>0, <2>1, <2>2, <2>3
    <3>3. holders[t].n - 1 = Cardinality(Sized(On(t, R))) /\ holders[t].bytes - bytes[w] = BytesOf(On(t, R))
      BY <3>2
    <3> QED
      BY <2>2, <3>1, <3>3
  <2>4. CASE ~(TargetOf[w] = t /\ bytes[w] > 0)
    <3>1. holders'[t] = holders[t]
      BY <1>0, <2>4 DEF LedgerTypeOK
    <3> QED
      BY <1>0, <2>1, <2>2, <2>4, <3>1
  <2> QED
    BY <2>3, <2>4
<1>6. holders' \in [Targets -> [n : Nat, bytes : Nat]]
  <2>1. DOMAIN holders' = Targets /\ holders' = [t \in Targets |-> holders'[t]]
    BY <1>0 DEF LedgerTypeOK
  <2> QED
    BY <1>5, <2>1
<1>7. Balanced'
  BY <1>0, <1>1, <1>4, <1>5 DEF Balanced, BytesOf, Units, On, Sized
<1> QED
  BY <1>0, <1>1, <1>2, <1>4, <1>6, <1>7

\* Nothing else that happens touches the sums.
LEMMA BalancedStill ==
  ASSUME Balanced, Running' = Running, UNCHANGED <<held_bytes, holders, open>>
  PROVE  Balanced'
BY DEF Balanced, BytesOf, Units, On, Sized

\* A change that every request will look at.
LEMMA AllTold ==
  ASSUME stale' = Synchronous
  PROVE  Attentive'
BY DEF Attentive

(***************************************************************************)
(* What could not be served stays so while memory is only taken and claims *)
(* are only added, behind the ones that are there.                         *)
(***************************************************************************)
LEMMA StillBehind ==
  ASSUME LedgerTypeOK, NEW v \in Work, ~Grantable(v, claims),
         capacity_bytes' = capacity_bytes, held_bytes' \in Nat, held_bytes <= held_bytes',
         claims \subseteq claims',
         \A u \in claims \ {v} : (v \in claims => <<u, v>> \in ahead) /\ v \in claims' => <<u, v>> \in ahead'
  PROVE  ~Grantable(v, claims)'
<1>1. bytes[v] \in Nat /\ bytes[v] # 0 /\ (Fits(v) => outranked(v, claims))
  BY WorkAssumption DEF Grantable
<1>2. Fits(v)' => Fits(v)
  BY <1>1 DEF Fits, LedgerTypeOK
<1>3. outranked(v, claims) => outranked(v, claims)'
  BY DEF outranked
<1> QED
  BY <1>1, <1>2, <1>3 DEF Grantable

\* The requests' side of a step without a change, but for the one that moves.
LEMMA AttentiveStill ==
  ASSUME LedgerTypeOK, Attentive, NEW w \in Work, stale' = stale,
         \A v \in Work : v # w => phase'[v] = phase[v],
         capacity_bytes' = capacity_bytes, held_bytes' \in Nat, held_bytes <= held_bytes',
         claims \subseteq claims',
         \A v \in Work : \A u \in claims \ {v} :
           (v \in claims => <<u, v>> \in ahead) /\ v \in claims' => <<u, v>> \in ahead',
         phase'[w] \in {"refused", "doze", "asleep"} /\ w \in Synchronous /\ w \notin stale => ~Grantable(w, claims)
  PROVE  Attentive'
<1> SUFFICES ASSUME NEW v \in Synchronous, phase'[v] \in {"refused", "doze", "asleep"}, v \notin stale
             PROVE  ~Grantable(v, claims)'
  BY DEF Attentive
<1>1. v \in Work
  BY DEF Work
<1>2. ~Grantable(v, claims)
  BY <1>1 DEF Attentive
<1> QED
  BY <1>1, <1>2, StillBehind

\* try_hold: what is granted is entered, what is refused was not to be had.
LEMMA TryHoldStep ==
  ASSUME MachineInv, NEW w \in Work, phase[w] # "holding", try_hold(w, "holding", "refused")
  PROVE  MachineInv'
<1> USE DEF MachineInv
<1> DEFINE expired == Live # claims
<1>0. bytes[w] \in Nat /\ Live \subseteq claims
  BY WorkAssumption DEF Live
<1>1. CASE Grantable(w, Live)
  <2> DEFINE yes == Live # claims \/ w \in Live
  <2>1. /\ held_bytes' = held_bytes + bytes[w] /\ open' = open + 1
        /\ holders' = IF bytes[w] = 0 THEN holders
                      ELSE [holders EXCEPT ![TargetOf[w]] =
                              [n |-> holders[TargetOf[w]].n + 1, bytes |-> holders[TargetOf[w]].bytes + bytes[w]]]
        /\ Retain(Live \ {w}) /\ Changed(yes) /\ Awakened(yes, w, "holding")
        /\ UNCHANGED <<capacity_bytes, nap>>
    BY <1>1 DEF try_hold
  <2>2. /\ phase' \in [Work -> Phases]
        /\ phase'[w] = "holding" /\ \A v \in Work : v # w => (phase'[v] = "holding" <=> phase[v] = "holding")
        /\ ~yes => \A v \in Work : v # w => phase'[v] = phase[v]
    BY <2>1 DEF Awakened, LedgerTypeOK, Asleep, Phases
  <2>3. claims' \subseteq Work /\ left' \in [Work -> Nat] /\ ahead' \subseteq Work \X Work /\ stale' \subseteq Synchronous
    BY <1>0, <2>1 DEF Retain, Changed, LedgerTypeOK
  <2>4. w \notin Running /\ Running' = Running \cup {w}
    BY <2>2 DEF Running
  <2>5. /\ Balanced' /\ held_bytes' \in Nat /\ open' \in Nat
        /\ holders' \in [Targets -> [n : Nat, bytes : Nat]]
    BY <2>1, <2>4, BalancedMore
  <2>6. LedgerTypeOK'
    BY <2>1, <2>2, <2>3, <2>5 DEF LedgerTypeOK
  <2>7. Attentive'
    <3>1. CASE yes
      BY <2>1, <3>1, AllTold DEF Changed
    <3>2. CASE ~yes
      <4>1. claims' = claims /\ ahead' = ahead \cap (claims \X claims) /\ stale' = stale
        BY <2>1, <3>2 DEF Retain, Changed
      <4>2. held_bytes <= held_bytes'
        BY <1>0, <2>1 DEF LedgerTypeOK
      <4> QED
        BY <2>1, <2>2, <2>5, <3>2, <4>1, <4>2, AttentiveStill
    <3> QED
      BY <3>1, <3>2
  <2> QED
    BY <2>5, <2>6, <2>7
<1>2. CASE ~Grantable(w, Live)
  <2>1. /\ Retain(Live) /\ Changed(expired) /\ Awakened(expired, w, "refused")
        /\ UNCHANGED <<capacity_bytes, held_bytes, holders, open, nap>>
    BY <1>2 DEF try_hold, ledger
  <2>2. /\ phase' \in [Work -> Phases]
        /\ phase'[w] = "refused" /\ \A v \in Work : v # w => (phase'[v] = "holding" <=> phase[v] = "holding")
        /\ ~expired => \A v \in Work : v # w => phase'[v] = phase[v]
    BY <2>1 DEF Awakened, LedgerTypeOK, Asleep, Phases
  <2>3. claims' \subseteq Work /\ left' \in [Work -> Nat] /\ ahead' \subseteq Work \X Work /\ stale' \subseteq Synchronous
    BY <1>0, <2>1 DEF Retain, Changed, LedgerTypeOK
  <2>4. Running' = Running
    BY <2>2 DEF Running
  <2>5. Balanced' /\ LedgerTypeOK'
    BY <2>1, <2>2, <2>3, <2>4, BalancedStill DEF LedgerTypeOK
  <2>7. Attentive'
    <3>1. CASE expired
      BY <2>1, <3>1, AllTold DEF Changed
    <3>2. CASE ~expired
      <4>1. claims' = claims /\ ahead' = ahead \cap (claims \X claims) /\ stale' = stale /\ ~Grantable(w, claims)
        BY <1>2, <2>1, <3>2 DEF Retain, Changed
      <4>2. held_bytes' \in Nat /\ held_bytes <= held_bytes'
        BY <2>1 DEF LedgerTypeOK
      <4> QED
        BY <2>1, <2>2, <3>2, <4>1, <4>2, AttentiveStill
    <3> QED
      BY <3>1, <3>2
  <2> QED
    BY <2>5, <2>7
<1> QED
  BY <1>1, <1>2

\* claim: a place at the back, or the old one kept, changes nobody's turn.
LEMMA ClaimStep ==
  ASSUME MachineInv, NEW w \in Work, phase[w] = "refused", claim(w), UNCHANGED <<ledger, nap>>,
         NEW point \in {"doze", "giveUp", "waiting"}, phase' = [phase EXCEPT ![w] = point]
  PROVE  MachineInv'
<1> USE DEF MachineInv
<1>0. Live \subseteq claims /\ UNCHANGED <<capacity_bytes, held_bytes, holders, open, nap>>
  BY DEF Live, ledger
<1>1. claims' \subseteq Work /\ left' \in [Work -> Nat] /\ ahead' \subseteq Work \X Work /\ stale' \subseteq Synchronous
  <2>1. CASE ClaimRoom(w)
    BY <1>0, <2>1 DEF claim, Recorded, Changed, LedgerTypeOK, CLAIM_TTL
  <2>2. CASE ~ClaimRoom(w)
    BY <1>0, <2>2 DEF claim, Retain, Changed, LedgerTypeOK
  <2> QED
    BY <2>1, <2>2
<1>2. LedgerTypeOK' /\ \A v \in Work : v # w => phase'[v] = phase[v]
  BY <1>0, <1>1 DEF LedgerTypeOK, Phases
<1>3. Running' = Running
  BY DEF Running, LedgerTypeOK
<1>4. Balanced'
  BY <1>0, <1>3, BalancedStill
<1>5. Attentive'
  <2>1. CASE Live # claims
    BY <2>1, AllTold DEF claim, Changed
  <2>2. CASE Live = claims
    <3>1. stale' = stale /\ claims \subseteq claims'
      BY <2>2 DEF claim, Changed, Recorded, Retain
    <3>2. ASSUME NEW v \in Work, NEW u \in claims \ {v}, v \in claims => <<u, v>> \in ahead, v \in claims'
          PROVE  <<u, v>> \in ahead'
      <4>1. CASE ClaimRoom(w)
        BY <2>2, <3>2, <4>1 DEF claim, Recorded
      <4>2. CASE ~ClaimRoom(w)
        BY <2>2, <3>2, <4>2 DEF claim, Retain
      <4> QED
        BY <4>1, <4>2
    <3>3. held_bytes' \in Nat /\ held_bytes <= held_bytes' /\ capacity_bytes' = capacity_bytes
      BY <1>0 DEF LedgerTypeOK
    <3>4. w \in Synchronous /\ w \notin stale => ~Grantable(w, claims)
      BY DEF Attentive
    <3> QED
      BY <1>2, <3>1, <3>2, <3>3, <3>4, AttentiveStill
  <2> QED
    BY <2>1, <2>2
<1> QED
  BY <1>2, <1>4, <1>5

\* drop_claim: a place given up is a change, if there was one.
LEMMA DropStep ==
  ASSUME MachineInv, NEW w \in Work, phase[w] \in {"giveUp", "waiting"}, drop_claim(w, "idle"),
         UNCHANGED <<ledger, nap>>
  PROVE  MachineInv'
<1> USE DEF MachineInv
<1>0. UNCHANGED <<capacity_bytes, held_bytes, holders, open, nap>>
  BY DEF ledger
<1>1. /\ Retain(claims \ {w}) /\ Changed(w \in claims) /\ Awakened(w \in claims, w, "idle")
  BY DEF drop_claim
<1>2. /\ phase' \in [Work -> Phases]
      /\ phase'[w] = "idle" /\ \A v \in Work : v # w => (phase'[v] = "holding" <=> phase[v] = "holding")
      /\ w \notin claims => \A v \in Work : v # w => phase'[v] = phase[v]
  BY <1>1 DEF Awakened, LedgerTypeOK, Asleep, Phases
<1>3. claims' \subseteq Work /\ left' \in [Work -> Nat] /\ ahead' \subseteq Work \X Work /\ stale' \subseteq Synchronous
  BY <1>1 DEF Retain, Changed, LedgerTypeOK
<1>4. Running' = Running
  BY <1>2 DEF Running
<1>5. Balanced' /\ LedgerTypeOK'
  BY <1>0, <1>2, <1>3, <1>4, BalancedStill DEF LedgerTypeOK
<1>6. Attentive'
  <2>1. CASE w \in claims
    BY <1>1, <2>1, AllTold DEF Changed
  <2>2. CASE w \notin claims
    <3>1. claims' = claims /\ ahead' = ahead \cap (claims \X claims) /\ stale' = stale
      BY <1>1, <2>2 DEF Retain, Changed
    <3>2. held_bytes' \in Nat /\ held_bytes <= held_bytes'
      BY <1>0 DEF LedgerTypeOK
    <3> QED
      BY <1>0, <1>2, <2>2, <3>1, <3>2, AttentiveStill
  <2> QED
    BY <2>1, <2>2
<1> QED
  BY <1>5, <1>6

\* give_back: what was entered is taken out, and everybody looks again.
LEMMA GiveBackStep ==
  ASSUME MachineInv, NEW w \in Work, give_back(w)
  PROVE  MachineInv'
<1> USE DEF MachineInv
<1>1. /\ phase[w] = "holding" /\ held_bytes' = held_bytes - bytes[w] /\ open' = open - 1
      /\ holders' = IF bytes[w] = 0 THEN holders
                    ELSE [holders EXCEPT ![TargetOf[w]] =
                            [n |-> holders[TargetOf[w]].n - 1, bytes |-> holders[TargetOf[w]].bytes - bytes[w]]]
      /\ stale' = Synchronous /\ Awakened(TRUE, w, "idle")
      /\ UNCHANGED <<capacity_bytes, claims, left, ahead, nap>>
  BY DEF give_back, queued, Changed
<1>2. /\ phase' \in [Work -> Phases]
      /\ phase'[w] = "idle" /\ \A v \in Work : v # w => (phase'[v] = "holding" <=> phase[v] = "holding")
  BY <1>1 DEF Awakened, LedgerTypeOK, Asleep, Phases
<1>3. w \in Running /\ Running' = Running \ {w}
  BY <1>1, <1>2 DEF Running
<1>4. /\ Balanced' /\ held_bytes' \in Nat /\ open' \in Nat
      /\ holders' \in [Targets -> [n : Nat, bytes : Nat]]
  BY <1>1, <1>3, BalancedLess
<1>5. LedgerTypeOK'
  BY <1>1, <1>2, <1>4 DEF LedgerTypeOK
<1> QED
  BY <1>1, <1>4, <1>5, AllTold

\* reconfigure and view change what is free or who comes first, and say so.
LEMMA ToldStep ==
  ASSUME MachineInv, (\E c \in Capacities : reconfigure(c)) \/ view
  PROVE  MachineInv'
<1> USE DEF MachineInv
<1>1. stale' = Synchronous /\ UNCHANGED <<held_bytes, holders, open, nap>> /\ capacity_bytes' \in Nat
  BY MachineAssumption DEF reconfigure, view, Changed, ledger, LedgerTypeOK
<1>2. claims' \subseteq Work /\ left' \in [Work -> Nat] /\ ahead' \subseteq Work \X Work
  <2>1. CASE \E c \in Capacities : reconfigure(c)
    BY <2>1 DEF reconfigure, queued, LedgerTypeOK
  <2>2. CASE view
    <3>1. Retain(Live) /\ Live \subseteq claims
      BY <2>2 DEF view, Live
    <3> QED
      BY <3>1 DEF Retain, LedgerTypeOK
  <2> QED
    BY <2>1, <2>2
<1>3. /\ phase' \in [Work -> Phases]
      /\ \A v \in Work : phase'[v] = "holding" <=> phase[v] = "holding"
  BY DEF reconfigure, view, LedgerTypeOK, Asleep, Phases
<1>4. Running' = Running
  BY <1>3 DEF Running
<1>5. Balanced' /\ LedgerTypeOK'
  BY <1>1, <1>2, <1>3, <1>4, BalancedStill DEF LedgerTypeOK
<1> QED
  BY <1>1, <1>5, AllTold

\* Steps of one piece of work that leave ledger and claims alone; it goes to
\* sleep only where it could not have been served.
LEMMA PhaseStep ==
  ASSUME MachineInv, NEW w \in Work, UNCHANGED <<ledger, queued>>, phase[w] # "holding",
         NEW point \in {"idle", "read", "try", "giveUp", "asleep"}, phase' = [phase EXCEPT ![w] = point],
         point = "asleep" => phase[w] = "doze" /\ w \notin stale,
         stale' = stale \/ (stale' = stale \ {w} /\ point = "try"), nap' \in [Synchronous -> Int]
  PROVE  MachineInv'
<1> USE DEF MachineInv
<1>0. UNCHANGED <<capacity_bytes, held_bytes, holders, open, claims, left, ahead>>
  BY DEF ledger, queued
<1>1. LedgerTypeOK'
  BY <1>0 DEF LedgerTypeOK, Phases
<1>2. Running' = Running
  BY DEF Running, LedgerTypeOK
<1>3. Balanced'
  BY <1>0, <1>2, BalancedStill
<1>4. Attentive'
  <2> SUFFICES ASSUME NEW v \in Synchronous, phase'[v] \in {"refused", "doze", "asleep"}, v \notin stale'
               PROVE  ~Grantable(v, claims)'
    BY DEF Attentive
  <2>1. v \in Work
    BY DEF Work
  <2>2. v \notin stale /\ phase[v] \in {"refused", "doze", "asleep"}
    BY <2>1 DEF LedgerTypeOK
  <2> QED
    BY <1>0, <2>2 DEF Attentive, Grantable, Fits, outranked
<1> QED
  BY <1>1, <1>3, <1>4

\* A tick only shortens leases and naps.
LEMMA TickStep ==
  ASSUME MachineInv, LeaseTick
  PROVE  MachineInv'
<1> USE DEF MachineInv
<1>0. UNCHANGED <<capacity_bytes, held_bytes, holders, open, claims, ahead, phase, stale>>
  BY DEF LeaseTick, ledger
<1>1. left' \in [Work -> Nat] /\ nap' \in [Synchronous -> Int]
  BY DEF LeaseTick, LedgerTypeOK
<1>2. LedgerTypeOK'
  BY <1>0, <1>1 DEF LedgerTypeOK
<1>3. Running' = Running
  BY <1>0 DEF Running
<1>4. Balanced'
  BY <1>0, <1>3, BalancedStill
<1>5. Attentive'
  BY <1>0 DEF Attentive, Grantable, Fits, outranked
<1> QED
  BY <1>2, <1>4, <1>5

\* An empty ledger balances.
LEMMA MachineInit ==
  ASSUME LedgerInit
  PROVE  MachineInv
<1>1. Running = {} /\ Units({}) = {} /\ \A t : On(t, {}) = {} /\ Sized({}) = {}
  BY DEF LedgerInit, Running, Units, On, Sized
<1>2. Balanced
  BY <1>1, FS_EmptySet DEF LedgerInit, Balanced, BytesOf
<1>3. LedgerTypeOK
  BY MachineAssumption DEF LedgerInit, LedgerTypeOK, Phases
<1>4. Attentive
  BY DEF LedgerInit, Attentive, Work
<1> QED
  BY <1>2, <1>3, <1>4 DEF MachineInv

\* The steps of a request that waits on the ledger.
LEMMA RequestsStep ==
  ASSUME MachineInv, NEW w \in Synchronous, Ask(w) \/ RequestStep(w) \/ BudgetRunsOut(w)
  PROVE  MachineInv'
<1>0. w \in Work
  BY DEF Work
<1>n. nap \in [Synchronous -> Int]
  BY DEF MachineInv, LedgerTypeOK
<1>1. CASE Ask(w)
  BY <1>0, <1>1, <1>n, PhaseStep DEF Ask
<1>2. CASE ReadChanges(w)
  BY <1>0, <1>2, <1>n, PhaseStep DEF ReadChanges, queued
<1>3. CASE TryWaiting(w)
  BY <1>0, <1>3, TryHoldStep DEF TryWaiting
<1>4. CASE ClaimWaiting(w)
  BY <1>0, <1>4, ClaimStep DEF ClaimWaiting
<1>5. CASE Doze(w)
  <2>1. CASE w \in stale
    BY <1>0, <1>5, <1>n, <2>1, PhaseStep DEF Doze
  <2>2. CASE w \notin stale
    <3>1. nap' \in [Synchronous -> Int]
      BY <1>5, <1>n, <2>2 DEF Doze, RENEW_EVERY
    <3> QED
      BY <1>0, <1>5, <2>2, <3>1, PhaseStep DEF Doze
  <2> QED
    BY <2>1, <2>2
<1>6. CASE NapEnds(w)
  BY <1>0, <1>6, <1>n, PhaseStep DEF NapEnds
<1>7. CASE GiveUp(w)
  BY <1>0, <1>7, DropStep DEF GiveUp
<1>8. CASE BudgetRunsOut(w)
  BY <1>0, <1>8, <1>n, PhaseStep DEF BudgetRunsOut
<1> QED
  BY <1>1, <1>2, <1>3, <1>4, <1>5, <1>6, <1>7, <1>8 DEF RequestStep

\* The steps of a job that comes back.
LEMMA JobsStep ==
  ASSUME MachineInv, NEW j \in Jobs, Pass(j) \/ ClaimJob(j) \/ CancelJob(j) \/ ForgetJob(j)
  PROVE  MachineInv'
<1>0. j \in Work /\ nap \in [Synchronous -> Int]
  BY DEF Work, MachineInv, LedgerTypeOK
<1>1. CASE Pass(j)
  BY <1>0, <1>1, TryHoldStep DEF Pass
<1>2. CASE ClaimJob(j)
  BY <1>0, <1>2, ClaimStep DEF ClaimJob
<1>3. CASE CancelJob(j)
  BY <1>0, <1>3, DropStep DEF CancelJob
<1>4. CASE ForgetJob(j)
  BY <1>0, <1>4, PhaseStep DEF ForgetJob
<1> QED
  BY <1>1, <1>2, <1>3, <1>4

\* Every step of the ledger keeps its invariant.
LEMMA MachineStep == MachineInv /\ [LedgerNext]_ledgerVars => MachineInv'
<1> SUFFICES ASSUME MachineInv, [LedgerNext]_ledgerVars PROVE MachineInv'
  OBVIOUS
<1>1. CASE \E w \in Synchronous : Ask(w) \/ RequestStep(w) \/ BudgetRunsOut(w)
  BY <1>1, RequestsStep
<1>2. CASE \E j \in Jobs : Pass(j) \/ ClaimJob(j) \/ CancelJob(j) \/ ForgetJob(j)
  BY <1>2, JobsStep
<1>3. CASE \E w \in Work : give_back(w)
  BY <1>3, GiveBackStep
<1>4. CASE (\E c \in Capacities : reconfigure(c)) \/ view
  BY <1>4, ToldStep
<1>5. CASE LeaseTick
  BY <1>5, TickStep
<1>6. CASE UNCHANGED ledgerVars
  <2>1. UNCHANGED <<capacity_bytes, held_bytes, holders, open, claims, left, ahead, phase, stale, nap>>
    BY <1>6 DEF ledgerVars, ledger, queued
  <2>2. LedgerTypeOK' /\ Running' = Running
    BY <2>1 DEF MachineInv, LedgerTypeOK, Running
  <2>3. Balanced'
    BY <2>1, <2>2, BalancedStill DEF MachineInv
  <2>4. Attentive'
    BY <2>1 DEF MachineInv, Attentive, Grantable, Fits, outranked
  <2> QED
    BY <2>2, <2>3, <2>4 DEF MachineInv
<1> QED
  BY <1>1, <1>2, <1>3, <1>4, <1>5, <1>6 DEF LedgerNext

\* The ledger balances and is attended to in every state.
THEOREM MachineInvariant == LedgerSpec => []MachineInv
<1>1. LedgerInit => MachineInv
  BY MachineInit
<1> QED
  BY <1>1, MachineStep, PTL DEF LedgerSpec

(***************************************************************************)
(* MemorySound: for any requests, jobs, sizes, classes, targets and        *)
(* capacities, what MachineLedger says is held is what runs, in all and on *)
(* each target, and no request sleeps on memory that it could have.        *)
(***************************************************************************)
THEOREM MemoryKept == LedgerSpec => []MemorySound
<1>1. MachineInv => MemorySound
  <2> SUFFICES ASSUME MachineInv PROVE MemorySound
    OBVIOUS
  <2>1. Running = {w \in Work : phase[w] = "holding"}
        /\ \A t : On(t, Running) = Holding(t) /\ Sized(Holding(t)) = {w \in Holding(t) : bytes[w] > 0}
    BY DEF Running, On, Holding, Sized
  <2>2. MemoryAccounted
    BY <2>1 DEF MachineInv, Balanced, MemoryAccounted
  <2>3. NoSleepingOnFreeMemory
    BY DEF MachineInv, Attentive, NoSleepingOnFreeMemory, Asleep
  <2> QED
    BY <2>2, <2>3 DEF MemorySound
<1> QED
  BY <1>1, MachineInvariant, PTL
=============================================================================
