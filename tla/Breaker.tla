------------------------------ MODULE Breaker -------------------------------
(***************************************************************************)
(* The circuit breaker of one target and operation                         *)
(* (crates/hypellm-core/src/health.rs), and the permits that the request   *)
(* threads of crates/hypellm-router/src/pipeline.rs hold and finish.       *)
(*                                                                         *)
(* Every operation is one critical section of the breaker's mutex, called  *)
(* with a time its thread read earlier: lag ticks ago.  Times are kept     *)
(* relative to the clock, so that it may run forever: cool_in is           *)
(* open_until_ms less the clock, age and probe_age are the clock less      *)
(* current_start_ms and last_probe_admitted_ms.  Each is held at the value *)
(* beyond which no comparison tells it apart.                              *)
(*                                                                         *)
(* The epoch is only compared for equality: it is kept modulo three, and a *)
(* permit of an epoch that has passed is marked Past, so that no later     *)
(* epoch is taken for it.  force_open, force_close and the unattributed    *)
(* record have no caller in the router; the restoration ramp is a score.   *)
(***************************************************************************)
EXTENDS Integers, FiniteSets

CONSTANTS
  Threads,        \* the request threads
  min_samples, failure_threshold_percent, window_millis,
  base_cooldown_millis, max_cooldown_millis,
  half_open_probes, half_open_successes_to_close,
  PROBE_LEASE,     \* PROBE_LEASE_MILLIS, in ticks
  MAX_SHIFT,       \* the largest shift of the cooldown
  U32_MAX,         \* where a count of samples saturates
  MaxLag,          \* bound: how old the time a thread passes may be
  None, Past       \* no permit; the epoch of a permit that is not current

ASSUME ConfigAssumption ==
  /\ IsFiniteSet(Threads) /\ min_samples \in Nat /\ failure_threshold_percent \in Nat
  /\ window_millis \in Nat \ {0} /\ base_cooldown_millis \in Nat /\ max_cooldown_millis \in Nat
  /\ half_open_probes \in Nat \ {0} /\ half_open_successes_to_close \in Nat
  /\ PROBE_LEASE \in Nat /\ MAX_SHIFT \in Nat /\ U32_MAX \in Nat /\ MaxLag \in Nat
  /\ Past \notin Nat /\ None \notin [probe : BOOLEAN, epoch : 0 .. 2 \cup {Past}]
  /\ \A n \in 0 .. MAX_SHIFT : 2^n \in Nat

VARIABLES
  inner,     \* BreakerInner
  permit,    \* each thread's BreakerPermit
  fresh,     \* history: threads admitted since the breaker last moved
  outcomes   \* history: outcomes those threads reported, up to min_samples

breakerVars == <<inner, permit, fresh, outcomes>>

Lags == 0 .. MaxLag

Monus(m, n) == IF m > n THEN m - n ELSE 0

Least(m, n) == IF m < n THEN m ELSE n

NewCounts(lag) == [age |-> lag, ok |-> 0, fail |-> 0, prev_ok |-> 0, prev_fail |-> 0]

BreakerInit ==
  /\ inner = [state |-> "closed", counts |-> NewCounts(0), cool_in |-> 0,
              consecutive_opens |-> 0, probes_in_flight |-> 0, probe_age |-> 0,
              epoch |-> 0, probe_successes |-> 0]
  /\ permit = [r \in Threads |-> None]
  /\ fresh = {} /\ outcomes = 0

-----------------------------------------------------------------------------
(* RollingCounts *)

rotate_if_needed(c, lag) ==
  LET elapsed == Monus(c.age, lag) IN
  IF elapsed < window_millis THEN c
  ELSE IF elapsed >= 2 * window_millis THEN NewCounts(lag)
  ELSE [NewCounts(lag) EXCEPT !.prev_ok = c.ok, !.prev_fail = c.fail]

Sampled(c, outcome, lag) ==
  LET w == rotate_if_needed(c, lag) IN
  IF outcome = "ok" THEN [w EXCEPT !.ok = Least(@ + 1, U32_MAX)]
                    ELSE [w EXCEPT !.fail = Least(@ + 1, U32_MAX)]

OverThreshold(c) ==
  LET failed == Least(c.fail + c.prev_fail, U32_MAX)
      total  == Least(c.ok + c.prev_ok + failed, U32_MAX)
  IN  total >= min_samples /\ total > 0
      /\ (failed * 100) \div total >= failure_threshold_percent

-----------------------------------------------------------------------------
(* The transitions, from one value of BreakerInner to the next *)

NextEpoch(b) == (b.epoch + 1) % 3

transition_if_cooled(b, lag) ==
  IF b.state = "open" /\ b.cool_in + lag <= 0
  THEN [b EXCEPT !.state = "half_open", !.probes_in_flight = 0, !.probe_successes = 0,
                 !.epoch = NextEpoch(b)]
  ELSE b

\* Doubling, capped; beyond MAX_SHIFT + 1 opens in a row nothing changes.
opened(b, lag) ==
  LET shift    == Least(b.consecutive_opens, MAX_SHIFT)
      cooldown == Least(base_cooldown_millis * 2^shift, max_cooldown_millis)
  IN  [b EXCEPT !.state = "open", !.epoch = NextEpoch(b),
                !.probes_in_flight = 0, !.probe_successes = 0,
                !.consecutive_opens = Least(@ + 1, MAX_SHIFT + 1),
                !.cool_in = cooldown - lag]

closed(b, lag) ==
  [b EXCEPT !.state = "closed", !.epoch = NextEpoch(b),
            !.consecutive_opens = 0, !.probe_successes = 0, !.counts = NewCounts(lag)]

\* Mutant: the lease is never called in.
LeaseOver_Never(b, lag) == FALSE

\* Every slot is taken, and was for longer than a lease.
LeaseOver(b, lag) ==
  /\ b.state = "half_open"
  /\ b.probes_in_flight >= half_open_probes /\ b.probes_in_flight > 0
  /\ Monus(b.probe_age, lag) >= PROBE_LEASE

\* Mutant: the slots are reclaimed within the same epoch.
reclaimed_SameEpoch(b) == [b EXCEPT !.probes_in_flight = 0, !.probe_successes = 0]

reclaimed(b) ==
  [b EXCEPT !.probes_in_flight = 0, !.probe_successes = 0, !.epoch = NextEpoch(b)]

\* The breaker as admit finds it.
Ready(b, lag) ==
  LET cooled == transition_if_cooled(b, lag)
  IN  IF LeaseOver(cooled, lag) THEN reclaimed(cooled) ELSE cooled

HasRoom(b) == b.state = "half_open" /\ b.probes_in_flight < half_open_probes

Granted(b) == b.state = "closed" \/ HasRoom(b)

(***************************************************************************)
(* finish_permit.  A probe's result counts only in the half-open epoch     *)
(* that issued it, any other result only in the closed one.                *)
(***************************************************************************)
ProbeDone(b, outcome, lag) ==
  LET back    == [b EXCEPT !.probes_in_flight = Monus(@, 1)]
      counted == [back EXCEPT !.counts = Sampled(b.counts, outcome, lag)]
      proved  == [counted EXCEPT !.probe_successes = @ + 1]
  IN  CASE outcome = "none" -> back
        [] outcome = "ok"   -> IF proved.probe_successes >= half_open_successes_to_close
                               THEN closed(proved, lag) ELSE proved
        [] outcome = "fail" -> opened(counted, lag)

RequestDone(b, outcome, lag) ==
  LET counted == [b EXCEPT !.counts = Sampled(b.counts, outcome, lag)]
  IN  IF outcome = "none" THEN b
      ELSE IF outcome = "fail" /\ OverThreshold(counted.counts) THEN opened(counted, lag)
      ELSE counted

\* Mutant: a result is applied to whatever state it finds.
Counts_AnyEpoch(b, p) == b.state = IF p.probe THEN "half_open" ELSE "closed"

\* Is p's result about the state the breaker is in?
Counts(b, p) == p.epoch = b.epoch /\ b.state = IF p.probe THEN "half_open" ELSE "closed"

finish_permit(b, p, outcome, lag) ==
  LET cooled == transition_if_cooled(b, lag)
  IN  IF ~Counts(cooled, p) THEN cooled
      ELSE IF p.probe THEN ProbeDone(cooled, outcome, lag)
      ELSE RequestDone(cooled, outcome, lag)

-----------------------------------------------------------------------------
(* The steps *)

\* The breaker moved, or took back the slots of its probes.
Moved(lag) == inner'.state # inner.state \/ LeaseOver(inner, lag)

\* The permits, with those of past epochs marked.
Aged(ps) == [r \in Threads |->
  IF ps[r] # None /\ ps[r].epoch # inner'.epoch THEN [ps[r] EXCEPT !.epoch = Past] ELSE ps[r]]

admit(r, lag) ==
  LET b == Ready(inner, lag) IN
  /\ permit[r] = None /\ Granted(b)
  /\ inner' = IF HasRoom(b)
              THEN [b EXCEPT !.probes_in_flight = @ + 1, !.probe_age = lag]
              ELSE b
  /\ permit' = Aged([permit EXCEPT ![r] = [probe |-> HasRoom(b), epoch |-> b.epoch]])
  /\ fresh' = (IF Moved(lag) THEN {} ELSE fresh) \cup {r}
  /\ outcomes' = IF Moved(lag) THEN 0 ELSE outcomes

\* record with an outcome, or release without one.
Conclude(r, outcome, lag) ==
  /\ permit[r] # None
  /\ inner' = finish_permit(inner, permit[r], outcome, lag)
  /\ permit' = Aged([permit EXCEPT ![r] = None])
  /\ fresh' = IF inner'.state # inner.state THEN {} ELSE fresh \ {r}
  /\ outcomes' = IF inner'.state # inner.state THEN 0
                 ELSE IF r \in fresh /\ outcome # "none" THEN Least(outcomes + 1, min_samples)
                 ELSE outcomes

\* A permit dropped by an unwinding thread is released at time zero.
Drop(r) ==
  /\ permit[r] # None
  /\ inner' = IF Counts(inner, permit[r]) /\ permit[r].probe
              THEN [inner EXCEPT !.probes_in_flight = Monus(@, 1)] ELSE inner
  /\ permit' = [permit EXCEPT ![r] = None]
  /\ fresh' = fresh \ {r}
  /\ UNCHANGED outcomes

\* Routing and the metrics read the state and the failure percentage.
Glance(lag) ==
  /\ \/ inner' = transition_if_cooled(inner, lag)
     \/ inner' = [inner EXCEPT !.counts = rotate_if_needed(@, lag)]
  /\ permit' = Aged(permit)
  /\ fresh' = IF inner'.state # inner.state THEN {} ELSE fresh
  /\ outcomes' = IF inner'.state # inner.state THEN 0 ELSE outcomes

Tick ==
  /\ inner' = [inner EXCEPT
       !.cool_in = IF @ > 0 - MaxLag THEN @ - 1 ELSE @,
       !.probe_age = Least(@ + 1, PROBE_LEASE + MaxLag),
       !.counts.age = Least(@ + 1, 2 * window_millis + MaxLag)]
  /\ UNCHANGED <<permit, fresh, outcomes>>

Outcomes == {"ok", "fail", "none"}

BreakerNext ==
  \/ \E r \in Threads :
       \/ \E lag \in Lags : admit(r, lag)
       \/ \E lag \in Lags, outcome \in Outcomes : Conclude(r, outcome, lag)
       \/ Drop(r)
  \/ \E lag \in Lags : Glance(lag)
  \/ Tick

BreakerSpec == BreakerInit /\ [][BreakerNext]_breakerVars

\* Time goes on.  Nothing is asked of the threads: a probe may never end.
BreakerFairSpec == BreakerSpec /\ WF_breakerVars(Tick)

-----------------------------------------------------------------------------
(* Properties *)

CountsType == [age : Nat, ok : 0 .. U32_MAX, fail : 0 .. U32_MAX,
               prev_ok : 0 .. U32_MAX, prev_fail : 0 .. U32_MAX]

BreakerInner ==
  [state : {"closed", "open", "half_open"}, counts : CountsType, cool_in : Int,
   consecutive_opens : 0 .. MAX_SHIFT + 1, probes_in_flight : 0 .. half_open_probes,
   probe_age : Nat, epoch : 0 .. 2, probe_successes : Nat]

BreakerPermit == [probe : BOOLEAN, epoch : 0 .. 2 \cup {Past}]

\* The fields have their types, and no more probes are in flight than allowed.
TypeOK ==
  /\ inner \in BreakerInner
  /\ permit \in [Threads -> BreakerPermit \cup {None}]
  /\ fresh \subseteq {r \in Threads : permit[r] # None}
  /\ outcomes \in Nat

\* A half-open breaker counts exactly the probes it admitted since it cooled or
\* took back its slots: late results, drops and releases neither leak a slot
\* nor return one twice.
ProbeSlotsExact ==
  inner.state = "half_open" =>
    inner.probes_in_flight = Cardinality({r \in fresh : permit[r].probe})

\* The end of a request admitted before the last transition or reclaim, its
\* result included, changes nothing that admits, counts, opens or closes; at
\* most the breaker is noticed to have cooled.
StaleResult ==
  \A r \in Threads :
    permit[r] # None /\ permit'[r] = None /\ r \notin fresh =>
      \/ inner' = inner
      \/ inner.state = "open" /\ inner'.state = "half_open" /\ inner'.counts = inner.counts

StaleResultsIgnored == [][StaleResult]_breakerVars

\* Would a request that came now, and read the clock now, be let through?
Admitting == Granted(Ready(inner, 0))

\* The target is never refused for good: cooldowns end, and the slots of probes
\* that never do are reclaimed.
NeverRefusedForGood == []<>Admitting
=============================================================================
