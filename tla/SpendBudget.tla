----------------------------- MODULE SpendBudget ----------------------------
(***************************************************************************)
(* The spend budget of one scope: two atomics, spent and period_start,     *)
(* that request threads check on admission and add to after the response,  *)
(* one atomic access at a step (crates/hypellm-core/src/admission.rs,      *)
(* spend_in_period and its callers; the order of a request's steps is      *)
(* crates/hypellm-router/src/pipeline.rs).                                 *)
(***************************************************************************)
EXTENDS Integers, FiniteSets

CONSTANTS
  Payers,          \* the requests of the run
  Cost,            \* what each costs: [Payers -> Nat]
  budget,          \* budget_minor_units
  period,          \* budget_period.millis()
  max_concurrency, \* of the scope
  SPEND_MAX,       \* where spent saturates
  MaxTicks         \* bound: the time

ASSUME SpendAssumption ==
  /\ Cost \in [Payers -> Nat]
  /\ budget \in Nat \ {0} /\ period \in Nat \ {0} /\ max_concurrency \in Nat \ {0}
  /\ SPEND_MAX \in Nat /\ MaxTicks \in Nat

VARIABLES
  time,         \* the monotonic time; period counts its ticks
  spent,        \* AtomicU64
  period_start, \* AtomicU64
  running,      \* AtomicU32
  stage,        \* what each request's thread does next
  now,          \* the time its present call was given
  loaded,       \* what it last loaded from an atomic
  recording,    \* is the call record_spend's?
  due           \* ghost: all that was added since the period was last rolled

spendVars == <<time, spent, period_start, running, stage, now, loaded, recording, due>>

SpendInit ==
  /\ time = 0 /\ spent = 0 /\ period_start = 0 /\ running = 0 /\ due = 0
  /\ stage = [r \in Payers |-> "new"]
  /\ now = [r \in Payers |-> 0]
  /\ loaded = [r \in Payers |-> 0]
  /\ recording = [r \in Payers |-> FALSE]

Stage(r, step) == stage' = [stage EXCEPT ![r] = step]

Ticks ==
  /\ time < MaxTicks
  /\ time' = time + 1
  /\ UNCHANGED <<spent, period_start, running, stage, now, loaded, recording, due>>

\* try_acquire_as, with the time its caller read.
Arrive(r) ==
  /\ stage[r] = "new"
  /\ now' = [now EXCEPT ![r] = time]
  /\ Stage(r, "load")
  /\ UNCHANGED <<time, spent, period_start, running, loaded, recording, due>>

\* spend_in_period: period_start is loaded, and a time before it has not elapsed.
LoadStart(r) ==
  /\ stage[r] = "load"
  /\ loaded' = [loaded EXCEPT ![r] = period_start]
  /\ Stage(r, IF now[r] - period_start >= period THEN "roll" ELSE "read")
  /\ UNCHANGED <<time, spent, period_start, running, now, recording, due>>

\* Its compare_exchange: one of the threads that saw the same start rolls it.
Roll(r) ==
  /\ stage[r] = "roll"
  /\ IF period_start = loaded[r]
     THEN period_start' = now[r] /\ due' = 0 /\ Stage(r, "reset")
     ELSE UNCHANGED <<period_start, due>> /\ Stage(r, "read")
  /\ UNCHANGED <<time, spent, running, now, loaded, recording>>

\* A mutant: the period is rolled and its spend is kept.
Reset_Kept(r) ==
  /\ stage[r] = "reset"
  /\ loaded' = [loaded EXCEPT ![r] = 0]
  /\ Stage(r, IF recording[r] THEN "add" ELSE "judge")
  /\ UNCHANGED <<time, spent, period_start, running, now, recording, due>>

\* The roller's store of zero, and its answer.
Reset(r) ==
  /\ stage[r] = "reset"
  /\ spent' = 0
  /\ loaded' = [loaded EXCEPT ![r] = 0]
  /\ Stage(r, IF recording[r] THEN "add" ELSE "judge")
  /\ UNCHANGED <<time, period_start, running, now, recording, due>>

\* The answer of everyone else.
ReadSpent(r) ==
  /\ stage[r] = "read"
  /\ loaded' = [loaded EXCEPT ![r] = spent]
  /\ Stage(r, IF recording[r] THEN "add" ELSE "judge")
  /\ UNCHANGED <<time, spent, period_start, running, now, recording, due>>

\* Past the budget: BudgetExhausted.
Judge(r) ==
  /\ stage[r] = "judge"
  /\ Stage(r, IF loaded[r] >= budget THEN "refused" ELSE "admit")
  /\ UNCHANGED <<time, spent, period_start, running, now, loaded, recording, due>>

\* The slot, taken or not.
Admit(r) ==
  /\ stage[r] = "admit"
  /\ IF running < max_concurrency
     THEN running' = running + 1 /\ Stage(r, "run")
     ELSE UNCHANGED running /\ Stage(r, "refused")
  /\ UNCHANGED <<time, spent, period_start, now, loaded, recording, due>>

\* The response is complete: Reservation::commit returns the slot.
Commit(r) ==
  /\ stage[r] = "run"
  /\ running' = running - 1
  /\ Stage(r, "record")
  /\ UNCHANGED <<time, spent, period_start, now, loaded, recording, due>>

\* record_usage, later: record_spend begins with spend_in_period.
RecordSpend(r) ==
  /\ stage[r] = "record"
  /\ recording' = [recording EXCEPT ![r] = TRUE]
  /\ now' = [now EXCEPT ![r] = time]
  /\ Stage(r, IF Cost[r] = 0 THEN "done" ELSE "load")
  /\ UNCHANGED <<time, spent, period_start, running, loaded, due>>

\* Its try_update, saturating.
Add(r) ==
  /\ stage[r] = "add"
  /\ spent' = IF spent + Cost[r] > SPEND_MAX THEN SPEND_MAX ELSE spent + Cost[r]
  /\ due' = due + Cost[r]
  /\ Stage(r, "done")
  /\ UNCHANGED <<time, period_start, running, now, loaded, recording>>

Thread(r) ==
  \/ Arrive(r) \/ LoadStart(r) \/ Roll(r) \/ Reset(r) \/ ReadSpent(r) \/ Judge(r)
  \/ Admit(r) \/ Commit(r) \/ RecordSpend(r) \/ Add(r)

SpendNext == Ticks \/ \E r \in Payers : Thread(r)

SpendSpec == SpendInit /\ [][SpendNext]_spendVars

-----------------------------------------------------------------------------
(* Properties *)

\* Some thread has rolled the period and not yet stored the zero.
Resetting == \E r \in Payers : stage[r] = "reset"

(***************************************************************************)
(* Once the rollers are through, a period is never charged with the spend  *)
(* of the one before it.                                                   *)
(***************************************************************************)
NoPhantomSpend == Resetting \/ spent <= due
=============================================================================
