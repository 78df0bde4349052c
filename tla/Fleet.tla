------------------------------- MODULE Fleet -------------------------------
(***************************************************************************)
(* Starting and stopping models on one host: the activation ledger         *)
(* (crates/hypellm-fleet/src/activation.rs), the batching queue            *)
(* (governance.rs), the commit check of the planner (plan.rs) and the      *)
(* runtime (crates/hypellm-router/src/fleet.rs) that drives them for       *)
(* requests, operators and the housekeeping thread, against an agent that  *)
(* carries out what it is told, or fails.                                  *)
(*                                                                         *)
(* Kept: every lock's critical section is one step, in the code's order,   *)
(* and what was read before a lock is carried as it was read.  Abstracted: *)
(* which feasible plan the planner picks and how the scheduler ranks (any  *)
(* choice they may make), time (an age, a deadline or an expiry may have   *)
(* come), and copies and fetches, which are steps of a plan like a start.  *)
(***************************************************************************)
EXTENDS Naturals, FiniteSets, Functions

CONSTANTS
  Deployments,        \* of one host, each serving a capability of its own
  Memory, Pool,       \* [Deployments -> Nat], and what the host's pool holds
  Requests,           \* callers: requests, or an operator's activation
  house,              \* the housekeeping thread
  max_activations_per_hour,
  activation_min_demand,
  MAX_QUEUED_PER_CAPABILITY,
  MaxRounds,          \* bound: rounds of a parked request before its deadline
  Scenes              \* who asks for what, and what may happen: see SceneType

Actors == Requests \union {house}

SceneType ==
  [wants : [Requests -> Deployments], who : SUBSET Requests,
   starts : SUBSET Requests, stops : SUBSET Requests,   \* these are an operator's, through the admin API
   max_concurrent_activations : Nat \ {0},
   passes : Nat,                     \* bound: passes of the housekeeping thread
   running : SUBSET Deployments,     \* at the start
   may : SUBSET {"agent_down", "append_fails", "start_fails", "deadline", "age",
                 "infeasible", "outranked", "starving", "expire", "idle", "prewarm"}]

ASSUME SceneAssumption == Scenes \subseteq SceneType
ASSUME ActorAssumption == IsFiniteSet(Requests) /\ house \notin Requests
ASSUME BoundAssumption == MAX_QUEUED_PER_CAPABILITY \in Nat

VARIABLES
  scene,
  thread,     \* what each actor is doing: see Fresh
  active,     \* ActivationLedger.active, by the actor whose plan it is
  slots,      \* ActivationLedger.slots of the host
  window,     \* Budgets: activations paid for this hour
  waiting, triggered,      \* ActivationQueue, per capability
  in_flight, stopping,     \* DispatchBook
  snap,       \* the published snapshot: observed states, leases, evictions
  run,        \* external: what the deployments really do
  journal     \* FleetLease records that no FleetActivation record closed

ledger == <<active, slots, window, journal>>
queue == <<waiting, triggered>>
book == <<in_flight, stopping>>
vars == <<scene, thread, ledger, queue, book, snap, run>>

Fresh ==
  [pc |-> "new", d |-> "none", it |-> "none", victims |-> {}, claimed |-> {}, todo |-> {},
   counted |-> FALSE, parked |-> FALSE, rounds |-> 0, ok |-> FALSE, queued |-> FALSE,
   inventory |-> <<>>, leases |-> {}, evicting |-> {}, then |-> "none"]

Init ==
  /\ scene \in Scenes
  /\ run = [d \in Deployments |-> IF d \in scene.running THEN "ready" ELSE "stopped"]
  /\ thread = [a \in Actors |->
       IF a = house THEN [Fresh EXCEPT !.pc = "tick"]
       ELSE [Fresh EXCEPT !.d = scene.wants[a],
                          !.pc = IF a \notin scene.who THEN "done"
                                 ELSE IF a \in scene.stops THEN "lease" ELSE "new"]]
  /\ active = {} /\ slots = 0 /\ window = 0 /\ journal = {}
  /\ waiting = [d \in Deployments |-> 0] /\ triggered = [d \in Deployments |-> FALSE]
  /\ in_flight = [d \in Deployments |-> 0] /\ stopping = {}
  /\ snap = [state |-> run, leases |-> {}, evicting |-> {}]

At(a, pc) == thread[a].pc = pc
Of(a) == thread[a].d
May(what) == what \in scene.may
Set(a, t) == thread' = [thread EXCEPT ![a] = t]
Goto(a, pc) == Set(a, [thread[a] EXCEPT !.pc = pc])
Operators == scene.starts \union scene.stops
Asks(a) == a \in Requests \ Operators     \* a request of the data plane

--------------------------------------------------------------------------
(* The ledger.                                                             *)

leases_by_deployment == {r.d : r \in active}
evicting == UNION {r.evicted : r \in active}

\* A snapshot's view of a deployment: the observed state, and the leases it carries.
holds_memory(state) == state \in {"starting", "ready", "stopping"}
is_coming_up(s, d) == s.state[d] = "starting" \/ d \in s.leases
commits_memory(s, d) == holds_memory(s.state[d]) \/ is_coming_up(s, d)
pool_free_bytes(s) ==
  LET used == SumFunctionOnSet(Memory, {d \in Deployments : commits_memory(s, d)})
  IN  IF used > Pool THEN 0 ELSE Pool - used
Freed(s, V) == SumFunctionOnSet(Memory, {v \in V : holds_memory(s.state[v])})

with_commitments == [snap EXCEPT !.leases = leases_by_deployment, !.evicting = evicting]

\* publish_commitments, after the ledger became A.
publish_commitments(A) ==
  snap' = [snap EXCEPT !.leases = {r.d : r \in A}, !.evicting = UNION {r.evicted : r \in A}]

may_transition_to ==
  {<<"planned", "lease_held">>, <<"lease_held", "draining">>, <<"lease_held", "starting">>,
   <<"draining", "stopping">>, <<"stopping", "starting">>, <<"starting", "probing">>,
   <<"probing", "ready">>}

\* A transition the table does not permit, or of a lease not held, changes nothing.
transition(A, a, next) ==
  {IF r.by = a /\ <<r.state, next>> \in may_transition_to THEN [r EXCEPT !.state = next] ELSE r : r \in A}

revalidate(s, d, V) ==
  /\ ~is_coming_up(s, d) /\ d \notin s.evicting
  /\ \A v \in V : v \notin s.evicting /\ ~is_coming_up(s, v)
  /\ pool_free_bytes(s) + Freed(s, V) >= Memory[d]

Conflicts(d, V, r) == r.d = d \/ d \in r.evicted \/ r.d \in V \/ V \intersect r.evicted /= {}

may_acquire(d, V) ==
  (\A r \in active : ~Conflicts(d, V, r)) /\ slots < scene.max_concurrent_activations

acquire_exclusive(a, d, V) ==
  /\ slots' = slots + 1
  /\ active' = active \union {[by |-> a, d |-> d, evicted |-> V, state |-> "planned"]}

Held(a) == {r \in active : r.by = a}

release_SlotTwice(a) ==
  /\ active' = active \ Held(a)
  /\ slots' = IF slots = 0 THEN slots ELSE slots - 1

\* release: the slot comes back with the record, or not at all.
release(a) ==
  /\ active' = active \ Held(a)
  /\ slots' = IF Held(a) = {} \/ slots = 0 THEN slots ELSE slots - 1

--------------------------------------------------------------------------
(* The batching queue, per capability (here: per deployment).              *)

leave(d) ==
  /\ waiting' = [waiting EXCEPT ![d] = IF @ = 0 THEN 0 ELSE @ - 1]
  /\ triggered' = [triggered EXCEPT ![d] = @ /\ waiting'[d] /= 0]

Due(d, n) == n >= activation_min_demand \/ May("age")

--------------------------------------------------------------------------
(* A request's way to a deployment: plan, ask, gate.                       *)

\* What an excluded target means for the caller: `queued` is ActivationQueued.
Exclude(a, queued) == Set(a, [thread[a] EXCEPT !.pc = "excluded", !.queued = queued])

\* plan: the sets of victims a plan may name, none of them needless.
EvictionSets(s, d) ==
  LET Enough(V) == pool_free_bytes(s) + Freed(s, V) >= Memory[d]
      Evictable == {v \in Deployments \ {d} : s.state[v] = "ready" /\ ~is_coming_up(s, v)
                                              /\ v \notin s.evicting}
  IN  {V \in SUBSET Evictable : Enough(V) /\ \A v \in V : ~Enough(V \ {v})}

Plannable(s, d) ==
  /\ d \notin s.evicting
  /\ Cardinality({e \in Deployments : is_coming_up(s, e)}) < scene.max_concurrent_activations

\* view_for and the candidate's class; an operator's activation starts at plan_for.
Route(a) ==
  LET d == Of(a) IN
  /\ At(a, "new")
  /\ \/ snap.state[d] = "ready" /\ Goto(a, IF Asks(a) THEN "enter" ELSE "done")
     \/ snap.state[d] /= "ready" /\ is_coming_up(snap, d) /\ Goto(a, IF Asks(a) THEN "ride" ELSE "done")
     \/ /\ snap.state[d] /= "ready" /\ ~is_coming_up(snap, d)
        /\ \/ /\ ~Plannable(snap, d) \/ EvictionSets(snap, d) = {} \/ May("infeasible")
                 \/ window >= max_activations_per_hour
              /\ Exclude(a, FALSE)
           \/ /\ Plannable(snap, d)
              /\ \E V \in EvictionSets(snap, d) :
                   Set(a, [thread[a] EXCEPT !.victims = V,
                     !.pc = IF Asks(a) THEN "ask" ELSE "spend"])
  /\ UNCHANGED <<scene, ledger, queue, book, snap, run>>

\* ActivationQueue::admit, for a request that is not parked.
admit(a) ==
  LET d == Of(a) IN
  /\ At(a, "ask") /\ ~thread[a].parked
  /\ \/ /\ waiting[d] >= MAX_QUEUED_PER_CAPABILITY
        /\ Set(a, [thread[a] EXCEPT !.pc = "unqueue", !.queued = FALSE])
        /\ UNCHANGED queue
     \/ /\ waiting[d] < MAX_QUEUED_PER_CAPABILITY
        /\ waiting' = [waiting EXCEPT ![d] = @ + 1]
        /\ \/ /\ ~triggered[d] /\ Due(d, waiting[d] + 1)
              /\ triggered' = [triggered EXCEPT ![d] = TRUE]
              /\ Set(a, [thread[a] EXCEPT !.pc = "gate", !.counted = TRUE])
           \/ /\ triggered[d] \/ waiting[d] + 1 < activation_min_demand
              /\ Set(a, [thread[a] EXCEPT !.pc = "unqueue", !.queued = TRUE, !.counted = TRUE])
              /\ UNCHANGED triggered
  /\ UNCHANGED <<scene, ledger, book, snap, run>>

\* ActivationQueue::poll, for one that is.
poll(a) ==
  LET d == Of(a) IN
  /\ At(a, "ask") /\ thread[a].parked
  /\ \/ /\ ~triggered[d] /\ Due(d, waiting[d])
        /\ triggered' = [triggered EXCEPT ![d] = TRUE]
        /\ Goto(a, "gate")
     \/ /\ triggered[d] \/ waiting[d] < activation_min_demand
        /\ Exclude(a, TRUE)
        /\ UNCHANGED triggered
  /\ UNCHANGED <<scene, ledger, waiting, book, snap, run>>

\* gated: a swap is put off while a victim works or another deployment ranks first.
gated(a) ==
  LET d == Of(a)
      victims_busy == \E v \in thread[a].victims : in_flight[v] > 0
      Wait == /\ triggered' = [triggered EXCEPT ![d] = FALSE]
              /\ Set(a, [thread[a] EXCEPT !.pc = IF thread[a].parked THEN "excluded" ELSE "unqueue",
                                          !.queued = TRUE])
  IN
  /\ At(a, "gate")
  /\ \/ victims_busy /\ ~May("starving") /\ Wait
     \/ May("outranked") /\ (\E e \in Deployments \ {d} : waiting[e] > 0) /\ Wait
     \/ /\ ~victims_busy \/ May("starving")
        /\ Goto(a, "spend")
        /\ UNCHANGED triggered
  /\ UNCHANGED <<scene, ledger, waiting, book, snap, run>>

\* activate_for's leave_queue, whatever the queue had answered.
Unqueue(a) ==
  /\ At(a, "unqueue")
  /\ leave(Of(a))
  /\ Set(a, [thread[a] EXCEPT !.pc = "excluded", !.counted = FALSE])
  /\ UNCHANGED <<scene, ledger, book, snap, run>>

--------------------------------------------------------------------------
(* ensure_ready.                                                           *)

\* Where an ensure_ready that never ran its plan returns to: queued on fleet_busy.
Refused(a, queued) ==
  Set(a, [thread[a] EXCEPT !.pc = "returned", !.ok = FALSE, !.queued = queued,
                           !.claimed = {}])

try_spend(a) ==
  /\ At(a, "spend")
  /\ \/ /\ window < max_activations_per_hour
        /\ window' = window + 1
        /\ Goto(a, "commit")
     \/ /\ window >= max_activations_per_hour
        /\ Refused(a, FALSE)
        /\ UNCHANGED window
  /\ UNCHANGED <<scene, active, slots, journal, queue, book, snap, run>>

\* The admission lock: re-check the plan against every lease held now, take the slot.
Commit(a) ==
  LET d == Of(a)  V == thread[a].victims IN
  /\ At(a, "commit")
  /\ \/ /\ revalidate(with_commitments, d, V) /\ may_acquire(d, V)
        /\ acquire_exclusive(a, d, V)
        /\ publish_commitments(active')
        /\ Set(a, [thread[a] EXCEPT !.pc = "claim", !.todo = V])
        /\ UNCHANGED window
     \/ /\ ~(revalidate(with_commitments, d, V) /\ may_acquire(d, V))
        /\ window' = window - 1
        /\ Refused(a, TRUE)
        /\ UNCHANGED <<active, slots, snap>>
  /\ UNCHANGED <<scene, journal, queue, book, run>>

\* claim_for_stop of one victim; one that carries work is not claimed, it is drained.
Claim(a) ==
  /\ At(a, "claim") /\ thread[a].todo /= {}
  /\ \E v \in thread[a].todo :
       LET free == in_flight[v] = 0 /\ v \notin stopping IN
       /\ stopping' = IF free THEN stopping \union {v} ELSE stopping
       /\ Set(a, [thread[a] EXCEPT !.todo = @ \ {v},
                                   !.claimed = IF free THEN @ \union {v} ELSE @])
  /\ UNCHANGED <<scene, ledger, queue, in_flight, snap, run>>

AppendLease_KeepsClaims(a) ==
  /\ At(a, "claim") /\ thread[a].todo = {}
  /\ \/ /\ journal' = journal \union {[by |-> a, d |-> Of(a), stop |-> FALSE]}
        /\ active' = transition(active, a, "lease_held")
        /\ Set(a, [thread[a] EXCEPT !.pc = "plan", !.todo = thread[a].victims])
        /\ UNCHANGED <<slots, window, snap>>
     \/ /\ May("append_fails")
        /\ release(a)
        /\ publish_commitments(active')
        /\ window' = window - 1
        /\ Refused(a, FALSE)
        /\ UNCHANGED journal
  /\ UNCHANGED <<scene, queue, book, run>>

\* The lease is durable before any verb; when it cannot be, all is undone.
AppendLease(a) ==
  /\ At(a, "claim") /\ thread[a].todo = {}
  /\ \/ /\ journal' = journal \union {[by |-> a, d |-> Of(a), stop |-> FALSE]}
        /\ active' = transition(active, a, "lease_held")
        /\ Set(a, [thread[a] EXCEPT !.pc = "plan", !.todo = thread[a].victims])
        /\ UNCHANGED <<slots, window, stopping, snap>>
     \/ /\ May("append_fails")
        /\ release(a)
        /\ publish_commitments(active')
        /\ window' = window - 1
        /\ stopping' = stopping \ thread[a].claimed
        /\ Refused(a, FALSE)
        /\ UNCHANGED journal
  /\ UNCHANGED <<scene, queue, in_flight, run>>

\* What the agent does with a verb it accepts: idempotent, and it may already be so.
Told(d, verb) ==
  run' = [run EXCEPT ![d] =
            CASE verb = "activate" /\ @ \in {"stopped", "failed"} -> "starting"
              [] verb = "deactivate" /\ @ \in {"ready", "starting", "failed"} -> "stopping"
              [] OTHER -> @]

PlanFails(a) ==
  Set(a, [thread[a] EXCEPT !.pc = IF thread[a].victims = {} THEN "finish" ELSE "undo",
                           !.ok = FALSE, !.it = "none", !.todo = thread[a].victims])

\* PlanStep::Evict: the verb for the next victim.
Evict(a) ==
  /\ At(a, "plan") /\ thread[a].todo /= {}
  /\ \E v \in thread[a].todo :
       \/ /\ Told(v, "deactivate")
          /\ active' = transition(transition(active, a, "draining"), a, "stopping")
          /\ Set(a, [thread[a] EXCEPT !.pc = "stopping", !.it = v, !.todo = @ \ {v}])
       \/ /\ May("agent_down")
          /\ active' = transition(active, a, "draining")
          /\ PlanFails(a)
          /\ UNCHANGED run
  /\ UNCHANGED <<scene, slots, window, journal, queue, book, snap>>

\* await_terminal of a stop, then after_eviction.
AwaitStop(a) ==
  /\ At(a, "stopping")
  /\ \/ /\ run[thread[a].it] \in {"ready", "stopped"}
        /\ Set(a, [thread[a] EXCEPT !.pc = "plan", !.it = "none"])
     \/ /\ May("agent_down") \/ May("deadline") \/ run[thread[a].it] = "failed"
        /\ PlanFails(a)
  /\ UNCHANGED <<scene, ledger, queue, book, snap, run>>

\* PlanStep::Activate: the verb.
Start(a) ==
  /\ At(a, "plan") /\ thread[a].todo = {}
  /\ \/ /\ Told(Of(a), "activate")
        /\ active' = transition(transition(active, a, "starting"), a, "probing")
        /\ Goto(a, "starting")
     \/ /\ May("agent_down") \/ May("deadline")
        /\ active' = transition(active, a, "starting")
        /\ PlanFails(a)
        /\ UNCHANGED run
  /\ UNCHANGED <<scene, slots, window, journal, queue, book, snap>>

AwaitStart(a) ==
  /\ At(a, "starting")
  /\ \/ /\ run[Of(a)] \in {"ready", "stopped"}
        /\ Set(a, [thread[a] EXCEPT !.pc = "look", !.then = "confirm"])
     \/ /\ May("agent_down") \/ May("deadline") \/ run[Of(a)] = "failed"
        /\ PlanFails(a)
  /\ UNCHANGED <<scene, ledger, queue, book, snap, run>>

\* Readiness is what was observed, not what the verb answered.
Confirm(a) ==
  /\ At(a, "confirm")
  /\ \/ /\ snap.state[Of(a)] = "ready"
        /\ active' = transition(active, a, "ready")
        /\ Set(a, [thread[a] EXCEPT !.pc = "finish", !.ok = TRUE])
     \/ snap.state[Of(a)] /= "ready" /\ PlanFails(a) /\ UNCHANGED active
  /\ UNCHANGED <<scene, slots, window, journal, queue, book, snap, run>>

\* rollback: each victim is paid for and told to start, and not waited for.
Rollback(a) ==
  /\ At(a, "undo")
  /\ \E v \in thread[a].todo :
       /\ Set(a, [thread[a] EXCEPT !.todo = @ \ {v},
                                   !.pc = IF thread[a].todo = {v} THEN "finish" ELSE @])
       /\ \/ window >= max_activations_per_hour /\ UNCHANGED <<window, run>>
          \/ /\ window < max_activations_per_hour /\ window' = window + 1
             /\ Told(v, "activate") \/ (May("agent_down") /\ UNCHANGED run)
  /\ UNCHANGED <<scene, active, slots, journal, queue, book, snap>>

\* A FleetActivation record closes every lease of its deployment when it is replayed.
Closed(d) == {l \in journal : l.d /= d}

\* finish: an expired lease was released already, and then nothing is written.
Finish(a) ==
  /\ At(a, "finish")
  /\ release(a)
  /\ publish_commitments(active')
  /\ \/ Held(a) = {} /\ UNCHANGED journal
     \/ Held(a) /= {} /\ journal' = Closed(Of(a))
     \/ Held(a) /= {} /\ May("append_fails") /\ UNCHANGED journal
  /\ Goto(a, "unclaim")
  /\ UNCHANGED <<scene, window, queue, book, run>>

Unclaim(a) ==
  /\ At(a, "unclaim")
  /\ stopping' = stopping \ thread[a].claimed
  /\ Set(a, [thread[a] EXCEPT !.claimed = {}, !.pc = "settle"])
  /\ UNCHANGED <<scene, ledger, queue, in_flight, snap, run>>

settle(a) ==
  /\ At(a, "settle")
  /\ triggered' = [triggered EXCEPT ![Of(a)] = FALSE]
  /\ Set(a, [thread[a] EXCEPT !.pc = "returned", !.queued = FALSE])
  /\ UNCHANGED <<scene, ledger, waiting, book, snap, run>>

Returned_ParkedLeaves(a) ==
  /\ At(a, "returned")
  /\ IF Asks(a) THEN leave(Of(a)) ELSE UNCHANGED queue
  /\ Set(a, [thread[a] EXCEPT !.counted = FALSE, !.victims = {},
       !.d = IF a = house THEN "none" ELSE @,
       !.pc = CASE a = house -> "tick" [] a \in Operators -> "done"
                   [] OTHER -> IF thread[a].ok THEN "enter" ELSE "excluded"])
  /\ UNCHANGED <<scene, ledger, book, snap, run>>

\* activate_for, once ensure_ready has returned: a request not parked leaves the queue.
Returned(a) ==
  /\ At(a, "returned")
  /\ IF Asks(a) /\ thread[a].counted THEN leave(Of(a)) ELSE UNCHANGED queue
  /\ Set(a, [thread[a] EXCEPT !.counted = FALSE, !.victims = {},
       !.d = IF a = house THEN "none" ELSE @,
       !.pc = CASE a = house -> "tick" [] a \in Operators -> "done"
                   [] OTHER -> IF thread[a].ok THEN "enter" ELSE "excluded"])
  /\ UNCHANGED <<scene, ledger, book, snap, run>>

--------------------------------------------------------------------------
(* Riding, dispatching, parking.                                           *)

\* await_ready: ends when it serves, when nothing is coming up any more, or at its expiry.
await_ready(a) ==
  /\ At(a, "ride")
  /\ \/ snap.state[Of(a)] = "ready" /\ Goto(a, "enter")
     \/ /\ snap.state[Of(a)] /= "ready"
        /\ Exclude(a, FALSE)
  /\ UNCHANGED <<scene, ledger, queue, book, snap, run>>

enter_dispatch(a) ==
  /\ At(a, "enter")
  /\ \/ Of(a) \in stopping /\ Exclude(a, TRUE) /\ UNCHANGED in_flight
     \/ /\ Of(a) \notin stopping
        /\ in_flight' = [in_flight EXCEPT ![Of(a)] = @ + 1]
        /\ Goto(a, "serve")
  /\ UNCHANGED <<scene, ledger, queue, stopping, snap, run>>

leave_dispatch(a) ==
  /\ At(a, "serve")
  /\ in_flight' = [in_flight EXCEPT ![Of(a)] = IF @ = 0 THEN 0 ELSE @ - 1]
  /\ Goto(a, "unpark")
  /\ UNCHANGED <<scene, ledger, queue, stopping, snap, run>>

\* await_activation: only a request told to wait is parked, and a full queue refuses it.
park(a) ==
  /\ At(a, "excluded") /\ Asks(a) /\ ~thread[a].parked /\ thread[a].queued
  /\ \/ /\ waiting[Of(a)] < MAX_QUEUED_PER_CAPABILITY
        /\ waiting' = [waiting EXCEPT ![Of(a)] = @ + 1]
        /\ Set(a, [thread[a] EXCEPT !.pc = "new", !.parked = TRUE])
     \/ /\ waiting[Of(a)] >= MAX_QUEUED_PER_CAPABILITY
        /\ Goto(a, "done")
        /\ UNCHANGED waiting
  /\ UNCHANGED <<scene, ledger, triggered, book, snap, run>>

\* A parked request told to wait asks again each round, until its deadline.
Again(a) == At(a, "excluded") /\ thread[a].parked /\ thread[a].queued

Round(a) ==
  /\ Again(a) /\ thread[a].rounds < MaxRounds
  /\ Set(a, [thread[a] EXCEPT !.pc = "new", !.rounds = @ + 1])
  /\ UNCHANGED <<scene, ledger, queue, book, snap, run>>

\* A request whose outcome is final, or whose deadline has come, is done.
unpark(a) ==
  /\ \/ At(a, "unpark")
     \/ At(a, "excluded") /\ (~thread[a].queued \/ ~Asks(a))
     \/ Again(a) /\ thread[a].rounds = MaxRounds
  /\ IF thread[a].parked THEN leave(Of(a)) ELSE UNCHANGED queue
  /\ Set(a, [thread[a] EXCEPT !.pc = "done", !.parked = FALSE])
  /\ UNCHANGED <<scene, ledger, book, snap, run>>

--------------------------------------------------------------------------
(* observe, in three steps: the agent is asked, the ledger is read, the    *)
(* snapshot is replaced.  Anyone else may publish in between.              *)

Look(a) ==
  /\ At(a, "look")
  /\ Set(a, [thread[a] EXCEPT !.pc = "read", !.inventory = run])
  /\ UNCHANGED <<scene, ledger, queue, book, snap, run>>

adopt_inventory(a) ==
  /\ At(a, "read")
  /\ Set(a, [thread[a] EXCEPT !.pc = "write", !.leases = leases_by_deployment,
                              !.evicting = evicting])
  /\ UNCHANGED <<scene, ledger, queue, book, snap, run>>

Publish(a) ==
  /\ At(a, "write")
  /\ snap' = [state |-> thread[a].inventory, leases |-> thread[a].leases,
              evicting |-> thread[a].evicting]
  /\ Set(a, [thread[a] EXCEPT !.inventory = <<>>, !.leases = {}, !.evicting = {},
                              !.pc = thread[a].then, !.then = "none"])
  /\ UNCHANGED <<scene, ledger, queue, book, run>>

--------------------------------------------------------------------------
(* deactivate_because: an operator's stop, or the housekeeping's of what   *)
(* it claimed.                                                             *)

AppendStop(a) ==
  /\ At(a, "lease")
  /\ \/ /\ journal' = journal \union {[by |-> a, d |-> Of(a), stop |-> TRUE]}
        /\ Goto(a, "stop")
     \/ May("append_fails") /\ Goto(a, "stopped") /\ UNCHANGED journal
  /\ UNCHANGED <<scene, active, slots, window, queue, book, snap, run>>

CallStop(a) ==
  /\ At(a, "stop")
  /\ \/ Told(Of(a), "deactivate") /\ Set(a, [thread[a] EXCEPT !.pc = "down", !.ok = TRUE])
     \/ May("agent_down") /\ Set(a, [thread[a] EXCEPT !.pc = "close", !.ok = FALSE]) /\ UNCHANGED run
  /\ UNCHANGED <<scene, ledger, queue, book, snap>>

AwaitDown(a) ==
  /\ At(a, "down")
  /\ \/ run[Of(a)] \in {"ready", "stopped"} /\ Goto(a, "close")
     \/ /\ May("agent_down") \/ May("deadline") \/ run[Of(a)] = "failed"
        /\ Set(a, [thread[a] EXCEPT !.pc = "close", !.ok = FALSE])
  /\ UNCHANGED <<scene, ledger, queue, book, snap, run>>

\* Closed on every path; a stop that worked is observed before the claim is let go.
CloseStop(a) ==
  /\ At(a, "close")
  /\ journal' = Closed(Of(a)) \/ (May("append_fails") /\ UNCHANGED journal)
  /\ Set(a, [thread[a] EXCEPT !.pc = IF thread[a].ok THEN "look" ELSE "stopped",
                              !.then = IF thread[a].ok THEN "stopped" ELSE "none"])
  /\ UNCHANGED <<scene, active, slots, window, queue, book, snap, run>>

\* release_stop_claim; an operator's stop had claimed nothing.
Stopped(a) ==
  /\ At(a, "stopped")
  /\ stopping' = stopping \ thread[a].claimed
  /\ Set(a, [thread[a] EXCEPT !.claimed = {}, !.ok = FALSE,
                              !.d = IF a = house THEN "none" ELSE @,
                              !.pc = IF a = house THEN "prewarm" ELSE "done"])
  /\ UNCHANGED <<scene, ledger, queue, in_flight, snap, run>>

--------------------------------------------------------------------------
(* The housekeeping thread: observe, expire, stop what is idle, pre-warm.  *)

Tick ==
  /\ At(house, "tick") /\ thread[house].rounds < scene.passes
  /\ Set(house, [thread[house] EXCEPT !.pc = "look", !.then = "expire", !.rounds = @ + 1])
  /\ UNCHANGED <<scene, ledger, queue, book, snap, run>>

\* expire_leases: a lease past its expiry is released, whoever still runs its plan.
expire_leases ==
  /\ At(house, "expire")
  /\ Goto(house, "idle")
  /\ \/ \E r \in active : /\ May("expire")
                          /\ release(r.by)
                          /\ publish_commitments(active')
     \/ UNCHANGED <<active, slots, snap>>
  /\ UNCHANGED <<scene, window, journal, queue, book, run>>

\* idle_hold, over belief and the ledger's commitments.
Idle(d) ==
  /\ snap.state[d] = "ready"
  /\ d \notin leases_by_deployment /\ d \notin evicting
  /\ in_flight[d] = 0 /\ waiting[d] = 0

\* idle_stop: a candidate on a host that performs no activation, or none.
PickIdle ==
  /\ At(house, "idle")
  /\ \/ /\ May("idle") /\ slots = 0
        /\ \E d \in Deployments : /\ Idle(d)
                                 /\ Set(house, [thread[house] EXCEPT !.pc = "idle_claim", !.d = d])
     \/ Goto(house, "prewarm")
  /\ UNCHANGED <<scene, ledger, queue, book, snap, run>>

\* claim_for_stop, under the lock enter_dispatch takes.
ClaimIdle ==
  LET d == Of(house) IN
  /\ At(house, "idle_claim")
  /\ \/ /\ in_flight[d] = 0 /\ d \notin stopping
        /\ stopping' = stopping \union {d}
        /\ Set(house, [thread[house] EXCEPT !.claimed = {d}, !.pc = "idle_recheck"])
     \/ /\ in_flight[d] > 0 \/ d \in stopping
        /\ Set(house, [thread[house] EXCEPT !.d = "none", !.pc = "prewarm"])
        /\ UNCHANGED stopping
  /\ UNCHANGED <<scene, ledger, queue, in_flight, snap, run>>

\* Whoever parked since the predicate ran keeps the model up.
RecheckIdle ==
  /\ At(house, "idle_recheck")
  /\ Goto(house, IF waiting[Of(house)] > 0 THEN "stopped" ELSE "lease")
  /\ UNCHANGED <<scene, ledger, queue, book, snap, run>>

\* prewarm: a cold deployment that evicts nothing, by the same ensure_ready.
prewarm ==
  /\ At(house, "prewarm")
  /\ \/ /\ May("prewarm")
        /\ \E d \in Deployments :
             /\ snap.state[d] /= "ready" /\ ~is_coming_up(snap, d)
             /\ Plannable(snap, d) /\ {} \in EvictionSets(snap, d)
             /\ Set(house, [thread[house] EXCEPT !.pc = "spend", !.d = d])
     \/ Goto(house, "tick")
  /\ UNCHANGED <<scene, ledger, queue, book, snap, run>>

--------------------------------------------------------------------------
\* external: the agent finishes what it began.
Agent(d) ==
  /\ \/ run[d] = "starting" /\ run' = [run EXCEPT ![d] = "ready"]
     \/ run[d] = "starting" /\ May("start_fails") /\ run' = [run EXCEPT ![d] = "failed"]
     \/ run[d] = "stopping" /\ run' = [run EXCEPT ![d] = "stopped"]
  /\ UNCHANGED <<scene, thread, ledger, queue, book, snap>>

Observe(a) == Look(a) \/ adopt_inventory(a) \/ Publish(a)
Execute(a) ==
  \/ try_spend(a) \/ Commit(a) \/ Claim(a) \/ AppendLease(a) \/ Evict(a) \/ AwaitStop(a)
  \/ Start(a) \/ AwaitStart(a) \/ Confirm(a) \/ Rollback(a) \/ Finish(a)
  \/ Unclaim(a) \/ settle(a) \/ Returned(a)
Deactivate(a) == AppendStop(a) \/ CallStop(a) \/ AwaitDown(a) \/ CloseStop(a) \/ Stopped(a)
Serve(a) ==
  \/ Route(a) \/ admit(a) \/ poll(a) \/ gated(a) \/ Unqueue(a) \/ await_ready(a)
  \/ enter_dispatch(a) \/ leave_dispatch(a) \/ park(a) \/ Round(a) \/ unpark(a)
Housekeep == Tick \/ expire_leases \/ PickIdle \/ ClaimIdle \/ RecheckIdle \/ prewarm

StepOf(a) == Observe(a) \/ Execute(a) \/ Deactivate(a)
Next ==
  \/ \E a \in Actors : StepOf(a)
  \/ \E r \in Requests : Serve(r)
  \/ Housekeep
  \/ \E d \in Deployments : Agent(d)

Spec == Init /\ [][Next]_vars

FairSpec ==
  /\ Spec
  /\ \A r \in Requests : WF_vars(StepOf(r) \/ Serve(r))
  /\ WF_vars(StepOf(house) \/ Housekeep)
  /\ \A d \in Deployments : WF_vars(Agent(d))

--------------------------------------------------------------------------
(* Properties.                                                             *)

\* The host's slots are the leases held, never more than its limit, and no two
\* plans start, stop or count on the same deployment: through refusals, failed
\* appends, and a lease that expires under the thread that runs its plan.
LedgerExact ==
  /\ slots = Cardinality(active) /\ slots <= scene.max_concurrent_activations
  /\ \A r, o \in active : r /= o => ~Conflicts(r.d, r.evicted, o)

\* A claimed deployment carries no dispatch, and each claim is one claimant's own
\* until that claimant lets go: a plan's end never frees what an idle stop holds.
ClaimsHeld ==
  /\ \A d \in stopping : in_flight[d] = 0
  /\ \A a \in Actors : thread[a].claimed \subseteq stopping
  /\ \A a, b \in Actors : a /= b => thread[a].claimed \intersect thread[b].claimed = {}

Counted(d) == {r \in Requests : Of(r) = d /\ (thread[r].counted \/ thread[r].parked)}

\* The batching queue's demand is the requests that really wait; where its bound
\* refuses one, it is never more than those.
DemandExact ==
  \A d \in Deployments :
    /\ waiting[d] <= Cardinality(Counted(d))
    /\ Cardinality(scene.who) <= MAX_QUEUED_PER_CAPABILITY => waiting[d] = Cardinality(Counted(d))

\* Leases, slots, claims and demand agree, whoever plans, stops, fails or expires.
BooksAgree == LedgerExact /\ ClaimsHeld /\ DemandExact

\* Every request ends, its demand and the trigger go with it, and every lease and
\* every claim is let go again and again.
AllLetGo ==
  /\ <>[](\A r \in Requests : At(r, "done"))
  /\ <>[](\A d \in Deployments : waiting[d] = 0 /\ ~triggered[d])
  /\ []<>(active = {} /\ slots = 0)
  /\ []<>(stopping = {})

=============================================================================
