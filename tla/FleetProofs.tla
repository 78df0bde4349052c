---------------------------- MODULE FleetProofs -----------------------------
(***************************************************************************)
(* Fleet for any deployments, requests and scenes: the activation ledger,  *)
(* the dispatch book and the batching queue agree with what the threads    *)
(* are doing.                                                              *)
(***************************************************************************)
EXTENDS Fleet, FiniteSetTheorems, TLAPS

Fields == {"pc", "d", "it", "victims", "claimed", "todo", "counted", "parked", "rounds", "ok",
           "queued", "inventory", "leases", "evicting", "then"}

\* A thread that observes is where it will go on once it has published.
Place(t) == IF t.pc \in {"look", "read", "write"} THEN t.then ELSE t.pc

ThreadOK(a, t) ==
  /\ DOMAIN t = Fields
  /\ t.victims \subseteq Deployments /\ t.todo \subseteq Deployments
  /\ t.counted \in BOOLEAN /\ t.parked \in BOOLEAN
  /\ t.then \in {"none", "confirm", "stopped", "expire"}
  /\ a \in Requests => t.d = scene.wants[a]
  /\ a = house /\ t.pc = "idle_claim" => t.d \in Deployments

Shape ==
  /\ scene \in SceneType /\ DOMAIN thread = Actors
  /\ \A a \in Actors : ThreadOK(a, thread[a])

-----------------------------------------------------------------------------
(* The ledger: a lease is its plan's, from the commit to the finish, or    *)
(* was taken from it by the expiry.                                        *)

Leased == {"claim", "plan", "stopping", "starting", "confirm", "undo", "finish"}

IsLease(r) == DOMAIN r = {"by", "d", "evicted", "state"} /\ r.by \in Actors
OneEach(A) == \A r, o \in A : r.by = o.by => r = o

LedgerInv ==
  /\ \A r \in active : IsLease(r) /\ Place(thread[r.by]) \in Leased
  /\ OneEach(active) /\ IsFiniteSet(active) /\ LedgerExact

-----------------------------------------------------------------------------
(* The claims *)

ClaimsInv ==
  /\ in_flight \in [Deployments -> Nat] /\ stopping \subseteq Deployments
  /\ ClaimsHeld

-----------------------------------------------------------------------------
(* The demand: who is counted is counted once, is between its admission    *)
(* and its return, or parked.                                              *)

Asking == {"gate", "unqueue", "spend", "commit", "unclaim", "settle", "returned"} \cup Leased

Small == Cardinality(scene.who) <= MAX_QUEUED_PER_CAPABILITY

Standing(r, t) ==
  /\ t.counted => Asks(r) /\ ~t.parked /\ Place(t) \in Asking
  /\ t.parked => Asks(r) /\ t.pc # "unqueue"
  /\ t.pc = "ask" => Asks(r)
  /\ r \notin scene.who => t.pc = "done" /\ ~t.counted /\ ~t.parked
  /\ t.pc = "gate" => t.counted \/ t.parked
  /\ Small /\ t.pc = "unqueue" => t.counted

DemandInv ==
  /\ waiting \in [Deployments -> Nat]
  /\ \A r \in Requests : Standing(r, thread[r])
  /\ DemandExact

FleetInv == Shape /\ LedgerInv /\ ClaimsInv /\ DemandInv

-----------------------------------------------------------------------------
(* How a step looks from here *)

\* Only thread a moves.
Moves(a) ==
  /\ scene' = scene /\ DOMAIN thread' = Actors
  /\ \A b \in Actors \ {a} : thread'[b] = thread[b]
  /\ ThreadOK(a, thread'[a])

\* B has the leases of A, in states of its own.
Alike(A, B) == \A r \in A : \E o \in B : o.by = r.by /\ o.d = r.d /\ o.evicted = r.evicted

\* The leases are the same, and a thread that has one stays where it may.
Steady(a) ==
  /\ slots' = slots /\ Alike(active, active') /\ Alike(active', active)
  /\ OneEach(active') /\ \A r \in active' : IsLease(r)
  /\ Place(thread[a]) \in Leased => Place(thread'[a]) \in Leased

\* No claim is made, none is let go for others to take.
Quiet(a) ==
  /\ stopping' = stopping /\ in_flight' = in_flight
  /\ thread'[a].claimed \subseteq thread[a].claimed

\* Nobody comes to be counted or is no longer.
Calm(a) ==
  /\ waiting' = waiting
  /\ a \in Requests =>
       /\ thread'[a].counted = thread[a].counted /\ thread'[a].parked = thread[a].parked
       /\ Standing(a, thread'[a])

\* Set puts one thread's new record in its place.
LEMMA SetMoves ==
  ASSUME Shape, NEW a \in Actors, NEW t, Set(a, t), scene' = scene, ThreadOK(a, t)
  PROVE  Moves(a) /\ thread'[a] = t
  BY DEF Shape, Set, Moves

\* What a move leaves of the shape.
LEMMA ShapeKept ==
  ASSUME Shape, NEW a \in Actors, Moves(a)
  PROVE  Shape'
<1>1. ASSUME NEW b \in Actors PROVE ThreadOK(b, thread[b])'
  BY DEF Shape, Moves, ThreadOK
<1> QED  BY <1>1 DEF Shape, Moves, Actors

\* A set of leases, one for each owner, counts its owners.
LEMMA OwnersCount ==
  ASSUME NEW A, OneEach(A), IsFiniteSet({r.by : r \in A})
  PROVE  IsFiniteSet(A) /\ Cardinality(A) = Cardinality({r.by : r \in A})
<1> DEFINE O == {r.by : r \in A}
           f == [r \in A |-> r.by]
<1>1. f \in Injection(A, O) /\ f \in Surjection(A, O)
  BY DEF OneEach, Injection, Surjection, IsInjective
<1>2. IsFiniteSet(O)
  OBVIOUS
<1> HIDE DEF O, f
<1>3. IsFiniteSet(A) /\ Cardinality(A) = Cardinality(O)
  BY <1>1, <1>2, FS_Injection
<1> QED  BY <1>3 DEF O

LEMMA LedgerKept ==
  ASSUME FleetInv, NEW a \in Actors, Moves(a), Steady(a)
  PROVE  LedgerInv'
<1> USE DEF FleetInv, LedgerInv
<1>1. {r.by : r \in active} = {r.by : r \in active'}
  BY DEF Steady, Alike
<1>2. IsFiniteSet({r.by : r \in active})
  <2>1. {r.by : r \in active} \subseteq Actors
    BY DEF IsLease
  <2>2. IsFiniteSet(Actors)
    BY ActorAssumption, FS_AddElement DEF Actors
  <2> QED  BY <2>1, <2>2, FS_Subset
<1>3. IsFiniteSet(active') /\ Cardinality(active') = Cardinality(active)
  BY <1>1, <1>2, OwnersCount DEF Steady
<1>4. ASSUME NEW r \in active', NEW o \in active', r # o PROVE ~Conflicts(r.d, r.evicted, o)
  <2>1. PICK p \in active : p.by = r.by /\ p.d = r.d /\ p.evicted = r.evicted
    BY DEF Steady, Alike
  <2>2. PICK q \in active : q.by = o.by /\ q.d = o.d /\ q.evicted = o.evicted
    BY DEF Steady, Alike
  <2>3. r.by # o.by
    BY <1>4 DEF Steady, OneEach
  <2>4. ~Conflicts(p.d, p.evicted, q)
    BY <2>1, <2>2, <2>3 DEF LedgerExact
  <2> QED  BY <2>1, <2>2, <2>4 DEF Conflicts
<1>5. LedgerExact'
  BY <1>3, <1>4 DEF LedgerExact, Steady, Moves, Conflicts
<1>6. ASSUME NEW r \in active' PROVE Place(thread'[r.by]) \in Leased
  <2>1. PICK p \in active : p.by = r.by
    BY DEF Steady, Alike
  <2>2. Place(thread[p.by]) \in Leased /\ p.by \in Actors
    BY DEF IsLease
  <2>3. CASE p.by = a  BY <2>1, <2>2, <2>3 DEF Steady
  <2>4. CASE p.by # a  BY <2>1, <2>2, <2>4 DEF Moves
  <2> QED  BY <2>3, <2>4
<1>7. \A r \in active' : IsLease(r)'
  BY DEF Steady, IsLease
<1>8. (\A r \in active : Place(thread[r.by]) \in Leased)'
  BY <1>6 DEF Leased
<1> QED  BY <1>3, <1>5, <1>7, <1>8 DEF Steady, OneEach

LEMMA ClaimsKept ==
  ASSUME FleetInv, NEW a \in Actors, Moves(a), Quiet(a)
  PROVE  ClaimsInv'
<1>1. \A b \in Actors : thread'[b].claimed \subseteq thread[b].claimed
  BY DEF Moves, Quiet
<1>2. ClaimsHeld'
  BY <1>1 DEF FleetInv, ClaimsInv, ClaimsHeld, Quiet
<1> QED  BY <1>2 DEF FleetInv, ClaimsInv, Quiet

LEMMA StandingKept ==
  ASSUME FleetInv, NEW a \in Actors, Moves(a), a \in Requests => Standing(a, thread'[a])
  PROVE  (\A r \in Requests : Standing(r, thread[r]))'
<1>1. ASSUME NEW r \in Requests PROVE Standing(r, thread'[r])
  BY DEF FleetInv, DemandInv, Moves, Actors
<1>2. ASSUME NEW r \in Requests PROVE Standing(r, thread[r])'
  BY <1>1 DEF Standing, Moves, Asks, Operators, Small, Place, Asking, Leased
<1> QED  BY <1>2

LEMMA DemandKept ==
  ASSUME FleetInv, NEW a \in Actors, Moves(a), Calm(a)
  PROVE  DemandInv'
<1>1. (\A r \in Requests : Standing(r, thread[r]))'
  BY StandingKept DEF Calm
<1>2. ASSUME NEW d \in Deployments PROVE Counted(d)' = Counted(d)
  <2>1. ASSUME NEW r \in Requests
        PROVE  /\ thread'[r].d = thread[r].d
               /\ thread'[r].counted = thread[r].counted /\ thread'[r].parked = thread[r].parked
    BY DEF Moves, Calm, ThreadOK, FleetInv, Shape, Actors
  <2> QED  BY <2>1 DEF Counted, Of
<1>3. DemandExact'
  BY <1>2 DEF DemandExact, FleetInv, DemandInv, Calm, Moves
<1> QED  BY <1>1, <1>3 DEF DemandInv, Calm, FleetInv

\* A step that keeps all three.
LEMMA StepKeeps ==
  ASSUME FleetInv, NEW a \in Actors, Moves(a), Steady(a), Quiet(a), Calm(a)
  PROVE  FleetInv'
  BY ShapeKept, LedgerKept, ClaimsKept, DemandKept DEF FleetInv

-----------------------------------------------------------------------------
(* Steps of a thread that take and give nothing *)

\* The record t may replace a's without anything being taken or given.
Stays(a, t) ==
  /\ ThreadOK(a, t) /\ t.claimed \subseteq thread[a].claimed
  /\ t.counted = thread[a].counted /\ t.parked = thread[a].parked
  /\ Place(thread[a]) \in Leased => Place(t) \in Leased
  /\ a \in Requests => Standing(a, t)

LEMMA Thread ==
  ASSUME FleetInv, NEW a \in Actors
  PROVE  /\ DOMAIN thread[a] = Fields /\ ThreadOK(a, thread[a])
         /\ a \in Requests => Standing(a, thread[a])
  BY DEF FleetInv, Shape, DemandInv, ThreadOK

\* A record that goes on to a point which asks for nothing.
LEMMA GoesOn ==
  ASSUME FleetInv, NEW a \in Actors, NEW t, DOMAIN t = Fields,
         t.d = thread[a].d, t.victims \subseteq Deployments, t.todo \subseteq Deployments,
         t.claimed \subseteq thread[a].claimed, t.counted = thread[a].counted, t.parked = thread[a].parked,
         t.then \in {"none", "confirm", "stopped", "expire"},
         thread[a].pc # "done", t.pc \notin {"ask", "gate", "unqueue", "idle_claim"},
         Place(thread[a]) \in Leased => Place(t) \in Leased,
         a \in Requests /\ thread[a].counted => Place(t) \in Asking
  PROVE  Stays(a, t)
<1>1. ThreadOK(a, thread[a]) /\ (a \in Requests => Standing(a, thread[a]))
  BY Thread
<1>2. ThreadOK(a, t)
  BY <1>1 DEF ThreadOK
<1>3. a \in Requests => Standing(a, t)
  BY <1>1 DEF Standing
<1> QED  BY <1>2, <1>3 DEF Stays

LEMMA StaysMoves ==
  ASSUME FleetInv, NEW a \in Actors, NEW t, Set(a, t), scene' = scene, Stays(a, t)
  PROVE  /\ Moves(a) /\ thread'[a] = t
         /\ UNCHANGED <<stopping, in_flight>> => Quiet(a)
         /\ UNCHANGED waiting => Calm(a)
<1>1. Moves(a) /\ thread'[a] = t
  BY SetMoves DEF FleetInv, Stays
<1> QED  BY <1>1 DEF Stays, Quiet, Calm

\* Nothing of the ledger is touched.
LEMMA SteadyWhen ==
  ASSUME FleetInv, NEW a \in Actors, UNCHANGED <<active, slots>>,
         Place(thread[a]) \in Leased => Place(thread'[a]) \in Leased
  PROVE  Steady(a)
  BY DEF Steady, Alike, FleetInv, LedgerInv

LEMMA Aside ==
  ASSUME FleetInv, NEW a \in Actors, NEW t, Set(a, t), Stays(a, t),
         UNCHANGED <<scene, active, slots, waiting, stopping, in_flight>>
  PROVE  FleetInv'
<1>1. Moves(a) /\ thread'[a] = t /\ Quiet(a) /\ Calm(a)
  BY StaysMoves
<1>2. Steady(a)
  BY <1>1, SteadyWhen DEF Stays
<1> QED  BY <1>1, <1>2, StepKeeps

\* A transition changes a lease's state and nothing else of it.
LEMMA TransitionAlike ==
  ASSUME NEW A, NEW a, NEW n, \A r \in A : IsLease(r), OneEach(A)
  PROVE  LET B == transition(A, a, n)
         IN  Alike(A, B) /\ Alike(B, A) /\ OneEach(B) /\ \A r \in B : IsLease(r)
<1> DEFINE f(r) == IF r.by = a /\ <<r.state, n>> \in may_transition_to THEN [r EXCEPT !.state = n] ELSE r
           B == {f(r) : r \in A}
<1>1. ASSUME NEW r \in A
      PROVE  IsLease(f(r)) /\ f(r).by = r.by /\ f(r).d = r.d /\ f(r).evicted = r.evicted
  BY DEF IsLease
<1> HIDE DEF f
<1>2. Alike(A, B) /\ Alike(B, A) /\ OneEach(B) /\ \A r \in B : IsLease(r)
  BY <1>1 DEF Alike, OneEach
<1>3. transition(A, a, n) = B
  BY DEF transition, f
<1> QED  BY <1>2, <1>3

LEMMA Alike2 ==
  ASSUME NEW A, NEW B, NEW C, Alike(A, B), Alike(B, C)
  PROVE  Alike(A, C)
<1>1. ASSUME NEW r \in A PROVE \E o \in C : o.by = r.by /\ o.d = r.d /\ o.evicted = r.evicted
  <2>1. PICK p \in B : p.by = r.by /\ p.d = r.d /\ p.evicted = r.evicted
    BY DEF Alike
  <2>2. PICK o \in C : o.by = p.by /\ o.d = p.d /\ o.evicted = p.evicted
    BY DEF Alike
  <2> QED  BY <2>1, <2>2
<1> QED  BY <1>1 DEF Alike

\* The states of leases that a step of a's plan may leave.
LEMMA SteadyAfter ==
  ASSUME FleetInv, NEW a \in Actors, slots' = slots,
         \/ active' = active
         \/ \E n : active' = transition(active, a, n)
         \/ \E m, n : active' = transition(transition(active, a, m), a, n),
         Place(thread[a]) \in Leased => Place(thread'[a]) \in Leased
  PROVE  Steady(a)
<1>0. (\A r \in active : IsLease(r)) /\ OneEach(active)
  BY DEF FleetInv, LedgerInv
<1>1. CASE active' = active
  BY <1>1, SteadyWhen
<1>2. ASSUME NEW n, active' = transition(active, a, n) PROVE Steady(a)
  BY <1>0, <1>2, TransitionAlike DEF Steady
<1>3. ASSUME NEW m, NEW n, active' = transition(transition(active, a, m), a, n) PROVE Steady(a)
  <2> DEFINE B == transition(active, a, m)
  <2>1. Alike(active, B) /\ Alike(B, active) /\ OneEach(B) /\ \A r \in B : IsLease(r)
    BY <1>0, TransitionAlike
  <2> HIDE DEF B
  <2>2. active' = transition(B, a, n)
    BY <1>3 DEF B
  <2>3. Alike(B, active') /\ Alike(active', B) /\ OneEach(active') /\ \A r \in active' : IsLease(r)
    BY <2>1, <2>2, TransitionAlike
  <2>4. Alike(active, active') /\ Alike(active', active)
    BY <2>1, <2>3, Alike2
  <2> QED  BY <2>3, <2>4 DEF Steady
<1> QED  BY <1>1, <1>2, <1>3

\* A step of a plan: the thread goes on and its lease with it.
LEMMA Onward ==
  ASSUME FleetInv, NEW a \in Actors, NEW t, Set(a, t), Stays(a, t),
         UNCHANGED <<scene, slots, waiting, stopping, in_flight>>,
         \/ active' = active
         \/ \E n : active' = transition(active, a, n)
         \/ \E m, n : active' = transition(transition(active, a, m), a, n)
  PROVE  FleetInv'
<1>1. Moves(a) /\ thread'[a] = t /\ Quiet(a) /\ Calm(a)
  BY StaysMoves
<1>2. Steady(a)
  BY <1>1, SteadyAfter DEF Stays
<1> QED  BY <1>1, <1>2, StepKeeps

\* As u but for where it is and what it has yet to do.
Like(t, u) ==
  /\ DOMAIN t = Fields /\ t.d = u.d /\ t.victims = u.victims
  /\ t.counted = u.counted /\ t.parked = u.parked

LEMMA LikeStays ==
  ASSUME FleetInv, NEW a \in Actors, NEW t, Like(t, thread[a]),
         t.claimed \subseteq thread[a].claimed, t.todo \subseteq Deployments,
         t.then \in {"none", "confirm", "stopped", "expire"},
         thread[a].pc # "done", t.pc \notin {"ask", "gate", "unqueue", "idle_claim"},
         Place(thread[a]) \in Leased => Place(t) \in Leased,
         a \in Requests /\ thread[a].counted => Place(t) \in Asking
  PROVE  Stays(a, t)
<1>1. thread[a].victims \subseteq Deployments
  BY Thread DEF ThreadOK
<1> QED  BY <1>1, GoesOn DEF Like

\* One that asks or waits goes on asking.
LEMMA AskingOn ==
  ASSUME FleetInv, NEW a \in Actors
  PROVE  /\ a \in Requests /\ thread[a].counted => Place(thread[a]) \in Asking
         /\ thread[a].todo \subseteq Deployments /\ thread[a].victims \subseteq Deployments
         /\ thread[a].then \in {"none", "confirm", "stopped", "expire"}
  BY Thread DEF Standing, ThreadOK

-----------------------------------------------------------------------------
(* Observing *)

LEMMA ObserveKeeps ==
  ASSUME FleetInv, NEW a \in Actors, Observe(a)
  PROVE  FleetInv'
<1> USE DEF ledger, queue, book, At
<1>0. DOMAIN thread[a] = Fields
  BY Thread
<1>1. CASE Look(a)
  <2> DEFINE t == [thread[a] EXCEPT !.pc = "read", !.inventory = run]
  <2>0. Set(a, t)
    BY <1>1 DEF Look
  <2>1. /\ Like(t, thread[a]) /\ t.claimed = thread[a].claimed /\ t.todo = thread[a].todo
        /\ t.pc = "read" /\ t.then = thread[a].then
    BY <1>0 DEF Like, Fields
  <2> HIDE DEF t
  <2>2. Stays(a, t)
    BY <1>1, <2>1, LikeStays, AskingOn DEF Look, Place
  <2> QED  BY <1>1, <2>0, <2>2, Aside DEF Look
<1>2. CASE adopt_inventory(a)
  <2> DEFINE t == [thread[a] EXCEPT !.pc = "write", !.leases = leases_by_deployment, !.evicting = evicting]
  <2>0. Set(a, t)
    BY <1>2 DEF adopt_inventory
  <2>1. /\ Like(t, thread[a]) /\ t.claimed = thread[a].claimed /\ t.todo = thread[a].todo
        /\ t.pc = "write" /\ t.then = thread[a].then
    BY <1>0 DEF Like, Fields
  <2> HIDE DEF t
  <2>2. Stays(a, t)
    BY <1>2, <2>1, LikeStays, AskingOn DEF adopt_inventory, Place
  <2> QED  BY <1>2, <2>0, <2>2, Aside DEF adopt_inventory
<1>3. CASE Publish(a)
  <2> DEFINE t == [thread[a] EXCEPT !.inventory = <<>>, !.leases = {}, !.evicting = {},
                                    !.pc = thread[a].then, !.then = "none"]
  <2>0. Set(a, t)
    BY <1>3 DEF Publish
  <2>1. /\ Like(t, thread[a]) /\ t.claimed = thread[a].claimed /\ t.todo = thread[a].todo
        /\ t.pc = thread[a].then /\ t.then = "none"
    BY <1>0 DEF Like, Fields
  <2> HIDE DEF t
  <2>2. Stays(a, t)
    BY <1>3, <2>1, LikeStays, AskingOn DEF Publish, Place
  <2> QED  BY <1>3, <2>0, <2>2, Aside DEF Publish
<1> QED  BY <1>1, <1>2, <1>3 DEF Observe

-----------------------------------------------------------------------------
(* ensure_ready *)

LEMMA PlanFailsStays ==
  ASSUME FleetInv, NEW a \in Actors, thread[a].pc \in Leased, PlanFails(a)
  PROVE  \E t : Set(a, t) /\ Stays(a, t)
<1> DEFINE p == IF thread[a].victims = {} THEN "finish" ELSE "undo"
           t == [thread[a] EXCEPT !.pc = p, !.ok = FALSE, !.it = "none", !.todo = thread[a].victims]
<1>0. Set(a, t) /\ p \in {"finish", "undo"}
  BY DEF PlanFails
<1> HIDE DEF p
<1>1. /\ Like(t, thread[a]) /\ t.claimed = thread[a].claimed /\ t.todo = thread[a].victims
      /\ t.pc = p /\ t.then = thread[a].then
  BY Thread DEF Like, Fields
<1> HIDE DEF t
<1>2. Stays(a, t)
  BY <1>0, <1>1, LikeStays, AskingOn DEF Place, Leased, Asking
<1> QED  BY <1>0, <1>2

\* A thread that only goes somewhere else.
LEMMA GotoStays ==
  ASSUME FleetInv, NEW a \in Actors, NEW p, Goto(a, p),
         thread[a].pc \notin {"look", "read", "write", "done"},
         p \notin {"look", "read", "write", "ask", "gate", "unqueue", "idle_claim"},
         thread[a].pc \in Leased => p \in Leased,
         a \in Requests /\ thread[a].pc \in Asking => p \in Asking
  PROVE  \E t : Set(a, t) /\ Stays(a, t)
<1> DEFINE t == [thread[a] EXCEPT !.pc = p]
<1>0. Set(a, t)
  BY DEF Goto
<1>1. /\ Like(t, thread[a]) /\ t.claimed = thread[a].claimed /\ t.todo = thread[a].todo
      /\ t.pc = p /\ t.then = thread[a].then
  BY Thread DEF Like, Fields
<1> HIDE DEF t
<1>2. Stays(a, t)
  BY <1>1, LikeStays, AskingOn DEF Place
<1> QED  BY <1>0, <1>2

\* Refused: back to the caller, with nothing.
LEMMA RefusedStays ==
  ASSUME FleetInv, NEW a \in Actors, NEW q, Refused(a, q), thread[a].pc \in {"spend", "commit"}
  PROVE  \E t : Set(a, t) /\ Stays(a, t)
<1> DEFINE t == [thread[a] EXCEPT !.pc = "returned", !.ok = FALSE, !.queued = q, !.claimed = {}]
<1>0. Set(a, t)
  BY DEF Refused
<1>1. /\ Like(t, thread[a]) /\ t.claimed = {} /\ t.todo = thread[a].todo
      /\ t.pc = "returned" /\ t.then = thread[a].then
  BY Thread DEF Like, Fields
<1> HIDE DEF t
<1>2. Stays(a, t)
  BY <1>1, LikeStays, AskingOn DEF Place, Leased, Asking
<1> QED  BY <1>0, <1>2

LEMMA SpendKeeps ==
  ASSUME FleetInv, NEW a \in Actors, try_spend(a)
  PROVE  FleetInv'
<1> USE DEF ledger, queue, book, At
<1>1. \E t : Set(a, t) /\ Stays(a, t)
  <2>1. CASE Goto(a, "commit")
    BY <2>1, GotoStays DEF try_spend, Leased, Asking
  <2>2. CASE Refused(a, FALSE)
    BY <2>2, RefusedStays DEF try_spend
  <2> QED  BY <2>1, <2>2 DEF try_spend
<1> QED  BY <1>1, Aside DEF try_spend

LEMMA EvictKeeps ==
  ASSUME FleetInv, NEW a \in Actors, Evict(a)
  PROVE  FleetInv'
<1> USE DEF ledger, queue, book, At
<1>1. PICK v \in thread[a].todo :
        \/ /\ active' = transition(transition(active, a, "draining"), a, "stopping")
           /\ Set(a, [thread[a] EXCEPT !.pc = "stopping", !.it = v, !.todo = @ \ {v}])
        \/ active' = transition(active, a, "draining") /\ PlanFails(a)
  BY DEF Evict
<1>2. thread[a].pc = "plan" /\ UNCHANGED <<scene, slots, waiting, stopping, in_flight>>
  BY DEF Evict
<1>3. CASE PlanFails(a) /\ active' = transition(active, a, "draining")
  <2>1. PICK t : Set(a, t) /\ Stays(a, t)
    BY <1>2, <1>3, PlanFailsStays DEF Leased
  <2> QED  BY <1>2, <1>3, <2>1, Onward
<1>4. CASE /\ active' = transition(transition(active, a, "draining"), a, "stopping")
           /\ Set(a, [thread[a] EXCEPT !.pc = "stopping", !.it = v, !.todo = @ \ {v}])
  <2> DEFINE t == [thread[a] EXCEPT !.pc = "stopping", !.it = v, !.todo = thread[a].todo \ {v}]
  <2>0. Set(a, t)
    BY <1>4
  <2>1. /\ Like(t, thread[a]) /\ t.claimed = thread[a].claimed /\ t.todo = thread[a].todo \ {v}
        /\ t.pc = "stopping" /\ t.then = thread[a].then
    BY Thread DEF Like, Fields
  <2> HIDE DEF t
  <2>2. Stays(a, t)
    BY <1>2, <2>1, LikeStays, AskingOn DEF Place, Leased, Asking
  <2> QED  BY <1>2, <1>4, <2>0, <2>2, Onward
<1> QED  BY <1>1, <1>3, <1>4

LEMMA AwaitStopKeeps ==
  ASSUME FleetInv, NEW a \in Actors, AwaitStop(a)
  PROVE  FleetInv'
<1> USE DEF ledger, queue, book, At
<1>1. CASE PlanFails(a)
  <2>1. PICK t : Set(a, t) /\ Stays(a, t)
    BY <1>1, PlanFailsStays DEF AwaitStop, Leased
  <2> QED  BY <2>1, Aside DEF AwaitStop
<1>2. CASE Set(a, [thread[a] EXCEPT !.pc = "plan", !.it = "none"])
  <2> DEFINE t == [thread[a] EXCEPT !.pc = "plan", !.it = "none"]
  <2>1. /\ Like(t, thread[a]) /\ t.claimed = thread[a].claimed /\ t.todo = thread[a].todo
        /\ t.pc = "plan" /\ t.then = thread[a].then
    BY Thread DEF Like, Fields
  <2> HIDE DEF t
  <2>2. Stays(a, t)
    BY <2>1, LikeStays, AskingOn DEF AwaitStop, Place, Leased, Asking
  <2>3. Set(a, t)
    BY <1>2 DEF t
  <2> QED  BY <2>2, <2>3, Aside DEF AwaitStop
<1> QED  BY <1>1, <1>2 DEF AwaitStop

LEMMA StartKeeps ==
  ASSUME FleetInv, NEW a \in Actors, Start(a)
  PROVE  FleetInv'
<1> USE DEF ledger, queue, book, At
<1>1. thread[a].pc = "plan" /\ UNCHANGED <<scene, slots, waiting, stopping, in_flight>>
  BY DEF Start
<1>2. CASE active' = transition(transition(active, a, "starting"), a, "probing") /\ Goto(a, "starting")
  <2>1. PICK t : Set(a, t) /\ Stays(a, t)
    BY <1>1, <1>2, GotoStays DEF Leased, Asking
  <2> QED  BY <1>1, <1>2, <2>1, Onward
<1>3. CASE active' = transition(active, a, "starting") /\ PlanFails(a)
  <2>1. PICK t : Set(a, t) /\ Stays(a, t)
    BY <1>1, <1>3, PlanFailsStays DEF Leased
  <2> QED  BY <1>1, <1>3, <2>1, Onward
<1> QED  BY <1>2, <1>3 DEF Start

LEMMA AwaitStartKeeps ==
  ASSUME FleetInv, NEW a \in Actors, AwaitStart(a)
  PROVE  FleetInv'
<1> USE DEF ledger, queue, book, At
<1>1. CASE PlanFails(a)
  <2>1. PICK t : Set(a, t) /\ Stays(a, t)
    BY <1>1, PlanFailsStays DEF AwaitStart, Leased
  <2> QED  BY <2>1, Aside DEF AwaitStart
<1>2. CASE Set(a, [thread[a] EXCEPT !.pc = "look", !.then = "confirm"])
  <2> DEFINE t == [thread[a] EXCEPT !.pc = "look", !.then = "confirm"]
  <2>1. /\ Like(t, thread[a]) /\ t.claimed = thread[a].claimed /\ t.todo = thread[a].todo
        /\ t.pc = "look" /\ t.then = "confirm"
    BY Thread DEF Like, Fields
  <2> HIDE DEF t
  <2>2. Stays(a, t)
    BY <2>1, LikeStays, AskingOn DEF AwaitStart, Place, Leased, Asking
  <2>3. Set(a, t)
    BY <1>2 DEF t
  <2> QED  BY <2>2, <2>3, Aside DEF AwaitStart
<1> QED  BY <1>1, <1>2 DEF AwaitStart

LEMMA ConfirmKeeps ==
  ASSUME FleetInv, NEW a \in Actors, Confirm(a)
  PROVE  FleetInv'
<1> USE DEF ledger, queue, book, At
<1>1. CASE PlanFails(a) /\ active' = active
  <2>1. PICK t : Set(a, t) /\ Stays(a, t)
    BY <1>1, PlanFailsStays DEF Confirm, Leased
  <2> QED  BY <1>1, <2>1, Onward DEF Confirm
<1>2. CASE /\ active' = transition(active, a, "ready")
           /\ Set(a, [thread[a] EXCEPT !.pc = "finish", !.ok = TRUE])
  <2> DEFINE t == [thread[a] EXCEPT !.pc = "finish", !.ok = TRUE]
  <2>1. /\ Like(t, thread[a]) /\ t.claimed = thread[a].claimed /\ t.todo = thread[a].todo
        /\ t.pc = "finish" /\ t.then = thread[a].then
    BY Thread DEF Like, Fields
  <2> HIDE DEF t
  <2>2. Stays(a, t)
    BY <2>1, LikeStays, AskingOn DEF Confirm, Place, Leased, Asking
  <2>3. Set(a, t)
    BY <1>2 DEF t
  <2> QED  BY <1>2, <2>2, <2>3, Onward DEF Confirm
<1> QED  BY <1>1, <1>2 DEF Confirm

LEMMA RollbackKeeps ==
  ASSUME FleetInv, NEW a \in Actors, Rollback(a)
  PROVE  FleetInv'
<1> USE DEF ledger, queue, book, At
<1>1. PICK v \in thread[a].todo :
        Set(a, [thread[a] EXCEPT !.todo = @ \ {v}, !.pc = IF thread[a].todo = {v} THEN "finish" ELSE @])
  BY DEF Rollback
<1>2. thread[a].pc = "undo" /\ UNCHANGED <<scene, active, slots, waiting, stopping, in_flight>>
  BY DEF Rollback
<1> DEFINE p == IF thread[a].todo = {v} THEN "finish" ELSE "undo"
           t == [thread[a] EXCEPT !.todo = thread[a].todo \ {v}, !.pc = p]
<1>3. Set(a, t) /\ p \in {"finish", "undo"}
  BY <1>1, <1>2
<1> HIDE DEF p
<1>4. /\ Like(t, thread[a]) /\ t.claimed = thread[a].claimed /\ t.todo = thread[a].todo \ {v}
      /\ t.pc = p /\ t.then = thread[a].then
  BY Thread DEF Like, Fields
<1> HIDE DEF t
<1>5. Stays(a, t)
  BY <1>2, <1>3, <1>4, LikeStays, AskingOn DEF Place, Leased, Asking
<1> QED  BY <1>2, <1>3, <1>5, Aside

LEMMA SettleKeeps ==
  ASSUME FleetInv, NEW a \in Actors, settle(a)
  PROVE  FleetInv'
<1> USE DEF ledger, queue, book, At
<1> DEFINE t == [thread[a] EXCEPT !.pc = "returned", !.queued = FALSE]
<1>1. /\ Like(t, thread[a]) /\ t.claimed = thread[a].claimed /\ t.todo = thread[a].todo
      /\ t.pc = "returned" /\ t.then = thread[a].then
  BY Thread DEF Like, Fields
<1>2. Set(a, t)
  BY DEF settle
<1> HIDE DEF t
<1>3. Stays(a, t)
  BY <1>1, LikeStays, AskingOn DEF settle, Place, Leased, Asking
<1> QED  BY <1>2, <1>3, Aside DEF settle

-----------------------------------------------------------------------------
(* Leases taken and returned *)

LEMMA Taken ==
  ASSUME FleetInv, NEW a \in Actors, Moves(a), NEW d, NEW V, may_acquire(d, V), acquire_exclusive(a, d, V),
         Place(thread[a]) \notin Leased, Place(thread'[a]) \in Leased
  PROVE  LedgerInv'
<1> USE DEF FleetInv, LedgerInv
<1> DEFINE new == [by |-> a, d |-> d, evicted |-> V, state |-> "planned"]
<1>1. IsLease(new) /\ new.by = a /\ new.d = d /\ new.evicted = V
  BY DEF IsLease
<1>2. active' = active \cup {new} /\ slots' = slots + 1
  BY DEF acquire_exclusive
<1> HIDE DEF new
<1>3. \A r \in active : r.by # a
  BY DEF IsLease
<1>4. new \notin active
  BY <1>1, <1>3
<1>5. IsFiniteSet(active') /\ Cardinality(active') = Cardinality(active) + 1 /\ Cardinality(active) \in Nat
  BY <1>2, <1>4, FS_AddElement, FS_CardinalityType
<1>6. slots' = Cardinality(active') /\ slots' <= scene.max_concurrent_activations
  <2>1. scene.max_concurrent_activations \in Nat
    BY DEF Shape, SceneType
  <2> QED  BY <1>2, <1>5, <2>1 DEF may_acquire, LedgerExact
<1>7. ASSUME NEW r \in active', NEW o \in active', r # o PROVE ~Conflicts(r.d, r.evicted, o)
  <2>1. CASE r \in active /\ o \in active
    BY <1>7, <2>1 DEF LedgerExact
  <2>2. CASE r = new
    BY <1>1, <1>2, <1>7, <2>2 DEF may_acquire
  <2>3. CASE o = new
    <3>1. ~Conflicts(d, V, r)
      BY <1>2, <1>7, <2>3 DEF may_acquire
    <3> QED  BY <1>1, <2>3, <3>1 DEF Conflicts
  <2> QED  BY <1>2, <2>1, <2>2, <2>3
<1>8. OneEach(active')
  BY <1>1, <1>2, <1>3 DEF OneEach
<1>9. ASSUME NEW r \in active' PROVE IsLease(r) /\ Place(thread'[r.by]) \in Leased
  <2>1. CASE r = new
    BY <1>1, <2>1
  <2>2. CASE r \in active
    BY <1>3, <2>2 DEF Moves, IsLease
  <2> QED  BY <1>2, <2>1, <2>2
<1>10. LedgerExact'
  BY <1>6, <1>7 DEF LedgerExact, Moves, Conflicts
<1>11. (\A r \in active : IsLease(r) /\ Place(thread[r.by]) \in Leased)'
  BY <1>9 DEF IsLease, Leased
<1> QED  BY <1>5, <1>8, <1>10, <1>11 DEF OneEach

\* The lease of b is gone, if it was still there, and a may be b.
LEMMA Released ==
  ASSUME FleetInv, NEW a \in Actors, NEW b \in Actors, Moves(a), release(b),
         a # b /\ Place(thread[a]) \in Leased => Place(thread'[a]) \in Leased
  PROVE  LedgerInv'
<1> USE DEF FleetInv, LedgerInv
<1>1. active' = active \ Held(b) /\ slots' = IF Held(b) = {} \/ slots = 0 THEN slots ELSE slots - 1
  BY DEF release
<1>2. IsFiniteSet(active') /\ slots' = Cardinality(active') /\ slots' <= slots
  <2>0. slots = Cardinality(active) /\ slots \in Nat
    BY FS_CardinalityType DEF LedgerExact
  <2>1. CASE Held(b) = {}
    BY <1>1, <2>0, <2>1
  <2>2. CASE Held(b) # {}
    <3>1. PICK r : r \in Held(b)
      BY <2>2
    <3>2. Held(b) = {r} /\ r \in active
      BY <3>1 DEF Held, OneEach
    <3>3. IsFiniteSet(active \ {r}) /\ Cardinality(active \ {r}) = Cardinality(active) - 1
      BY <3>2, FS_RemoveElement
    <3>4. slots # 0
      BY <2>0, <3>2, FS_EmptySet
    <3> QED  BY <1>1, <2>0, <3>2, <3>3, <3>4
  <2> QED  BY <2>1, <2>2
<1>3. LedgerExact'
  <2>1. slots' <= scene.max_concurrent_activations
    <3>1. scene.max_concurrent_activations \in Nat /\ slots \in Nat /\ slots' \in Nat
      BY <1>2, FS_CardinalityType DEF Shape, SceneType, LedgerExact
    <3> QED  BY <1>2, <3>1 DEF LedgerExact
  <2> QED  BY <1>1, <1>2, <2>1 DEF LedgerExact, Moves, Conflicts
<1>4. ASSUME NEW r \in active' PROVE IsLease(r) /\ Place(thread'[r.by]) \in Leased
  <2>1. r \in active /\ r.by # b
    BY <1>1 DEF Held
  <2> QED  BY <2>1 DEF Moves, IsLease
<1>5. (\A r \in active : IsLease(r) /\ Place(thread[r.by]) \in Leased)'
  BY <1>4 DEF IsLease, Leased
<1> QED  BY <1>1, <1>2, <1>3, <1>5 DEF OneEach

-----------------------------------------------------------------------------
(* Claims made and let go *)

LEMMA LetGo ==
  ASSUME FleetInv, NEW a \in Actors, Moves(a), in_flight' = in_flight,
         stopping' = stopping \ thread[a].claimed, thread'[a].claimed = {}
  PROVE  ClaimsInv'
<1>1. ClaimsHeld'
  BY DEF FleetInv, ClaimsInv, ClaimsHeld, Moves
<1> QED  BY <1>1 DEF FleetInv, ClaimsInv

LEMMA Claimed ==
  ASSUME FleetInv, NEW a \in Actors, Moves(a), in_flight' = in_flight,
         NEW v \in Deployments, in_flight[v] = 0, v \notin stopping,
         stopping' = stopping \cup {v}, thread'[a].claimed \subseteq thread[a].claimed \cup {v}
  PROVE  ClaimsInv'
<1>1. ClaimsHeld'
  <2>1. \A b \in Actors : thread'[b].claimed \subseteq stopping'
    BY DEF FleetInv, ClaimsInv, ClaimsHeld, Moves
  <2>2. \A b \in Actors \ {a} : thread'[b].claimed = thread[b].claimed /\ v \notin thread[b].claimed
    BY DEF FleetInv, ClaimsInv, ClaimsHeld, Moves
  <2>3. \A b, c \in Actors : b # c => thread'[b].claimed \cap thread'[c].claimed = {}
    BY <2>2 DEF FleetInv, ClaimsInv, ClaimsHeld
  <2> QED  BY <2>1, <2>3 DEF FleetInv, ClaimsInv, ClaimsHeld
<1> QED  BY <1>1 DEF FleetInv, ClaimsInv

LEMMA CommitKeeps ==
  ASSUME FleetInv, NEW a \in Actors, Commit(a)
  PROVE  FleetInv'
<1> USE DEF ledger, queue, book, At
<1>0. thread[a].pc = "commit" /\ UNCHANGED <<scene, waiting, stopping, in_flight>>
  BY DEF Commit
<1>1. CASE Refused(a, TRUE) /\ UNCHANGED <<active, slots>>
  <2>1. PICK t : Set(a, t) /\ Stays(a, t)
    BY <1>0, <1>1, RefusedStays
  <2> QED  BY <1>0, <1>1, <2>1, Aside
<1>2. CASE /\ may_acquire(Of(a), thread[a].victims) /\ acquire_exclusive(a, Of(a), thread[a].victims)
           /\ Set(a, [thread[a] EXCEPT !.pc = "claim", !.todo = thread[a].victims])
  <2> DEFINE t == [thread[a] EXCEPT !.pc = "claim", !.todo = thread[a].victims]
  <2>1. /\ Like(t, thread[a]) /\ t.claimed = thread[a].claimed /\ t.todo = thread[a].victims
        /\ t.pc = "claim" /\ t.then = thread[a].then
    BY Thread DEF Like, Fields
  <2>2. Set(a, t)
    BY <1>2
  <2> HIDE DEF t
  <2>3. Stays(a, t)
    BY <1>0, <2>1, LikeStays, AskingOn DEF Place, Leased, Asking
  <2>4. Moves(a) /\ thread'[a] = t /\ Quiet(a) /\ Calm(a)
    BY <1>0, <2>2, <2>3, StaysMoves
  <2>5. Place(thread[a]) \notin Leased /\ Place(thread'[a]) \in Leased
    BY <1>0, <2>1, <2>4 DEF Place, Leased
  <2>6. LedgerInv'
    BY <1>2, <2>4, <2>5, Taken
  <2> QED  BY <2>4, <2>6, ShapeKept, ClaimsKept, DemandKept DEF FleetInv
<1> QED  BY <1>1, <1>2 DEF Commit

LEMMA ClaimKeeps ==
  ASSUME FleetInv, NEW a \in Actors, Claim(a)
  PROVE  FleetInv'
<1> USE DEF ledger, queue, book, At
<1>0. thread[a].pc = "claim" /\ UNCHANGED <<scene, active, slots, waiting, in_flight>>
  BY DEF Claim
<1>1. PICK v \in thread[a].todo :
        LET free == in_flight[v] = 0 /\ v \notin stopping IN
        /\ stopping' = IF free THEN stopping \union {v} ELSE stopping
        /\ Set(a, [thread[a] EXCEPT !.todo = @ \ {v}, !.claimed = IF free THEN @ \union {v} ELSE @])
  BY DEF Claim
<1> DEFINE free == in_flight[v] = 0 /\ v \notin stopping
           mine == IF free THEN thread[a].claimed \union {v} ELSE thread[a].claimed
           t == [thread[a] EXCEPT !.todo = thread[a].todo \ {v}, !.claimed = mine]
<1>2. Set(a, t)
  BY <1>1
<1>3. /\ Like(t, thread[a]) /\ t.claimed = mine /\ t.todo = thread[a].todo \ {v}
      /\ t.pc = "claim" /\ t.then = thread[a].then
  BY <1>0, Thread DEF Like, Fields
<1> HIDE DEF t
<1>4. ThreadOK(a, thread[a]) /\ (a \in Requests => Standing(a, thread[a])) /\ v \in Deployments
  BY Thread DEF ThreadOK
<1>5. ThreadOK(a, t)
  BY <1>3, <1>4 DEF ThreadOK, Like
<1>6. a \in Requests => Standing(a, t)
  BY <1>0, <1>3, <1>4 DEF Standing, Like, Place
<1>7. Moves(a) /\ thread'[a] = t
  BY <1>0, <1>2, <1>5, SetMoves DEF FleetInv
<1>8. Steady(a)
  BY <1>0, <1>3, <1>7, SteadyWhen DEF Place, Leased
<1>9. Calm(a)
  BY <1>0, <1>3, <1>6, <1>7 DEF Calm, Like
<1>10. ClaimsInv'
  <2>1. CASE free
    BY <1>0, <1>1, <1>3, <1>4, <1>7, <2>1, Claimed
  <2>2. CASE ~free
    BY <1>0, <1>1, <1>3, <1>7, <2>2, ClaimsKept DEF Quiet
  <2> QED  BY <2>1, <2>2
<1> QED  BY <1>7, <1>8, <1>9, <1>10, ShapeKept, LedgerKept, DemandKept DEF FleetInv

LEMMA AppendLeaseKeeps ==
  ASSUME FleetInv, NEW a \in Actors, AppendLease(a)
  PROVE  FleetInv'
<1> USE DEF ledger, queue, book, At
<1>0. thread[a].pc = "claim" /\ UNCHANGED <<scene, waiting, in_flight>>
  BY DEF AppendLease
<1>1. CASE /\ active' = transition(active, a, "lease_held") /\ UNCHANGED <<slots, stopping>>
           /\ Set(a, [thread[a] EXCEPT !.pc = "plan", !.todo = thread[a].victims])
  <2> DEFINE t == [thread[a] EXCEPT !.pc = "plan", !.todo = thread[a].victims]
  <2>1. /\ Like(t, thread[a]) /\ t.claimed = thread[a].claimed /\ t.todo = thread[a].victims
        /\ t.pc = "plan" /\ t.then = thread[a].then
    BY Thread DEF Like, Fields
  <2>2. Set(a, t)
    BY <1>1
  <2> HIDE DEF t
  <2>3. Stays(a, t)
    BY <1>0, <2>1, LikeStays, AskingOn DEF Place, Leased, Asking
  <2> QED  BY <1>0, <1>1, <2>2, <2>3, Onward
<1>2. CASE release(a) /\ stopping' = stopping \ thread[a].claimed /\ Refused(a, FALSE)
  <2> DEFINE t == [thread[a] EXCEPT !.pc = "returned", !.ok = FALSE, !.queued = FALSE, !.claimed = {}]
  <2>1. /\ Like(t, thread[a]) /\ t.claimed = {} /\ t.todo = thread[a].todo
        /\ t.pc = "returned" /\ t.then = thread[a].then
    BY Thread DEF Like, Fields
  <2>2. Set(a, t)
    BY <1>2 DEF Refused
  <2> HIDE DEF t
  <2>3. ThreadOK(a, thread[a]) /\ (a \in Requests => Standing(a, thread[a]))
    BY Thread
  <2>4. ThreadOK(a, t)
    BY <2>1, <2>3 DEF ThreadOK, Like
  <2>5. a \in Requests => Standing(a, t)
    BY <1>0, <2>1, <2>3 DEF Standing, Like, Place, Asking
  <2>6. Moves(a) /\ thread'[a] = t
    BY <1>0, <2>2, <2>4, SetMoves DEF FleetInv
  <2>7. Calm(a)
    BY <1>0, <2>1, <2>5, <2>6 DEF Calm, Like
  <2>8. LedgerInv'
    BY <1>2, <2>6, Released
  <2>9. ClaimsInv'
    BY <1>0, <1>2, <2>1, <2>6, LetGo
  <2> QED  BY <2>6, <2>7, <2>8, <2>9, ShapeKept, DemandKept DEF FleetInv
<1> QED  BY <1>1, <1>2 DEF AppendLease

LEMMA FinishKeeps ==
  ASSUME FleetInv, NEW a \in Actors, Finish(a)
  PROVE  FleetInv'
<1> USE DEF ledger, queue, book, At
<1>0. /\ thread[a].pc = "finish" /\ release(a)
      /\ UNCHANGED <<scene, waiting, stopping, in_flight>>
  BY DEF Finish
<1> DEFINE t == [thread[a] EXCEPT !.pc = "unclaim"]
<1>1. /\ Like(t, thread[a]) /\ t.claimed = thread[a].claimed /\ t.todo = thread[a].todo
      /\ t.pc = "unclaim" /\ t.then = thread[a].then
  BY Thread DEF Like, Fields
<1>2. Set(a, t)
  BY DEF Finish, Goto
<1> HIDE DEF t
<1>3. ThreadOK(a, thread[a]) /\ (a \in Requests => Standing(a, thread[a]))
  BY Thread
<1>4. ThreadOK(a, t)
  BY <1>1, <1>3 DEF ThreadOK, Like
<1>5. a \in Requests => Standing(a, t)
  BY <1>0, <1>1, <1>3 DEF Standing, Like, Place, Asking
<1>6. Moves(a) /\ thread'[a] = t
  BY <1>0, <1>2, <1>4, SetMoves DEF FleetInv
<1>7. Calm(a) /\ Quiet(a)
  BY <1>0, <1>1, <1>5, <1>6 DEF Calm, Quiet, Like
<1>8. LedgerInv'
  BY <1>0, <1>6, Released
<1> QED  BY <1>6, <1>7, <1>8, ShapeKept, ClaimsKept, DemandKept DEF FleetInv

\* Unclaim and Stopped: what was claimed is let go, and nothing else.
LEMMA LetGoKeeps ==
  ASSUME FleetInv, NEW a \in Actors, NEW t, Set(a, t), ThreadOK(a, t), t.claimed = {},
         t.counted = thread[a].counted, t.parked = thread[a].parked,
         thread[a].pc \in {"unclaim", "stopped"}, a \in Requests => Standing(a, t),
         UNCHANGED <<scene, active, slots, waiting, in_flight>>, stopping' = stopping \ thread[a].claimed
  PROVE  FleetInv'
<1>1. Moves(a) /\ thread'[a] = t
  BY SetMoves DEF FleetInv
<1>2. Steady(a)
  BY SteadyWhen DEF Place, Leased
<1>3. Calm(a)
  BY <1>1 DEF Calm
<1>4. ClaimsInv'
  BY <1>1, LetGo
<1> QED  BY <1>1, <1>2, <1>3, <1>4, ShapeKept, LedgerKept, DemandKept DEF FleetInv

LEMMA UnclaimKeeps ==
  ASSUME FleetInv, NEW a \in Actors, Unclaim(a)
  PROVE  FleetInv'
<1> USE DEF ledger, queue, book, At
<1>0. /\ thread[a].pc = "unclaim" /\ stopping' = stopping \ thread[a].claimed
      /\ UNCHANGED <<scene, active, slots, waiting, in_flight>>
  BY DEF Unclaim
<1> DEFINE t == [thread[a] EXCEPT !.claimed = {}, !.pc = "settle"]
<1>1. /\ Like(t, thread[a]) /\ t.claimed = {} /\ t.todo = thread[a].todo
      /\ t.pc = "settle" /\ t.then = thread[a].then
  BY Thread DEF Like, Fields
<1>2. Set(a, t)
  BY DEF Unclaim
<1> HIDE DEF t
<1>3. ThreadOK(a, thread[a]) /\ (a \in Requests => Standing(a, thread[a]))
  BY Thread
<1>4. ThreadOK(a, t)
  BY <1>1, <1>3 DEF ThreadOK, Like
<1>5. a \in Requests => Standing(a, t)
  BY <1>0, <1>1, <1>3 DEF Standing, Like, Place, Asking
<1> QED  BY <1>0, <1>1, <1>2, <1>4, <1>5, LetGoKeeps DEF Like

LEMMA StoppedKeeps ==
  ASSUME FleetInv, NEW a \in Actors, Stopped(a)
  PROVE  FleetInv'
<1> USE DEF ledger, queue, book, At
<1>0. /\ thread[a].pc = "stopped" /\ stopping' = stopping \ thread[a].claimed
      /\ UNCHANGED <<scene, active, slots, waiting, in_flight>>
  BY DEF Stopped
<1> DEFINE d == IF a = house THEN "none" ELSE thread[a].d
           p == IF a = house THEN "prewarm" ELSE "done"
           t == [thread[a] EXCEPT !.claimed = {}, !.ok = FALSE, !.d = d, !.pc = p]
<1>1. Set(a, t)
  BY DEF Stopped
<1>2. /\ p \in {"prewarm", "done"} /\ (a \in Requests => d = thread[a].d /\ p = "done")
  BY ActorAssumption
<1> HIDE DEF d, p
<1>3. /\ DOMAIN t = Fields /\ t.d = d /\ t.pc = p /\ t.claimed = {} /\ t.todo = thread[a].todo
      /\ t.victims = thread[a].victims /\ t.then = thread[a].then
      /\ t.counted = thread[a].counted /\ t.parked = thread[a].parked
  BY Thread DEF Fields
<1> HIDE DEF t
<1>4. ThreadOK(a, thread[a]) /\ (a \in Requests => Standing(a, thread[a]))
  BY Thread
<1>5. ThreadOK(a, t)
  BY <1>2, <1>3, <1>4 DEF ThreadOK
<1>6. a \in Requests => Standing(a, t)
  BY <1>0, <1>2, <1>3, <1>4 DEF Standing, Place, Asking, Leased
<1> QED  BY <1>0, <1>1, <1>3, <1>5, <1>6, LetGoKeeps

-----------------------------------------------------------------------------
(* Demand *)

Waits(t) == t.counted \/ t.parked

LEMMA CountedFacts ==
  ASSUME FleetInv, NEW d \in Deployments
  PROVE  /\ IsFiniteSet(Counted(d)) /\ Cardinality(Counted(d)) \in Nat /\ waiting[d] \in Nat
         /\ waiting[d] <= Cardinality(Counted(d)) /\ (Small => waiting[d] = Cardinality(Counted(d)))
<1>1. IsFiniteSet(Counted(d))
  BY ActorAssumption, FS_Subset DEF Counted
<1> QED  BY <1>1, FS_CardinalityType DEF FleetInv, DemandInv, DemandExact, Small

\* What a request asks for is a deployment, and does not change.
LEMMA Wanted ==
  ASSUME FleetInv, NEW r \in Requests
  PROVE  thread[r].d = scene.wants[r] /\ thread[r].d \in Deployments /\ r \in Actors
  BY DEF FleetInv, Shape, ThreadOK, Actors, SceneType

\* Where the queue is full, more have come than it holds.
LEMMA Full ==
  ASSUME FleetInv, NEW r \in Requests, thread[r].pc # "done", ~Waits(thread[r]),
         waiting[Of(r)] >= MAX_QUEUED_PER_CAPABILITY
  PROVE  ~Small
<1> SUFFICES ASSUME Small PROVE FALSE
  OBVIOUS
<1> DEFINE d == Of(r)  W == scene.who  C == Counted(d)
<1>1. d \in Deployments
  BY Wanted DEF Of
<1>2. W \in SUBSET Requests /\ r \in W
  BY DEF FleetInv, Shape, SceneType, DemandInv, Standing
<1>3. IsFiniteSet(W) /\ Cardinality(W) \in Nat
  BY <1>2, ActorAssumption, FS_Subset, FS_CardinalityType
<1>4. C \subseteq W \ {r}
  BY DEF Counted, FleetInv, DemandInv, Standing, Waits
<1>5. IsFiniteSet(W \ {r}) /\ Cardinality(W \ {r}) = Cardinality(W) - 1
  BY <1>2, <1>3, FS_RemoveElement
<1>6. Cardinality(C) <= Cardinality(W \ {r})
  BY <1>4, <1>5, FS_Subset
<1>7. waiting[d] = Cardinality(C) /\ Cardinality(C) \in Nat
  BY <1>1, CountedFacts
<1>8. Cardinality(W) <= MAX_QUEUED_PER_CAPABILITY
  BY DEF Small
<1>9. waiting[d] >= MAX_QUEUED_PER_CAPABILITY
  OBVIOUS
<1> HIDE DEF d, W, C
<1> QED  BY <1>3, <1>5, <1>6, <1>7, <1>8, <1>9, BoundAssumption

\* What a request's move does to the sets that are counted.
LEMMA CountedAfter ==
  ASSUME FleetInv, NEW r \in Requests, Moves(r)
  PROVE  /\ \A d \in Deployments \ {Of(r)} : Counted(d)' = Counted(d)
         /\ Waits(thread'[r]) => Counted(Of(r))' = Counted(Of(r)) \cup {r}
         /\ ~Waits(thread'[r]) => Counted(Of(r))' = Counted(Of(r)) \ {r}
         /\ Waits(thread[r]) <=> r \in Counted(Of(r))
<1>1. ASSUME NEW q \in Requests PROVE thread'[q].d = thread[q].d
  <2>1. CASE q = r
    BY <2>1, Wanted DEF Moves, ThreadOK
  <2>2. CASE q # r
    BY <2>2 DEF Moves, Actors
  <2> QED  BY <2>1, <2>2
<1>2. \A q \in Requests \ {r} : thread'[q] = thread[q]
  BY DEF Moves, Actors
<1>3. Of(r)' = Of(r)
  BY <1>1 DEF Of
<1>4. \A d : Counted(d)' = {q \in Requests : thread[q].d = d /\ (thread'[q].counted \/ thread'[q].parked)}
  BY <1>1 DEF Counted, Of
<1>5. ASSUME NEW d \in Deployments \ {Of(r)} PROVE Counted(d)' = Counted(d)
  BY <1>2, <1>4 DEF Counted, Of
<1>6. Waits(thread'[r]) => Counted(Of(r))' = Counted(Of(r)) \cup {r}
  BY <1>2, <1>3, <1>4 DEF Counted, Of, Waits
<1>7. ~Waits(thread'[r]) => Counted(Of(r))' = Counted(Of(r)) \ {r}
  BY <1>2, <1>3, <1>4 DEF Counted, Of, Waits
<1>8. Waits(thread[r]) <=> r \in Counted(Of(r))
  BY DEF Counted, Waits, Of
<1> QED  BY <1>5, <1>6, <1>7, <1>8

LEMMA DemandMoved ==
  ASSUME FleetInv, NEW r \in Requests, Moves(r), Standing(r, thread'[r]), NEW n \in Nat,
         waiting' = [waiting EXCEPT ![Of(r)] = n],
         NEW C, C = Counted(Of(r))', n <= Cardinality(C), Small => n = Cardinality(C)
  PROVE  DemandInv'
<1>0. Of(r) \in Deployments /\ Of(r)' = Of(r) /\ r \in Actors
  BY Wanted DEF Of, Moves, ThreadOK
<1>1. (\A q \in Requests : Standing(q, thread[q]))'
  BY <1>0, StandingKept
<1>2. waiting' \in [Deployments -> Nat] /\ waiting'[Of(r)] = n
  BY <1>0 DEF FleetInv, DemandInv
<1>3. Small' <=> Small
  BY DEF Small, Moves
<1>4. ASSUME NEW d \in Deployments
      PROVE  waiting'[d] <= Cardinality(Counted(d)') /\ (Small => waiting'[d] = Cardinality(Counted(d)'))
  <2>1. CASE d = Of(r)
    <3>1. Counted(d)' = C
      BY <1>0, <2>1 DEF Counted
    <3> QED  BY <1>2, <2>1, <3>1
  <2>2. CASE d # Of(r)
    <3>1. waiting'[d] = waiting[d]
      BY <2>2 DEF FleetInv, DemandInv
    <3>2. Counted(d)' = Counted(d)
      BY <2>2, CountedAfter
    <3> QED  BY <3>1, <3>2, CountedFacts
  <2> QED  BY <2>1, <2>2
<1>5. DemandExact'
  BY <1>3, <1>4 DEF DemandExact, Small
<1> QED  BY <1>1, <1>2, <1>5 DEF DemandInv

\* One more waits and is counted.
LEMMA Joins ==
  ASSUME FleetInv, NEW r \in Requests, Moves(r), Standing(r, thread'[r]),
         ~Waits(thread[r]), Waits(thread'[r]), waiting' = [waiting EXCEPT ![Of(r)] = @ + 1]
  PROVE  DemandInv'
<1> DEFINE C == Counted(Of(r))  D == C \cup {r}  n == waiting[Of(r)] + 1
<1>0. Of(r) \in Deployments
  BY Wanted DEF Of
<1>1. /\ IsFiniteSet(C) /\ Cardinality(C) \in Nat /\ waiting[Of(r)] \in Nat
      /\ waiting[Of(r)] <= Cardinality(C) /\ (Small => waiting[Of(r)] = Cardinality(C))
  BY <1>0, CountedFacts
<1>2. Counted(Of(r))' = D /\ r \notin C
  BY CountedAfter
<1> HIDE DEF C
<1>3. Cardinality(D) = Cardinality(C) + 1
  BY <1>1, <1>2, FS_AddElement
<1>4. n \in Nat /\ n <= Cardinality(D) /\ (Small => n = Cardinality(D))
  BY <1>1, <1>3
<1>5. waiting' = [waiting EXCEPT ![Of(r)] = n]
  OBVIOUS
<1> HIDE DEF D, n
<1> QED  BY <1>2, <1>4, <1>5, DemandMoved

\* One leaves: it was counted, or the queue was full and it leaves all the same.
LEMMA Leaves ==
  ASSUME FleetInv, NEW r \in Requests, Moves(r), Standing(r, thread'[r]), leave(Of(r)),
         ~Waits(thread'[r]), Small => Waits(thread[r])
  PROVE  DemandInv'
<1> DEFINE C == Counted(Of(r))  D == C \ {r}  w == waiting[Of(r)]  n == IF w = 0 THEN 0 ELSE w - 1
<1>0. Of(r) \in Deployments
  BY Wanted DEF Of
<1>1. /\ IsFiniteSet(C) /\ Cardinality(C) \in Nat /\ w \in Nat
      /\ w <= Cardinality(C) /\ (Small => w = Cardinality(C))
  BY <1>0, CountedFacts
<1>2. Counted(Of(r))' = D /\ (Small => r \in C)
  BY CountedAfter
<1>3. waiting' = [waiting EXCEPT ![Of(r)] = n]
  BY DEF leave
<1> HIDE DEF C, w
<1>4. n \in Nat /\ n <= Cardinality(D) /\ (Small => n = Cardinality(D))
  <2>1. CASE r \in C
    <3>1. Cardinality(D) = Cardinality(C) - 1 /\ Cardinality(D) \in Nat
      BY <1>1, <2>1, FS_RemoveElement, FS_CardinalityType
    <3> QED  BY <1>1, <3>1
  <2>2. CASE r \notin C
    <3>1. D = C
      BY <2>2
    <3> QED  BY <1>1, <1>2, <2>2, <3>1
  <2> QED  BY <2>1, <2>2
<1> HIDE DEF D, n
<1> QED  BY <1>2, <1>3, <1>4, DemandMoved

\* A step that is only about demand.
LEMMA Demanding ==
  ASSUME FleetInv, NEW a \in Requests, NEW t, Set(a, t), ThreadOK(a, t), Standing(a, t),
         t.claimed = thread[a].claimed, Place(thread[a]) \notin Leased,
         UNCHANGED <<scene, active, slots, stopping, in_flight>>,
         \/ waiting' = [waiting EXCEPT ![Of(a)] = @ + 1] /\ ~Waits(thread[a]) /\ Waits(t)
         \/ leave(Of(a)) /\ ~Waits(t) /\ (Small => Waits(thread[a]))
         \/ waiting' = waiting /\ t.counted = thread[a].counted /\ t.parked = thread[a].parked
  PROVE  FleetInv'
<1>0. a \in Actors
  BY DEF Actors
<1>1. Moves(a) /\ thread'[a] = t
  BY <1>0, SetMoves DEF FleetInv
<1>2. Steady(a) /\ Quiet(a)
  BY <1>0, <1>1, SteadyWhen DEF Quiet
<1>3. DemandInv'
  <2>1. CASE waiting' = [waiting EXCEPT ![Of(a)] = @ + 1] /\ ~Waits(thread[a]) /\ Waits(t)
    BY <1>1, <2>1, Joins
  <2>2. CASE leave(Of(a)) /\ ~Waits(t) /\ (Small => Waits(thread[a]))
    BY <1>1, <2>2, Leaves
  <2>3. CASE waiting' = waiting /\ t.counted = thread[a].counted /\ t.parked = thread[a].parked
    <3>1. Calm(a)
      BY <1>1, <2>3 DEF Calm
    <3> QED  BY <1>0, <1>1, <3>1, DemandKept
  <2> QED  BY <2>1, <2>2, <2>3
<1> QED  BY <1>0, <1>1, <1>2, <1>3, ShapeKept, LedgerKept, ClaimsKept DEF FleetInv

LEMMA AdmitKeeps ==
  ASSUME FleetInv, NEW a \in Requests, admit(a)
  PROVE  FleetInv'
<1> USE DEF ledger, queue, book, At
<1>0. /\ a \in Actors /\ thread[a].pc = "ask" /\ ~thread[a].parked
      /\ UNCHANGED <<scene, active, slots, stopping, in_flight>>
  BY DEF admit, Actors
<1>1. DOMAIN thread[a] = Fields /\ ThreadOK(a, thread[a]) /\ Standing(a, thread[a])
  BY <1>0, Thread
<1>2. /\ ~Waits(thread[a]) /\ ~thread[a].counted /\ Asks(a) /\ a \in scene.who /\ Place(thread[a]) \notin Leased
  BY <1>0, <1>1 DEF Waits, Standing, Place, Leased, Asking
<1>3. ASSUME NEW p \in {"gate", "unqueue"}, NEW q, NEW c \in BOOLEAN, NEW t,
             t = [thread[a] EXCEPT !.pc = p, !.queued = q, !.counted = c],
             p = "gate" => c, p = "unqueue" /\ Small => c
      PROVE  /\ ThreadOK(a, t) /\ Standing(a, t) /\ t.claimed = thread[a].claimed
             /\ t.counted = c /\ t.parked = thread[a].parked
  <2>1. /\ DOMAIN t = Fields /\ t.claimed = thread[a].claimed /\ t.todo = thread[a].todo
        /\ t.pc = p /\ t.then = thread[a].then /\ t.d = thread[a].d /\ t.victims = thread[a].victims
        /\ t.counted = c /\ t.parked = thread[a].parked
    BY <1>1, <1>3 DEF Fields
  <2>2. ThreadOK(a, t)
    BY <1>1, <2>1 DEF ThreadOK
  <2>3. Standing(a, t)
    BY <1>0, <1>2, <1>3, <2>1 DEF Standing, Place, Asking
  <2> QED  BY <2>1, <2>2, <2>3
<1>4. CASE /\ waiting[Of(a)] >= MAX_QUEUED_PER_CAPABILITY /\ waiting' = waiting
           /\ Set(a, [thread[a] EXCEPT !.pc = "unqueue", !.queued = FALSE])
  <2> DEFINE t == [thread[a] EXCEPT !.pc = "unqueue", !.queued = FALSE, !.counted = FALSE]
  <2>1. t = [thread[a] EXCEPT !.pc = "unqueue", !.queued = FALSE]
    BY <1>1, <1>2 DEF Fields, ThreadOK
  <2>2. ~Small
    BY <1>0, <1>2, <1>4, Full
  <2> HIDE DEF t
  <2>3. Set(a, t)
    BY <1>4, <2>1
  <2>4. ThreadOK(a, t) /\ Standing(a, t) /\ t.claimed = thread[a].claimed /\ t.counted = FALSE /\ t.parked = thread[a].parked
    BY <1>3, <2>2 DEF t
  <2>5. t.counted = thread[a].counted
    BY <1>1, <1>2, <2>4 DEF ThreadOK
  <2> QED  BY <1>0, <1>2, <1>4, <2>3, <2>4, <2>5, Demanding
<1>5. CASE /\ waiting' = [waiting EXCEPT ![Of(a)] = @ + 1]
           /\ Set(a, [thread[a] EXCEPT !.pc = "gate", !.counted = TRUE])
  <2> DEFINE t == [thread[a] EXCEPT !.pc = "gate", !.queued = thread[a].queued, !.counted = TRUE]
  <2>1. t = [thread[a] EXCEPT !.pc = "gate", !.counted = TRUE]
    BY <1>1 DEF Fields
  <2> HIDE DEF t
  <2>2. Set(a, t)
    BY <1>5, <2>1
  <2>3. ThreadOK(a, t) /\ Standing(a, t) /\ t.claimed = thread[a].claimed /\ t.counted = TRUE
    BY <1>3 DEF t
  <2> QED  BY <1>0, <1>2, <1>5, <2>2, <2>3, Demanding DEF Waits
<1>6. CASE /\ waiting' = [waiting EXCEPT ![Of(a)] = @ + 1]
           /\ Set(a, [thread[a] EXCEPT !.pc = "unqueue", !.queued = TRUE, !.counted = TRUE])
  <2> DEFINE t == [thread[a] EXCEPT !.pc = "unqueue", !.queued = TRUE, !.counted = TRUE]
  <2>2. Set(a, t)
    BY <1>6
  <2> HIDE DEF t
  <2>3. ThreadOK(a, t) /\ Standing(a, t) /\ t.claimed = thread[a].claimed /\ t.counted = TRUE
    BY <1>3 DEF t
  <2> QED  BY <1>0, <1>2, <1>6, <2>2, <2>3, Demanding DEF Waits
<1> QED  BY <1>4, <1>5, <1>6 DEF admit

\* A thread that asks for nothing yet, or no longer, and says why.
LEMMA ExcludeStays ==
  ASSUME FleetInv, NEW a \in Actors, NEW q, Exclude(a, q),
         thread[a].pc \in {"new", "ask", "gate", "ride", "enter"}, thread[a].parked \/ thread[a].pc # "gate"
  PROVE  \E t : Set(a, t) /\ (a \in Requests => Stays(a, t))
<1> DEFINE t == [thread[a] EXCEPT !.pc = "excluded", !.queued = q]
<1>0. Set(a, t)
  BY DEF Exclude
<1>1. /\ Like(t, thread[a]) /\ t.claimed = thread[a].claimed /\ t.todo = thread[a].todo
      /\ t.pc = "excluded" /\ t.then = thread[a].then
  BY Thread DEF Like, Fields
<1> HIDE DEF t
<1>2. a \in Requests /\ thread[a].counted => FALSE
  BY Thread DEF Standing, Place, Asking, Leased
<1>3. a \in Requests => Stays(a, t)
  BY <1>1, <1>2, LikeStays, AskingOn DEF Place, Leased
<1> QED  BY <1>0, <1>3

LEMMA PollKeeps ==
  ASSUME FleetInv, NEW a \in Requests, poll(a)
  PROVE  FleetInv'
<1> USE DEF ledger, queue, book, At
<1>0. /\ a \in Actors /\ thread[a].pc = "ask" /\ thread[a].parked
      /\ UNCHANGED <<scene, active, slots, waiting, stopping, in_flight>>
  BY DEF Actors, poll
<1>1. CASE Goto(a, "gate")
  <2> DEFINE t == [thread[a] EXCEPT !.pc = "gate"]
  <2>1. Set(a, t)
    BY <1>1 DEF Goto
  <2>2. DOMAIN thread[a] = Fields /\ ThreadOK(a, thread[a]) /\ Standing(a, thread[a])
    BY <1>0, Thread
  <2>3. /\ Like(t, thread[a]) /\ t.claimed = thread[a].claimed /\ t.todo = thread[a].todo
        /\ t.pc = "gate" /\ t.then = thread[a].then
    BY <2>2 DEF Like, Fields
  <2> HIDE DEF t
  <2>4. ThreadOK(a, t) /\ Standing(a, t) /\ Place(thread[a]) \notin Leased
    BY <1>0, <2>2, <2>3 DEF ThreadOK, Standing, Like, Place, Leased
  <2> QED  BY <1>0, <2>1, <2>3, <2>4, Demanding DEF Like
<1>2. CASE Exclude(a, TRUE)
  <2>1. PICK t : Set(a, t) /\ Stays(a, t)
    BY <1>0, <1>2, ExcludeStays
  <2> QED  BY <1>0, <2>1, Aside
<1> QED  BY <1>1, <1>2 DEF poll

LEMMA GatedKeeps ==
  ASSUME FleetInv, NEW a \in Requests, gated(a)
  PROVE  FleetInv'
<1> USE DEF ledger, queue, book, At
<1>0. /\ a \in Actors /\ thread[a].pc = "gate"
      /\ UNCHANGED <<scene, active, slots, waiting, stopping, in_flight>>
  BY DEF gated, Actors
<1>1. DOMAIN thread[a] = Fields /\ ThreadOK(a, thread[a]) /\ Standing(a, thread[a])
  BY <1>0, Thread
<1>2. CASE Goto(a, "spend")
  <2>1. PICK t : Set(a, t) /\ Stays(a, t)
    BY <1>0, <1>2, GotoStays DEF Leased, Asking
  <2> QED  BY <1>0, <2>1, Aside
<1>3. CASE Set(a, [thread[a] EXCEPT !.pc = IF thread[a].parked THEN "excluded" ELSE "unqueue", !.queued = TRUE])
  <2> DEFINE p == IF thread[a].parked THEN "excluded" ELSE "unqueue"
             t == [thread[a] EXCEPT !.pc = p, !.queued = TRUE]
  <2>1. Set(a, t)
    BY <1>3
  <2>2. p \in {"excluded", "unqueue"} /\ (p = "excluded" <=> thread[a].parked)
    OBVIOUS
  <2> HIDE DEF p
  <2>3. /\ Like(t, thread[a]) /\ t.claimed = thread[a].claimed /\ t.todo = thread[a].todo
        /\ t.pc = p /\ t.then = thread[a].then
    BY <1>1 DEF Like, Fields
  <2> HIDE DEF t
  <2>4. ThreadOK(a, t)
    BY <1>1, <2>2, <2>3 DEF ThreadOK, Like
  <2>5. Standing(a, t)
    BY <1>0, <1>1, <2>2, <2>3 DEF Standing, Like, Place, Asking
  <2>6. Place(thread[a]) \notin Leased
    BY <1>0 DEF Place, Leased
  <2> QED  BY <1>0, <2>1, <2>3, <2>4, <2>5, <2>6, Demanding DEF Like
<1> QED  BY <1>2, <1>3 DEF gated

LEMMA UnqueueKeeps ==
  ASSUME FleetInv, NEW a \in Requests, Unqueue(a)
  PROVE  FleetInv'
<1> USE DEF ledger, queue, book, At
<1>0. /\ a \in Actors /\ thread[a].pc = "unqueue" /\ leave(Of(a))
      /\ UNCHANGED <<scene, active, slots, stopping, in_flight>>
  BY DEF Unqueue, Actors
<1>1. DOMAIN thread[a] = Fields /\ ThreadOK(a, thread[a]) /\ Standing(a, thread[a])
  BY <1>0, Thread
<1> DEFINE t == [thread[a] EXCEPT !.pc = "excluded", !.counted = FALSE]
<1>2. Set(a, t)
  BY DEF Unqueue
<1>3. /\ DOMAIN t = Fields /\ t.d = thread[a].d /\ t.victims = thread[a].victims /\ t.todo = thread[a].todo
      /\ t.claimed = thread[a].claimed /\ t.counted = FALSE /\ t.parked = thread[a].parked
      /\ t.pc = "excluded" /\ t.then = thread[a].then
  BY <1>1 DEF Fields
<1> HIDE DEF t
<1>4. ThreadOK(a, t)
  BY <1>1, <1>3 DEF ThreadOK
<1>5. Standing(a, t) /\ ~Waits(t) /\ (Small => Waits(thread[a])) /\ Place(thread[a]) \notin Leased
  BY <1>0, <1>1, <1>3 DEF Standing, Waits, Place, Leased
<1> QED  BY <1>0, <1>2, <1>3, <1>4, <1>5, Demanding

LEMMA ParkKeeps ==
  ASSUME FleetInv, NEW a \in Requests, park(a)
  PROVE  FleetInv'
<1> USE DEF ledger, queue, book, At
<1>0. /\ a \in Actors /\ thread[a].pc = "excluded" /\ Asks(a) /\ ~thread[a].parked
      /\ UNCHANGED <<scene, active, slots, stopping, in_flight>>
  BY DEF park, Actors
<1>1. DOMAIN thread[a] = Fields /\ ThreadOK(a, thread[a]) /\ Standing(a, thread[a])
  BY <1>0, Thread
<1>2. ~Waits(thread[a]) /\ Place(thread[a]) \notin Leased
  BY <1>0, <1>1 DEF Standing, Waits, Place, Leased, Asking
<1>3. CASE Goto(a, "done") /\ waiting' = waiting
  <2>1. PICK t : Set(a, t) /\ Stays(a, t)
    BY <1>0, <1>3, GotoStays DEF Leased, Asking
  <2> QED  BY <1>0, <1>3, <2>1, Aside
<1>4. CASE /\ waiting' = [waiting EXCEPT ![Of(a)] = @ + 1]
           /\ Set(a, [thread[a] EXCEPT !.pc = "new", !.parked = TRUE])
  <2> DEFINE t == [thread[a] EXCEPT !.pc = "new", !.parked = TRUE]
  <2>1. Set(a, t)
    BY <1>4
  <2>2. /\ DOMAIN t = Fields /\ t.d = thread[a].d /\ t.victims = thread[a].victims /\ t.todo = thread[a].todo
        /\ t.claimed = thread[a].claimed /\ t.counted = thread[a].counted /\ t.parked = TRUE
        /\ t.pc = "new" /\ t.then = thread[a].then
    BY <1>1 DEF Fields
  <2> HIDE DEF t
  <2>3. ThreadOK(a, t)
    BY <1>1, <2>2 DEF ThreadOK
  <2>4. Standing(a, t) /\ Waits(t)
    BY <1>0, <1>1, <1>2, <2>2 DEF Standing, Waits
  <2> QED  BY <1>0, <1>2, <1>4, <2>1, <2>2, <2>3, <2>4, Demanding
<1> QED  BY <1>3, <1>4 DEF park

LEMMA UnparkKeeps ==
  ASSUME FleetInv, NEW a \in Requests, unpark(a)
  PROVE  FleetInv'
<1> USE DEF ledger, queue, book, At
<1>0. /\ a \in Actors /\ thread[a].pc \in {"unpark", "excluded"}
      /\ UNCHANGED <<scene, active, slots, stopping, in_flight>>
      /\ IF thread[a].parked THEN leave(Of(a)) ELSE waiting' = waiting
  BY DEF unpark, Again, Actors
<1>1. DOMAIN thread[a] = Fields /\ ThreadOK(a, thread[a]) /\ Standing(a, thread[a])
  BY <1>0, Thread
<1> DEFINE t == [thread[a] EXCEPT !.pc = "done", !.parked = FALSE]
<1>2. Set(a, t)
  BY DEF unpark
<1>3. /\ DOMAIN t = Fields /\ t.d = thread[a].d /\ t.victims = thread[a].victims /\ t.todo = thread[a].todo
      /\ t.claimed = thread[a].claimed /\ t.counted = thread[a].counted /\ t.parked = FALSE
      /\ t.pc = "done" /\ t.then = thread[a].then
  BY <1>1 DEF Fields
<1> HIDE DEF t
<1>4. ThreadOK(a, t)
  BY <1>1, <1>3 DEF ThreadOK
<1>5. ~thread[a].counted /\ Place(thread[a]) \notin Leased
  BY <1>0, <1>1 DEF Standing, Place, Leased, Asking
<1>6. Standing(a, t) /\ ~Waits(t)
  BY <1>3, <1>5 DEF Standing, Waits
<1>7. CASE thread[a].parked
  BY <1>0, <1>2, <1>3, <1>4, <1>5, <1>6, <1>7, Demanding DEF Waits
<1>8. CASE ~thread[a].parked
  <2>1. t.parked = thread[a].parked
    BY <1>1, <1>3, <1>8 DEF ThreadOK
  <2> QED  BY <1>0, <1>2, <1>3, <1>4, <1>5, <1>6, <1>8, <2>1, Demanding
<1> QED  BY <1>7, <1>8

LEMMA ReturnedKeeps ==
  ASSUME FleetInv, NEW a \in Actors, Returned(a)
  PROVE  FleetInv'
<1> USE DEF ledger, queue, book, At
<1>0. /\ thread[a].pc = "returned" /\ UNCHANGED <<scene, active, slots, stopping, in_flight>>
      /\ IF Asks(a) /\ thread[a].counted THEN leave(Of(a)) ELSE waiting' = waiting
  BY DEF Returned
<1>1. DOMAIN thread[a] = Fields /\ ThreadOK(a, thread[a]) /\ (a \in Requests => Standing(a, thread[a]))
  BY Thread
<1> DEFINE d == IF a = house THEN "none" ELSE thread[a].d
           p == CASE a = house -> "tick" [] a \in Operators -> "done"
                   [] OTHER -> IF thread[a].ok THEN "enter" ELSE "excluded"
           t == [thread[a] EXCEPT !.counted = FALSE, !.victims = {}, !.d = d, !.pc = p]
<1>2. Set(a, t)
  BY DEF Returned
<1>3. (a \in Requests => d = thread[a].d) /\ p \in {"tick", "done", "enter", "excluded"}
  BY ActorAssumption
<1> HIDE DEF d, p
<1>4. /\ DOMAIN t = Fields /\ t.d = d /\ t.victims = {} /\ t.todo = thread[a].todo
      /\ t.claimed = thread[a].claimed /\ t.counted = FALSE /\ t.parked = thread[a].parked
      /\ t.pc = p /\ t.then = thread[a].then
  BY <1>1 DEF Fields
<1> HIDE DEF t
<1>5. ThreadOK(a, t)
  BY <1>1, <1>3, <1>4 DEF ThreadOK
<1>6. Place(thread[a]) \notin Leased
  BY <1>0 DEF Place, Leased
<1>7. CASE a \in Requests
  <2>1. Standing(a, t)
    BY <1>0, <1>1, <1>3, <1>4, <1>7 DEF Standing
  <2>2. CASE thread[a].counted
    <3>1. Asks(a) /\ ~Waits(t) /\ Waits(thread[a])
      BY <1>1, <1>4, <1>7, <2>2 DEF Standing, Waits
    <3> QED  BY <1>0, <1>2, <1>4, <1>5, <1>6, <1>7, <2>1, <2>2, <3>1, Demanding
  <2>3. CASE ~thread[a].counted
    <3>1. t.counted = thread[a].counted
      BY <1>1, <1>4, <2>3 DEF ThreadOK
    <3> QED  BY <1>0, <1>2, <1>4, <1>5, <1>6, <1>7, <2>1, <2>3, <3>1, Demanding
  <2> QED  BY <2>2, <2>3
<1>8. CASE a \notin Requests
  <2>1. waiting' = waiting
    BY <1>0, <1>8 DEF Asks
  <2>2. Moves(a) /\ thread'[a] = t
    BY <1>0, <1>2, <1>5, SetMoves DEF FleetInv
  <2>3. Steady(a) /\ Quiet(a) /\ Calm(a)
    BY <1>0, <1>4, <1>6, <1>8, <2>1, <2>2, SteadyWhen DEF Quiet, Calm
  <2> QED  BY <2>2, <2>3, StepKeeps
<1> QED  BY <1>7, <1>8

-----------------------------------------------------------------------------
(* A request's way *)

LEMMA RouteKeeps ==
  ASSUME FleetInv, NEW a \in Requests, Route(a)
  PROVE  FleetInv'
<1> USE DEF ledger, queue, book, At
<1>0. /\ a \in Actors /\ thread[a].pc = "new"
      /\ UNCHANGED <<scene, active, slots, waiting, stopping, in_flight>>
  BY DEF Route, Actors
<1>1. DOMAIN thread[a] = Fields /\ ThreadOK(a, thread[a]) /\ Standing(a, thread[a])
  BY <1>0, Thread
<1>2. ~thread[a].counted /\ Place(thread[a]) \notin Leased
  BY <1>0, <1>1 DEF Standing, Place, Leased, Asking
<1>3. ASSUME NEW p \in {"enter", "ride", "done"}, Goto(a, p) PROVE FleetInv'
  <2>1. PICK t : Set(a, t) /\ Stays(a, t)
    BY <1>0, <1>3, GotoStays DEF Leased, Asking
  <2> QED  BY <1>0, <2>1, Aside
<1>4. CASE Exclude(a, FALSE)
  <2>1. PICK t : Set(a, t) /\ Stays(a, t)
    BY <1>0, <1>4, ExcludeStays
  <2> QED  BY <1>0, <2>1, Aside
<1>5. ASSUME NEW V \in SUBSET Deployments,
             Set(a, [thread[a] EXCEPT !.victims = V, !.pc = IF Asks(a) THEN "ask" ELSE "spend"])
      PROVE  FleetInv'
  <2> DEFINE p == IF Asks(a) THEN "ask" ELSE "spend"
             t == [thread[a] EXCEPT !.victims = V, !.pc = p]
  <2>1. Set(a, t) /\ p \in {"ask", "spend"} /\ (p = "ask" => Asks(a))
    BY <1>5
  <2> HIDE DEF p
  <2>2. /\ DOMAIN t = Fields /\ t.d = thread[a].d /\ t.victims = V /\ t.todo = thread[a].todo
        /\ t.claimed = thread[a].claimed /\ t.counted = thread[a].counted /\ t.parked = thread[a].parked
        /\ t.pc = p /\ t.then = thread[a].then
    BY <1>1 DEF Fields
  <2> HIDE DEF t
  <2>3. ThreadOK(a, t)
    BY <1>1, <2>1, <2>2 DEF ThreadOK
  <2>4. Standing(a, t)
    BY <1>0, <1>1, <1>2, <2>1, <2>2 DEF Standing
  <2> QED  BY <1>0, <1>2, <2>1, <2>2, <2>3, <2>4, Demanding
<1>6. \A s, d : EvictionSets(s, d) \subseteq SUBSET Deployments
  BY DEF EvictionSets
<1> QED  BY <1>3, <1>4, <1>5, <1>6 DEF Route

LEMMA AwaitReadyKeeps ==
  ASSUME FleetInv, NEW a \in Requests, await_ready(a)
  PROVE  FleetInv'
<1> USE DEF ledger, queue, book, At
<1>0. a \in Actors
  BY DEF Actors
<1>1. PICK t : Set(a, t) /\ Stays(a, t)
  <2>1. CASE Goto(a, "enter")
    BY <1>0, <2>1, GotoStays DEF await_ready, Leased, Asking
  <2>2. CASE Exclude(a, FALSE)
    BY <1>0, <2>2, ExcludeStays DEF await_ready
  <2> QED  BY <2>1, <2>2 DEF await_ready
<1> QED  BY <1>0, <1>1, Aside DEF await_ready

LEMMA RoundKeeps ==
  ASSUME FleetInv, NEW a \in Requests, Round(a)
  PROVE  FleetInv'
<1> USE DEF ledger, queue, book, At
<1>0. a \in Actors /\ thread[a].pc = "excluded"
  BY DEF Round, Again, Actors
<1> DEFINE t == [thread[a] EXCEPT !.pc = "new", !.rounds = thread[a].rounds + 1]
<1>1. Set(a, t)
  BY DEF Round
<1>2. /\ Like(t, thread[a]) /\ t.claimed = thread[a].claimed /\ t.todo = thread[a].todo
      /\ t.pc = "new" /\ t.then = thread[a].then
  BY <1>0, Thread DEF Like, Fields
<1> HIDE DEF t
<1>3. ~thread[a].counted
  BY <1>0, Thread DEF Standing, Place, Asking, Leased
<1>4. Stays(a, t)
  BY <1>0, <1>2, <1>3, LikeStays, AskingOn DEF Place, Leased
<1> QED  BY <1>0, <1>1, <1>4, Aside DEF Round

\* A dispatch is counted only for a deployment nobody has claimed.
LEMMA EnterDispatchKeeps ==
  ASSUME FleetInv, NEW a \in Requests, enter_dispatch(a)
  PROVE  FleetInv'
<1> USE DEF ledger, queue, book, At
<1>0. /\ a \in Actors /\ thread[a].pc = "enter"
      /\ UNCHANGED <<scene, active, slots, waiting, stopping>>
  BY DEF enter_dispatch, Actors
<1>1. CASE Exclude(a, TRUE) /\ in_flight' = in_flight
  <2>1. PICK t : Set(a, t) /\ Stays(a, t)
    BY <1>0, <1>1, ExcludeStays
  <2> QED  BY <1>0, <1>1, <2>1, Aside
<1>2. CASE Of(a) \notin stopping /\ in_flight' = [in_flight EXCEPT ![Of(a)] = @ + 1] /\ Goto(a, "serve")
  <2>1. PICK t : Set(a, t) /\ Stays(a, t)
    BY <1>0, <1>2, GotoStays DEF Leased, Asking
  <2>2. Moves(a) /\ thread'[a] = t /\ Calm(a)
    BY <1>0, <2>1, StaysMoves
  <2>3. Steady(a)
    BY <1>0, <2>1, <2>2, SteadyWhen DEF Stays
  <2>4. ClaimsInv'
    <3>1. in_flight' \in [Deployments -> Nat] /\ \A d \in stopping : in_flight'[d] = in_flight[d]
      BY <1>2, Wanted DEF FleetInv, ClaimsInv, Of
    <3>2. \A b \in Actors : thread'[b].claimed \subseteq thread[b].claimed
      BY <2>1, <2>2 DEF Stays, Moves
    <3>3. ClaimsHeld'
      BY <1>0, <3>1, <3>2 DEF FleetInv, ClaimsInv, ClaimsHeld
    <3> QED  BY <1>0, <3>1, <3>3 DEF FleetInv, ClaimsInv
  <2> QED  BY <1>0, <2>2, <2>3, <2>4, ShapeKept, LedgerKept, DemandKept DEF FleetInv
<1> QED  BY <1>1, <1>2 DEF enter_dispatch

LEMMA LeaveDispatchKeeps ==
  ASSUME FleetInv, NEW a \in Requests, leave_dispatch(a)
  PROVE  FleetInv'
<1> USE DEF ledger, queue, book, At
<1>0. /\ a \in Actors /\ thread[a].pc = "serve" /\ Goto(a, "unpark")
      /\ in_flight' = [in_flight EXCEPT ![Of(a)] = IF @ = 0 THEN 0 ELSE @ - 1]
      /\ UNCHANGED <<scene, active, slots, waiting, stopping>>
  BY DEF leave_dispatch, Actors
<1>1. PICK t : Set(a, t) /\ Stays(a, t)
  BY <1>0, GotoStays DEF Leased, Asking
<1>2. Moves(a) /\ thread'[a] = t /\ Calm(a)
  BY <1>0, <1>1, StaysMoves
<1>3. Steady(a)
  BY <1>0, <1>1, <1>2, SteadyWhen DEF Stays
<1>4. ClaimsInv'
  <2>1. in_flight' \in [Deployments -> Nat] /\ \A d \in Deployments : in_flight[d] = 0 => in_flight'[d] = 0
    <3> DEFINE w == in_flight[Of(a)]  n == IF w = 0 THEN 0 ELSE w - 1
    <3>1. Of(a) \in Deployments /\ in_flight \in [Deployments -> Nat]
      BY Wanted DEF Of, FleetInv, ClaimsInv
    <3>2. w \in Nat
      BY <3>1
    <3>3. n \in Nat /\ (w = 0 => n = 0)
      BY <3>2
    <3>4. in_flight' = [in_flight EXCEPT ![Of(a)] = n]
      BY <1>0
    <3> HIDE DEF n
    <3> QED  BY <3>1, <3>3, <3>4
  <2>2. \A b \in Actors : thread'[b].claimed \subseteq thread[b].claimed
    BY <1>1, <1>2 DEF Stays, Moves
  <2>3. ClaimsHeld'
    BY <1>0, <2>1, <2>2 DEF FleetInv, ClaimsInv, ClaimsHeld
  <2> QED  BY <1>0, <2>1, <2>3 DEF FleetInv, ClaimsInv
<1> QED  BY <1>0, <1>2, <1>3, <1>4, ShapeKept, LedgerKept, DemandKept DEF FleetInv

-----------------------------------------------------------------------------
(* Stops *)

LEMMA DeactivateKeeps ==
  ASSUME FleetInv, NEW a \in Actors, Deactivate(a)
  PROVE  FleetInv'
<1> USE DEF ledger, queue, book, At
<1>0. ASSUME NEW p \in {"stop", "stopped", "close"}, Goto(a, p), thread[a].pc \in {"lease", "down"}
      PROVE  \E t : Set(a, t) /\ Stays(a, t)
  BY <1>0, GotoStays DEF Leased, Asking
<1>1. ASSUME NEW p \in {"down", "close"}, NEW ok, Set(a, [thread[a] EXCEPT !.pc = p, !.ok = ok]),
             thread[a].pc \in {"stop", "down"}
      PROVE  \E t : Set(a, t) /\ Stays(a, t)
  <2> DEFINE t == [thread[a] EXCEPT !.pc = p, !.ok = ok]
  <2>1. /\ Like(t, thread[a]) /\ t.claimed = thread[a].claimed /\ t.todo = thread[a].todo
        /\ t.pc = p /\ t.then = thread[a].then
    BY Thread DEF Like, Fields
  <2>2. Set(a, t)
    BY <1>1
  <2> HIDE DEF t
  <2>3. Stays(a, t)
    BY <1>1, <2>1, LikeStays, AskingOn DEF Place, Leased, Asking
  <2> QED  BY <2>2, <2>3
<1>2. CASE AppendStop(a)
  <2>1. PICK t : Set(a, t) /\ Stays(a, t)
    BY <1>0, <1>2 DEF AppendStop
  <2> QED  BY <1>2, <2>1, Aside DEF AppendStop
<1>3. CASE CallStop(a)
  <2>1. PICK t : Set(a, t) /\ Stays(a, t)
    BY <1>1, <1>3 DEF CallStop
  <2> QED  BY <1>3, <2>1, Aside DEF CallStop
<1>4. CASE AwaitDown(a)
  <2>1. PICK t : Set(a, t) /\ Stays(a, t)
    BY <1>0, <1>1, <1>4 DEF AwaitDown
  <2> QED  BY <1>4, <2>1, Aside DEF AwaitDown
<1>5. CASE CloseStop(a)
  <2> DEFINE p == IF thread[a].ok THEN "look" ELSE "stopped"
             n == IF thread[a].ok THEN "stopped" ELSE "none"
             t == [thread[a] EXCEPT !.pc = p, !.then = n]
  <2>1. Set(a, t)
    BY <1>5 DEF CloseStop
  <2>2. p \in {"look", "stopped"} /\ n \in {"stopped", "none"} /\ (p = "look" => n = "stopped")
    OBVIOUS
  <2> HIDE DEF p, n
  <2>3. /\ Like(t, thread[a]) /\ t.claimed = thread[a].claimed /\ t.todo = thread[a].todo
        /\ t.pc = p /\ t.then = n
    BY Thread DEF Like, Fields
  <2> HIDE DEF t
  <2>4. Stays(a, t)
    BY <1>5, <2>2, <2>3, LikeStays, AskingOn DEF CloseStop, Place, Leased, Asking
  <2> QED  BY <1>5, <2>1, <2>4, Aside DEF CloseStop
<1>6. CASE Stopped(a)
  BY <1>6, StoppedKeeps
<1> QED  BY <1>2, <1>3, <1>4, <1>5, <1>6 DEF Deactivate

-----------------------------------------------------------------------------
(* Housekeeping *)

\* A step of the housekeeping thread that takes nothing.
LEMMA HouseAside ==
  ASSUME FleetInv, NEW t, Set(house, t), DOMAIN t = Fields,
         t.victims = thread[house].victims, t.todo = thread[house].todo, t.claimed = thread[house].claimed,
         t.counted = thread[house].counted, t.parked = thread[house].parked,
         t.then \in {"none", "confirm", "stopped", "expire"}, t.pc = "idle_claim" => t.d \in Deployments,
         Place(thread[house]) \notin Leased,
         UNCHANGED <<scene, active, slots, waiting, stopping, in_flight>>
  PROVE  FleetInv'
<1>0. house \in Actors /\ house \notin Requests
  BY ActorAssumption DEF Actors
<1>1. ThreadOK(house, t)
  BY <1>0, Thread DEF ThreadOK
<1>2. Stays(house, t)
  BY <1>0, <1>1 DEF Stays
<1> QED  BY <1>0, <1>2, Aside

LEMMA HouseGoto ==
  ASSUME FleetInv, NEW p, Goto(house, p), p # "idle_claim", Place(thread[house]) \notin Leased,
         UNCHANGED <<scene, active, slots, waiting, stopping, in_flight>>
  PROVE  FleetInv'
<1>0. house \in Actors
  BY DEF Actors
<1>1. DOMAIN thread[house] = Fields /\ ThreadOK(house, thread[house])
  BY <1>0, Thread
<1> DEFINE t == [thread[house] EXCEPT !.pc = p]
<1>2. Set(house, t)
  BY DEF Goto
<1>3. /\ DOMAIN t = Fields /\ t.victims = thread[house].victims /\ t.todo = thread[house].todo
      /\ t.claimed = thread[house].claimed /\ t.counted = thread[house].counted
      /\ t.parked = thread[house].parked /\ t.then = thread[house].then /\ t.pc = p
  BY <1>1 DEF Fields
<1> HIDE DEF t
<1> QED  BY <1>1, <1>2, <1>3, HouseAside DEF ThreadOK

LEMMA TickKeeps ==
  ASSUME FleetInv, Tick
  PROVE  FleetInv'
<1> USE DEF ledger, queue, book, At
<1>0. house \in Actors /\ Place(thread[house]) \notin Leased
  BY DEF Actors, Tick, Place, Leased
<1> DEFINE t == [thread[house] EXCEPT !.pc = "look", !.then = "expire", !.rounds = thread[house].rounds + 1]
<1>1. Set(house, t)
  BY DEF Tick
<1>2. /\ DOMAIN t = Fields /\ t.victims = thread[house].victims /\ t.todo = thread[house].todo
      /\ t.claimed = thread[house].claimed /\ t.counted = thread[house].counted
      /\ t.parked = thread[house].parked /\ t.then = "expire" /\ t.pc = "look"
  BY <1>0, Thread DEF Fields
<1> HIDE DEF t
<1> QED  BY <1>0, <1>1, <1>2, HouseAside DEF Tick

\* The lease that expires is another thread's, which goes on without it.
LEMMA ExpireKeeps ==
  ASSUME FleetInv, expire_leases
  PROVE  FleetInv'
<1> USE DEF ledger, queue, book, At
<1>0. /\ house \in Actors /\ house \notin Requests /\ Goto(house, "idle") /\ Place(thread[house]) \notin Leased
      /\ UNCHANGED <<scene, waiting, stopping, in_flight>>
  BY ActorAssumption DEF Actors, expire_leases, Place, Leased
<1>1. CASE UNCHANGED <<active, slots>>
  BY <1>0, <1>1, HouseGoto
<1>2. ASSUME NEW r \in active, release(r.by) PROVE FleetInv'
  <2>1. PICK t : Set(house, t) /\ Stays(house, t)
    BY <1>0, GotoStays DEF Leased, Asking, expire_leases
  <2>2. Moves(house) /\ thread'[house] = t /\ Quiet(house) /\ Calm(house)
    BY <1>0, <2>1, StaysMoves
  <2>3. r.by \in Actors
    BY DEF FleetInv, LedgerInv, IsLease
  <2>4. LedgerInv'
    BY <1>0, <1>2, <2>2, <2>3, Released
  <2> QED  BY <1>0, <2>2, <2>4, ShapeKept, ClaimsKept, DemandKept DEF FleetInv
<1> QED  BY <1>1, <1>2 DEF expire_leases

LEMMA PickIdleKeeps ==
  ASSUME FleetInv, PickIdle
  PROVE  FleetInv'
<1> USE DEF ledger, queue, book, At
<1>0. /\ house \in Actors /\ Place(thread[house]) \notin Leased
      /\ UNCHANGED <<scene, active, slots, waiting, stopping, in_flight>>
  BY DEF Actors, PickIdle, Place, Leased
<1>1. CASE Goto(house, "prewarm")
  BY <1>0, <1>1, HouseGoto
<1>2. ASSUME NEW d \in Deployments, Set(house, [thread[house] EXCEPT !.pc = "idle_claim", !.d = d])
      PROVE  FleetInv'
  <2>0. DOMAIN thread[house] = Fields /\ ThreadOK(house, thread[house])
    BY <1>0, Thread
  <2> DEFINE t == [thread[house] EXCEPT !.pc = "idle_claim", !.d = d]
  <2>1. /\ DOMAIN t = Fields /\ t.victims = thread[house].victims /\ t.todo = thread[house].todo
        /\ t.claimed = thread[house].claimed /\ t.counted = thread[house].counted
        /\ t.parked = thread[house].parked /\ t.then = thread[house].then /\ t.d = d
    BY <2>0 DEF Fields
  <2>2. Set(house, t)
    BY <1>2
  <2> HIDE DEF t
  <2> QED  BY <1>0, <2>0, <2>1, <2>2, HouseAside DEF ThreadOK
<1> QED  BY <1>1, <1>2 DEF PickIdle

LEMMA ClaimIdleKeeps ==
  ASSUME FleetInv, ClaimIdle
  PROVE  FleetInv'
<1> USE DEF ledger, queue, book, At
<1>0. /\ house \in Actors /\ house \notin Requests
      /\ thread[house].pc = "idle_claim" /\ Place(thread[house]) \notin Leased
      /\ UNCHANGED <<scene, active, slots, waiting, in_flight>>
  BY ActorAssumption DEF Actors, ClaimIdle, Place, Leased
<1>1. DOMAIN thread[house] = Fields /\ ThreadOK(house, thread[house]) /\ Of(house) \in Deployments
  BY <1>0, Thread DEF ThreadOK, Of
<1>2. CASE /\ stopping' = stopping
           /\ Set(house, [thread[house] EXCEPT !.d = "none", !.pc = "prewarm"])
  <2> DEFINE t == [thread[house] EXCEPT !.d = "none", !.pc = "prewarm"]
  <2>1. /\ DOMAIN t = Fields /\ t.victims = thread[house].victims /\ t.todo = thread[house].todo
        /\ t.claimed = thread[house].claimed /\ t.counted = thread[house].counted
        /\ t.parked = thread[house].parked /\ t.then = thread[house].then /\ t.pc = "prewarm"
    BY <1>1 DEF Fields
  <2>2. Set(house, t)
    BY <1>2
  <2> HIDE DEF t
  <2> QED  BY <1>0, <1>1, <1>2, <2>1, <2>2, HouseAside DEF ThreadOK
<1>3. CASE /\ in_flight[Of(house)] = 0 /\ Of(house) \notin stopping /\ stopping' = stopping \cup {Of(house)}
           /\ Set(house, [thread[house] EXCEPT !.claimed = {Of(house)}, !.pc = "idle_recheck"])
  <2> DEFINE t == [thread[house] EXCEPT !.claimed = {Of(house)}, !.pc = "idle_recheck"]
  <2>1. /\ DOMAIN t = Fields /\ t.victims = thread[house].victims /\ t.todo = thread[house].todo
        /\ t.claimed = {Of(house)} /\ t.counted = thread[house].counted
        /\ t.parked = thread[house].parked /\ t.then = thread[house].then /\ t.pc = "idle_recheck"
    BY <1>1 DEF Fields
  <2>2. Set(house, t)
    BY <1>3
  <2> HIDE DEF t
  <2>3. ThreadOK(house, t)
    BY <1>0, <1>1, <2>1 DEF ThreadOK
  <2>4. Moves(house) /\ thread'[house] = t
    BY <1>0, <2>2, <2>3, SetMoves DEF FleetInv
  <2>5. Steady(house) /\ Calm(house)
    BY <1>0, <2>4, SteadyWhen DEF Calm
  <2>6. ClaimsInv'
    BY <1>0, <1>1, <1>3, <2>1, <2>4, Claimed
  <2> QED  BY <1>0, <2>4, <2>5, <2>6, ShapeKept, LedgerKept, DemandKept DEF FleetInv
<1> QED  BY <1>2, <1>3 DEF ClaimIdle

LEMMA RecheckIdleKeeps ==
  ASSUME FleetInv, RecheckIdle
  PROVE  FleetInv'
<1> USE DEF ledger, queue, book, At
<1>0. Place(thread[house]) \notin Leased
  BY DEF RecheckIdle, Place, Leased
<1> QED  BY <1>0, HouseGoto DEF RecheckIdle

LEMMA PrewarmKeeps ==
  ASSUME FleetInv, prewarm
  PROVE  FleetInv'
<1> USE DEF ledger, queue, book, At
<1>0. /\ house \in Actors /\ Place(thread[house]) \notin Leased
      /\ UNCHANGED <<scene, active, slots, waiting, stopping, in_flight>>
  BY DEF Actors, prewarm, Place, Leased
<1>1. CASE Goto(house, "tick")
  BY <1>0, <1>1, HouseGoto
<1>2. ASSUME NEW d \in Deployments, Set(house, [thread[house] EXCEPT !.pc = "spend", !.d = d])
      PROVE  FleetInv'
  <2>0. DOMAIN thread[house] = Fields /\ ThreadOK(house, thread[house])
    BY <1>0, Thread
  <2> DEFINE t == [thread[house] EXCEPT !.pc = "spend", !.d = d]
  <2>1. /\ DOMAIN t = Fields /\ t.victims = thread[house].victims /\ t.todo = thread[house].todo
        /\ t.claimed = thread[house].claimed /\ t.counted = thread[house].counted
        /\ t.parked = thread[house].parked /\ t.then = thread[house].then /\ t.d = d
    BY <2>0 DEF Fields
  <2>2. Set(house, t)
    BY <1>2
  <2> HIDE DEF t
  <2> QED  BY <1>0, <2>0, <2>1, <2>2, HouseAside DEF ThreadOK
<1> QED  BY <1>1, <1>2 DEF prewarm

-----------------------------------------------------------------------------
(* The theorem *)

LEMMA FleetAtFirst == Init => FleetInv
<1> SUFFICES ASSUME Init PROVE FleetInv
  OBVIOUS
<1>0. scene \in SceneType
  BY SceneAssumption DEF Init
<1>1. /\ DOMAIN Fresh = Fields /\ Fresh.victims = {} /\ Fresh.claimed = {} /\ Fresh.todo = {}
      /\ Fresh.counted = FALSE /\ Fresh.parked = FALSE /\ Fresh.then = "none"
  BY DEF Fresh, Fields
<1>2. ASSUME NEW a \in Actors
      PROVE  /\ DOMAIN thread[a] = Fields /\ thread[a].victims = {} /\ thread[a].claimed = {} /\ thread[a].todo = {}
             /\ thread[a].counted = FALSE /\ thread[a].parked = FALSE /\ thread[a].then = "none"
             /\ thread[a].pc \in {"tick", "done", "lease", "new"}
             /\ a \in Requests => thread[a].d = scene.wants[a] /\ (a \notin scene.who => thread[a].pc = "done")
  <2>1. CASE a = house
    <3>1. thread[a] = [Fresh EXCEPT !.pc = "tick"]
      BY <2>1 DEF Init
    <3> QED  BY <1>1, <2>1, <3>1, ActorAssumption DEF Fields
  <2>2. CASE a # house
    <3> DEFINE p == IF a \notin scene.who THEN "done" ELSE IF a \in scene.stops THEN "lease" ELSE "new"
    <3>1. thread[a] = [Fresh EXCEPT !.d = scene.wants[a], !.pc = p]
      BY <2>2 DEF Init
    <3>2. p \in {"done", "lease", "new"} /\ (a \notin scene.who => p = "done")
      OBVIOUS
    <3> HIDE DEF p
    <3> QED  BY <1>1, <3>1, <3>2 DEF Fields
  <2> QED  BY <2>1, <2>2
<1>3. Shape
  <2>1. DOMAIN thread = Actors
    BY DEF Init
  <2> QED  BY <1>0, <1>2, <2>1 DEF Shape, ThreadOK
<1>4. LedgerInv
  <2>1. active = {} /\ slots = 0
    BY DEF Init
  <2>2. scene.max_concurrent_activations \in Nat
    BY <1>0 DEF SceneType
  <2> QED  BY <2>1, <2>2, FS_EmptySet DEF LedgerInv, LedgerExact, OneEach
<1>5. ClaimsInv
  <2>1. in_flight = [d \in Deployments |-> 0] /\ stopping = {}
    BY DEF Init
  <2> QED  BY <1>2, <2>1 DEF ClaimsInv, ClaimsHeld
<1>6. DemandInv
  <2>1. waiting = [d \in Deployments |-> 0]
    BY DEF Init
  <2>2. ASSUME NEW r \in Requests PROVE Standing(r, thread[r])
    <3>1. r \in Actors
      BY DEF Actors
    <3> QED  BY <1>2, <3>1 DEF Standing
  <2>3. ASSUME NEW d \in Deployments PROVE Counted(d) = {}
    BY <1>2 DEF Counted, Actors
  <2> QED  BY <2>1, <2>2, <2>3, FS_EmptySet DEF DemandInv, DemandExact
<1> QED  BY <1>3, <1>4, <1>5, <1>6 DEF FleetInv

LEMMA NothingKept ==
  ASSUME FleetInv, UNCHANGED <<scene, thread, active, slots, waiting, in_flight, stopping>>
  PROVE  FleetInv'
<1>1. house \in Actors
  BY DEF Actors
<1>2. Moves(house)
  BY <1>1 DEF Moves, FleetInv, Shape
<1>3. Steady(house)
  BY <1>1, SteadyWhen
<1>4. Quiet(house) /\ Calm(house)
  BY <1>1, Thread DEF Quiet, Calm
<1> QED  BY <1>1, <1>2, <1>3, <1>4, StepKeeps

LEMMA FleetNextKeeps ==
  ASSUME FleetInv, [Next]_vars
  PROVE  FleetInv'
<1>1. ASSUME NEW a \in Actors, StepOf(a) PROVE FleetInv'
  <2>1. CASE Observe(a)
    BY <2>1, ObserveKeeps
  <2>2. CASE Execute(a)
    BY <2>2, SpendKeeps, CommitKeeps, ClaimKeeps, AppendLeaseKeeps, EvictKeeps, AwaitStopKeeps, StartKeeps,
       AwaitStartKeeps, ConfirmKeeps, RollbackKeeps, FinishKeeps, UnclaimKeeps, SettleKeeps, ReturnedKeeps
       DEF Execute
  <2>3. CASE Deactivate(a)
    BY <2>3, DeactivateKeeps
  <2> QED  BY <1>1, <2>1, <2>2, <2>3 DEF StepOf
<1>2. ASSUME NEW r \in Requests, Serve(r) PROVE FleetInv'
  BY <1>2, RouteKeeps, AdmitKeeps, PollKeeps, GatedKeeps, UnqueueKeeps, AwaitReadyKeeps,
     EnterDispatchKeeps, LeaveDispatchKeeps, ParkKeeps, RoundKeeps, UnparkKeeps DEF Serve
<1>3. CASE Housekeep
  BY <1>3, TickKeeps, ExpireKeeps, PickIdleKeeps, ClaimIdleKeeps, RecheckIdleKeeps, PrewarmKeeps DEF Housekeep
<1>4. ASSUME NEW d \in Deployments, Agent(d) PROVE FleetInv'
  BY <1>4, NothingKept DEF Agent, ledger, queue, book
<1>5. CASE UNCHANGED vars
  BY <1>5, NothingKept DEF vars, ledger, queue, book
<1> QED  BY <1>1, <1>2, <1>3, <1>4, <1>5 DEF Next

(***************************************************************************)
(* The inductive invariant: a lease is held only between its plan's commit *)
(* and finish, one to a thread; a claim is one thread's own; who is        *)
(* counted is between its admission and its return, or parked.             *)
(***************************************************************************)
THEOREM FleetInvariant == Spec => []FleetInv
<1>1. FleetInv /\ [Next]_vars => FleetInv'
  BY FleetNextKeeps
<1> QED  BY <1>1, FleetAtFirst, PTL DEF Spec

(***************************************************************************)
(* ensure_ready, expire_leases, claim_for_stop, ActivationQueue: for any   *)
(* deployments, requests, operators and faults, the host's slots are the   *)
(* leases held and within its limit, no two leases touch one deployment, a *)
(* claimed deployment carries no dispatch and is one claimant's, and the   *)
(* queue's demand is the requests that wait, or less where its bound has   *)
(* refused one.                                                            *)
(***************************************************************************)
THEOREM FleetBooksAgree == Spec => []BooksAgree
<1>1. FleetInv => BooksAgree
  BY DEF FleetInv, LedgerInv, ClaimsInv, DemandInv, BooksAgree
<1> QED  BY <1>1, FleetInvariant, PTL
=============================================================================
