--------------------------- MODULE AdmissionQueue ---------------------------
(***************************************************************************)
(* Admission through a chain of concurrency scopes, and the fair waiting   *)
(* line of a scope at its limit (crates/hypellm-core/src/admission.rs,     *)
(* Scope and AdmissionController::reserve_queued_as).                      *)
(*                                                                         *)
(* Each request is a thread.  The slot counter is an atomic; the line is   *)
(* behind the scope's mutex, which only wait_for_turn keeps over more than *)
(* one step; a condition variable wakes the waiters.  Rate buckets and     *)
(* spend budgets are abstracted to a refusal that may come at any time,    *)
(* the memory of the target's machine (MachineLedger) to a refusal or a    *)
(* grant, and a request's time budget to a deadline that may pass at any   *)
(* time.                                                                   *)
(***************************************************************************)
EXTENDS Naturals, Sequences, FiniteSets

CONSTANTS
  Requests,      \* the requests, each asking once
  Scopes,        \* the scopes they pass through
  Tenants,       \* the tenants they belong to
  TenantOf,      \* each request's tenant
  ClassOf,       \* each request's priority class, smaller is served first
  ChainOf,       \* each request's scopes, widest first
  Limits,        \* the limits a policy may publish for a scope
  FirstLimits,   \* per scope, the limits at startup
  MaxPublications,  \* bound: how often limits change
  RateLimited,   \* the scopes whose buckets or budget may refuse
  MemoryTight,   \* whether the target's machine may refuse
  Hurried        \* the requests whose time budget may run out

ASSUME ChainAssumption ==
  \A r \in Requests :
    /\ ChainOf[r] \in Seq(Scopes) /\ ChainOf[r] # <<>>
    /\ \A i, j \in 1 .. Len(ChainOf[r]) : ChainOf[r][i] = ChainOf[r][j] => i = j
ASSUME LimitAssumption ==
  /\ Limits \subseteq [max_concurrency : Nat, max_queued : Nat]
  /\ FirstLimits \in [Scopes -> Limits] /\ MaxPublications \in Nat
  /\ RateLimited \subseteq Scopes /\ MemoryTight \in BOOLEAN
ASSUME RequestAssumption ==
  /\ IsFiniteSet(Requests) /\ Hurried \subseteq Requests
  /\ TenantOf \in [Requests -> Tenants] /\ ClassOf \in [Requests -> Nat]
ASSUME NameAssumption == Scopes \cap {"none", "served", "rate", "memory"} = {}

VARIABLES
  limits,     \* per scope, what it enforces: 0 slots is no limit, 0 queued no line
  publishing, \* the scope whose waiters a publication has yet to wake
  published,  \* how many publications there were
  in_flight,  \* per scope, the slots taken
  acquired, released,  \* per scope, how many reservations were ever made and ended
  waiting,    \* per scope, the waiting line
  next_seq,   \* per scope, the next ticket
  pc,         \* where each request is
  held,       \* how many scopes of its chain each request holds
  seen,       \* the limits its current try_acquire_as read
  verdict,    \* why its attempt stopped: the full scope, or the reason
  lined,      \* the scope it is in line at
  memory,     \* the requests that waited for the machine and hold its memory
  expired,    \* the requests whose time budget has run out
  over        \* per request in line, who was chosen over it: a history, read by no step

plan == <<limits, publishing, published>>
slots == <<in_flight, acquired, released>>
line == <<waiting, next_seq>>
ask == <<held, seen, verdict, lined, memory, expired, over>>
vars == <<plan, slots, line, pc, ask>>

NoScope == "none"

Init ==
  /\ limits = FirstLimits /\ publishing = NoScope /\ published = 0
  /\ in_flight = [s \in Scopes |-> 0]
  /\ acquired = [s \in Scopes |-> 0] /\ released = [s \in Scopes |-> 0]
  /\ waiting = [s \in Scopes |-> {}] /\ next_seq = [s \in Scopes |-> 0]
  /\ pc = [r \in Requests |-> "idle"]
  /\ held = [r \in Requests |-> 0]
  /\ seen = [r \in Requests |-> limits[ChainOf[r][1]]]
  /\ verdict = [r \in Requests |-> "none"]
  /\ lined = [r \in Requests |-> NoScope]
  /\ memory = {} /\ expired = {}
  /\ over = [r \in Requests |-> {}]

Goto(r, point) == pc' = [pc EXCEPT ![r] = point]

\* The scope the request is at: the first of its chain it does not hold.
Here(r) == ChainOf[r][held[r] + 1]

\* A mutant: rounds are not looked at.
Before_Arrival(v, w) ==
  v.class < w.class \/ (v.class = w.class /\ v.seq < w.seq)

\* QueueState::head orders waiters by class, then round, then arrival.
Before(v, w) ==
  \/ v.class < w.class
  \/ v.class = w.class /\ v.round < w.round
  \/ v.class = w.class /\ v.round = w.round /\ v.seq < w.seq

IsHead(r, s) ==
  \E w \in waiting[s] : w.req = r /\ \A v \in waiting[s] \ {w} : Before(w, v)

\* The round of a new waiter: its tenant's waiters of its class now in line.
next_round(r, s) ==
  Cardinality({w \in waiting[s] : w.class = ClassOf[r] /\ w.tenant = TenantOf[r]})

\* 0 is no limit.
Room(limit, s) == limit.max_concurrency = 0 \/ in_flight[s] < limit.max_concurrency

has_capacity(s) == Room(limits[s], s)

\* wait_for_turn has looked and is about to wait, still holding the mutex.
QueueLocked(s) == \E r \in Requests : pc[r] = "toSleep" /\ lined[r] = s

Sleepers(s) == {q \in Requests : pc[q] = "asleep" /\ lined[q] = s}

\* notify_all, together with the next point of the notifier.
NotifyAll(s, r, point) ==
  pc' = [q \in Requests |-> IF q = r THEN point
                            ELSE IF q \in Sleepers(s) THEN "look" ELSE pc[q]]

wakes_waiters(s) == limits[s].max_queued > 0 \/ waiting[s] # {}

-----------------------------------------------------------------------------
(* Scope::reconfigure, for each scope a published policy changes *)

SetLimits(s, l) ==
  /\ published < MaxPublications /\ publishing = NoScope /\ limits[s] # l
  /\ limits' = [limits EXCEPT ![s] = l]
  /\ publishing' = s /\ published' = published + 1
  /\ UNCHANGED <<slots, line, pc, ask>>

WakeAfterPublishing ==
  /\ publishing # NoScope
  /\ publishing' = NoScope
  /\ pc' = [q \in Requests |-> IF q \in Sleepers(publishing) THEN "look" ELSE pc[q]]
  /\ UNCHANGED <<limits, published, slots, line, ask>>

-----------------------------------------------------------------------------
(* acquire_chain: try_acquire_as at one scope after the other *)

Start(r) ==
  /\ pc[r] = "idle"
  /\ Goto(r, "check")
  /\ UNCHANGED <<plan, slots, line, ask>>

\* The attempt ends, and gives back what it holds.
Refuse(r, why) ==
  /\ verdict' = [verdict EXCEPT ![r] = why]
  /\ Goto(r, IF held[r] > 0 THEN "unslot" ELSE "decide")

(***************************************************************************)
(* One read of the limits; a request not at the head yields to the line,   *)
(* and the head is chosen over the others of its class.                    *)
(***************************************************************************)
CheckLine(r) ==
  LET s      == Here(r)
      behind == {w.req : w \in {v \in waiting[s] : v.class = ClassOf[r] /\ v.req # r}}
  IN
  /\ pc[r] = "check"
  /\ ~QueueLocked(s)
  /\ seen' = [seen EXCEPT ![r] = limits[s]]
  /\ IF waiting[s] # {} /\ ~IsHead(r, s)
     THEN Refuse(r, s) /\ UNCHANGED over
     ELSE /\ Goto(r, "slot") /\ UNCHANGED verdict
          /\ over' = [q \in Requests |-> IF q \in behind THEN over[q] \cup {r} ELSE over[q]]
  /\ UNCHANGED <<plan, slots, line, held, lined, memory, expired>>

\* A scope past its spend budget refuses before anything else.
BudgetRefuses(r) ==
  /\ pc[r] = "check" /\ Here(r) \in RateLimited
  /\ Refuse(r, "rate")
  /\ UNCHANGED <<plan, slots, line, held, seen, lined, memory, expired, over>>

\* The compare-and-exchange loop on in_flight.
TakeSlot(r) ==
  LET s == Here(r) IN
  /\ pc[r] = "slot"
  /\ IF Room(seen[r], s)
     THEN /\ in_flight' = [in_flight EXCEPT ![s] = @ + 1]
          /\ Goto(r, "bucket") /\ UNCHANGED verdict
     ELSE Refuse(r, s) /\ UNCHANGED in_flight
  /\ UNCHANGED <<plan, acquired, released, line, held, seen, lined, memory, expired, over>>

\* Both buckets agree: the scope is held, and the next one is tried.
TakeBucket(r) ==
  LET s == Here(r) IN
  /\ pc[r] = "bucket"
  /\ acquired' = [acquired EXCEPT ![s] = @ + 1]
  /\ held' = [held EXCEPT ![r] = @ + 1]
  /\ Goto(r, IF held[r] + 1 < Len(ChainOf[r]) THEN "check" ELSE "memory")
  /\ UNCHANGED <<plan, in_flight, released, line, seen, verdict, lined, memory, expired, over>>

\* A mutant: the slot stays taken.
BucketRefuses_Keeps(r) ==
  /\ pc[r] = "bucket" /\ Here(r) \in RateLimited
  /\ Refuse(r, "rate")
  /\ UNCHANGED <<plan, slots, line, held, seen, lined, memory, expired, over>>

\* A bucket refuses after the slot was taken: the slot is put back.
BucketRefuses(r) ==
  LET s == Here(r) IN
  /\ pc[r] = "bucket" /\ s \in RateLimited
  /\ in_flight' = [in_flight EXCEPT ![s] = @ - 1]
  /\ Refuse(r, "rate")
  /\ UNCHANGED <<plan, acquired, released, line, held, seen, lined, memory, expired, over>>

\* Memory last; then the reservation stands, and a ticket holder leaves the line.
TakeMemory(r) ==
  /\ pc[r] = "memory"
  /\ verdict' = [verdict EXCEPT ![r] = "served"]
  /\ Goto(r, IF lined[r] = NoScope THEN "holding" ELSE "leave")
  /\ UNCHANGED <<plan, slots, line, held, seen, lined, memory, expired, over>>

MemoryRefuses(r) ==
  /\ pc[r] = "memory" /\ MemoryTight /\ r \notin memory
  /\ Refuse(r, "memory")
  /\ UNCHANGED <<plan, slots, line, held, seen, lined, memory, expired, over>>

-----------------------------------------------------------------------------
(* release and rollback, narrowest scope first *)

Unslot(r) ==
  LET s == ChainOf[r][held[r]] IN
  /\ pc[r] = "unslot"
  /\ in_flight' = [in_flight EXCEPT ![s] = @ - 1]
  /\ held' = [held EXCEPT ![r] = @ - 1]
  /\ Goto(r, "wake")
  /\ UNCHANGED <<plan, acquired, released, line, seen, verdict, lined, memory, expired, over>>

Wake(r) ==
  LET s    == Here(r)
      next == IF held[r] > 0 THEN "unslot"
              ELSE IF verdict[r] = "served" THEN "done" ELSE "decide"
  IN
  /\ pc[r] = "wake"
  /\ released' = [released EXCEPT ![s] = @ + 1]
  /\ IF wakes_waiters(s) THEN NotifyAll(s, r, next) ELSE Goto(r, next)
  /\ UNCHANGED <<plan, in_flight, acquired, line, ask>>

\* The request has run: its reservation is committed or dropped, memory first.
Finish(r) ==
  /\ pc[r] = "holding"
  /\ Goto(r, "unslot")
  /\ memory' = memory \ {r}
  /\ UNCHANGED <<plan, slots, line, held, seen, verdict, lined, expired, over>>

-----------------------------------------------------------------------------
(* reserve_queued_as: what a refused attempt does next *)

(***************************************************************************)
(* Only a full scope is waited for, and only the scope the request is      *)
(* already in line at is waited for again.  A machine out of memory is     *)
(* waited for once, and the attempt made with its memory in hand is final. *)
(***************************************************************************)
Decide(r) ==
  LET s == verdict[r] IN
  /\ pc[r] = "decide"
  /\ Goto(r, IF lined[r] # NoScope
             THEN (IF s = lined[r] /\ r \notin expired THEN "look" ELSE "leave")
             ELSE IF r \in memory \/ r \in expired THEN "done"
             ELSE IF s = "memory" THEN "machine"
             ELSE IF s \in Scopes /\ limits[s].max_queued > 0 THEN "join"
             ELSE "done")
  /\ memory' = memory \ {r}
  /\ UNCHANGED <<plan, slots, line, held, seen, verdict, lined, expired, over>>

\* MachineLedger::hold_waiting comes back with the memory, or refused.
MemoryGranted(r) ==
  /\ pc[r] = "machine"
  /\ memory' = memory \cup {r}
  /\ Goto(r, "check")
  /\ UNCHANGED <<plan, slots, line, held, seen, verdict, lined, expired, over>>

MemoryTimeout(r) ==
  /\ pc[r] = "machine" /\ r \in expired
  /\ Goto(r, "done")
  /\ UNCHANGED <<plan, slots, line, ask>>

join_queue(r) ==
  LET s == verdict[r] IN
  /\ pc[r] = "join"
  /\ ~QueueLocked(s)
  /\ IF Cardinality(waiting[s]) >= limits[s].max_queued
     THEN Goto(r, "done") /\ UNCHANGED <<line, lined, over>>
     ELSE /\ waiting' = [waiting EXCEPT ![s] = @ \cup
                {[seq |-> next_seq[s], class |-> ClassOf[r], tenant |-> TenantOf[r],
                  round |-> next_round(r, s), req |-> r]}]
          /\ next_seq' = [next_seq EXCEPT ![s] = @ + 1]
          /\ lined' = [lined EXCEPT ![r] = s]
          /\ over' = [over EXCEPT ![r] = {}]
          /\ Goto(r, "look")
  /\ UNCHANGED <<plan, slots, held, seen, verdict, memory, expired>>

\* wait_for_turn looks under the mutex, and waits for a notification.
Look(r) ==
  LET s == lined[r] IN
  /\ pc[r] = "look"
  /\ ~QueueLocked(s)
  /\ Goto(r, IF IsHead(r, s) /\ has_capacity(s) THEN "check"
             ELSE IF r \in expired THEN "leave" ELSE "toSleep")
  /\ UNCHANGED <<plan, slots, line, ask>>

\* Condvar::wait_timeout lets go of the mutex.
Sleep(r) ==
  /\ pc[r] = "toSleep"
  /\ Goto(r, "asleep")
  /\ UNCHANGED <<plan, slots, line, ask>>

\* The time budget runs out; it may be nothing from the start.
DeadlinePasses(r) ==
  /\ r \in Hurried \ expired
  /\ pc[r] = "idle" \/ pc[r] = "machine" \/ lined[r] # NoScope
  /\ expired' = expired \cup {r}
  /\ UNCHANGED <<plan, slots, line, pc, held, seen, verdict, lined, memory, over>>

\* A mutant: the waiter waits on, whatever the time.
TimeOutAsleep_WaitsOn(r) ==
  /\ pc[r] = "asleep" /\ r \in expired
  /\ UNCHANGED vars

\* wait_timeout returns for the time, not for a notification.
TimeOutAsleep(r) ==
  /\ pc[r] = "asleep" /\ r \in expired
  /\ Goto(r, "look")
  /\ UNCHANGED <<plan, slots, line, ask>>

\* A mutant: only a request that was served drops its ticket.
leave_queue_OnlyServed(r) ==
  LET s == lined[r] IN
  /\ pc[r] = "leave"
  /\ ~QueueLocked(s)
  /\ waiting' = IF verdict[r] = "served"
                THEN [waiting EXCEPT ![s] = {w \in @ : w.req # r}] ELSE waiting
  /\ lined' = [lined EXCEPT ![r] = NoScope]
  /\ NotifyAll(s, r, IF verdict[r] = "served" THEN "holding" ELSE "done")
  /\ UNCHANGED <<plan, slots, next_seq, held, seen, verdict, memory, expired, over>>

\* The ticket's guard drops on every way out.
leave_queue(r) ==
  LET s == lined[r] IN
  /\ pc[r] = "leave"
  /\ ~QueueLocked(s)
  /\ waiting' = [waiting EXCEPT ![s] = {w \in @ : w.req # r}]
  /\ lined' = [lined EXCEPT ![r] = NoScope]
  /\ NotifyAll(s, r, IF verdict[r] = "served" THEN "holding" ELSE "done")
  /\ UNCHANGED <<plan, slots, next_seq, held, seen, verdict, memory, expired, over>>

-----------------------------------------------------------------------------

\* One step of the thread serving the request.
Step(r) ==
  \/ Start(r) \/ CheckLine(r) \/ TakeSlot(r) \/ TakeBucket(r) \/ TakeMemory(r)
  \/ Finish(r) \/ Unslot(r) \/ Wake(r) \/ Decide(r) \/ join_queue(r)
  \/ Look(r) \/ Sleep(r) \/ TimeOutAsleep(r) \/ leave_queue(r) \/ MemoryTimeout(r)

\* What the environment may do to the request.
Event(r) == BudgetRefuses(r) \/ BucketRefuses(r) \/ MemoryRefuses(r) \/ MemoryGranted(r)

AllAnswered ==
  /\ \A r \in Requests : pc[r] = "done"
  /\ UNCHANGED vars

Next ==
  \/ \E r \in Requests : Step(r) \/ Event(r) \/ DeadlinePasses(r)
  \/ \E s \in Scopes, l \in Limits : SetLimits(s, l)
  \/ WakeAfterPublishing
  \/ AllAnswered

Spec == Init /\ [][Next]_vars

\* The scheduler runs every thread, time passes, and every attempt ends.
FairSpec ==
  /\ Spec
  /\ \A r \in Requests : WF_vars(Step(r)) /\ WF_vars(DeadlinePasses(r))
  /\ WF_vars(WakeAfterPublishing)

-----------------------------------------------------------------------------
(* Properties *)

Points == {"idle", "check", "slot", "bucket", "memory", "holding", "unslot", "wake",
           "decide", "machine", "join", "look", "toSleep", "asleep", "leave", "done"}

\* The requests that hold scope s, those giving it back, and those with a slot of it.
Holders(s) == {r \in Requests : \E i \in 1 .. held[r] : ChainOf[r][i] = s}
Releasing(s) == {r \in Requests : pc[r] = "wake" /\ Here(r) = s}
Occupants(s) == Holders(s) \cup {r \in Requests : pc[r] = "bucket" /\ Here(r) = s}

(***************************************************************************)
(* Scope::in_flight counts exactly the requests inside the scope, through  *)
(* every refusal, rollback and release: no slot is leaked or returned      *)
(* twice, so the counter cannot wrap and is zero once all have gone.       *)
(***************************************************************************)
SlotsAccounted == \A s \in Scopes : in_flight[s] = Cardinality(Occupants(s))

(***************************************************************************)
(* Scope::conservation: what was acquired was released, but for the        *)
(* requests that still hold the scope or are releasing it.                 *)
(***************************************************************************)
Conservation ==
  \A s \in Scopes :
    acquired[s] = released[s] + Cardinality(Holders(s)) + Cardinality(Releasing(s))

(***************************************************************************)
(* try_acquire_as never takes a scope past the largest limit it was ever   *)
(* given, whichever of two threads read the limits or the counter first.   *)
(***************************************************************************)
ConcurrencyBounded ==
  \A s \in Scopes :
    \E l \in Limits : l.max_concurrency = 0 \/ in_flight[s] <= l.max_concurrency

(***************************************************************************)
(* QueuedTicket: a place in line belongs to a request that is still asking *)
(* and knows it, one each; a place left behind would block everyone after  *)
(* it.                                                                     *)
(***************************************************************************)
LineIsLive ==
  \A s \in Scopes :
    /\ \A w \in waiting[s] :
         lined[w.req] = s /\ pc[w.req] \notin {"idle", "join", "holding", "machine", "done"}
    /\ \A r \in Requests : lined[r] = s => \E w \in waiting[s] : w.req = r
    /\ \A v, w \in waiting[s] : v.req = w.req \/ v.seq = w.seq => v = w

(***************************************************************************)
(* QueueState::head and next_round: however long the backlog of one        *)
(* tenant, the line chooses at most one of its requests over the first     *)
(* waiter of another in the same class, at any number of slots.            *)
(***************************************************************************)
TenantDelay ==
  \A s \in Scopes : \A w \in waiting[s] : \A t \in Tenants \ {w.tenant} :
    w.round = 0 => Cardinality({q \in over[w.req] : TenantOf[q] = t}) <= 1

(***************************************************************************)
(* reserve_queued_as: the queue timeout is mandatory, so every request     *)
(* that asks is served to its end or refused.                              *)
(***************************************************************************)
EveryRequestAnswered == \A r \in Requests : pc[r] = "check" ~> pc[r] = "done"
=============================================================================
